---------------------------- MODULE KbEvalProofs ----------------------------
(***************************************************************************)
(* Proofs about KbEval: where variables are found, what the variables of a   *)
(* node lead to, that evaluation finds out whether all of it resolves, and    *)
(* that the values it leaves are what the variables mean.                    *)
(***************************************************************************)
EXTENDS KbEval, KbSequences

parent == forest.parent
children == forest.children
given == forest.given
Callers == [n \in Node |-> CallersOf(n)]

LEMMA Forest ==
    ASSUME forest \in Forests
    PROVE  /\ Node \subseteq Nat \ {0} /\ IsFiniteSet(Key)
           /\ forest.roots \in Seq(Node) /\ IsInjective(forest.roots)
           /\ \A i \in DOMAIN forest.roots : parent[forest.roots[i]] = 0
           /\ \A n \in Node :
                /\ parent[n] \in Node \cup {0} /\ parent[n] < n
                /\ children[n] \in Seq(Node) /\ IsInjective(children[n])
                /\ \A c \in Node : parent[c] = n <=> c \in Range(children[n])
                /\ DOMAIN given[n] \subseteq Key /\ given[n] \in [DOMAIN given[n] -> Seq(Value)]
           /\ DOMAIN given = Node
<1>1. IsForest(forest)
    BY EvalAssumption
<1>2. Node \subseteq Nat \ {0} /\ IsFiniteSet(Key)
    BY EvalAssumption
<1>3. forest.roots \in Seq(Node) /\ IsInjective(forest.roots)
    BY <1>1 DEF IsForest
<1>4. \A i \in DOMAIN forest.roots : parent[forest.roots[i]] = 0
    BY <1>1 DEF IsForest, parent
<1>5. \A n \in Node : /\ parent[n] \in Node \cup {0} /\ parent[n] < n
                      /\ children[n] \in Seq(Node) /\ IsInjective(children[n])
    BY <1>1 DEF IsForest, parent, children
<1>6. \A n, c \in Node : parent[c] = n <=> c \in Range(children[n])
    BY <1>1 DEF IsForest, parent, children
<1>7. /\ DOMAIN given = Node
      /\ \A n \in Node : DOMAIN given[n] \subseteq Key /\ given[n] \in [DOMAIN given[n] -> Seq(Value)]
    BY <1>1 DEF IsForest, given
<1>8. QED  BY <1>2, <1>3, <1>4, <1>5, <1>6, <1>7

LEMMA Pieces ==
    /\ \A p \in Piece : /\ p.op \in {"text", "ref", "setenv", "getenv", "malformed"}
                        /\ p.op = "ref" => p.arg \in Key
                        /\ p.op \in {"setenv", "getenv"} => p.arg \in EnvVar
    /\ \A w \in Word : Text(w) \in Piece /\ Text(w).op = "text"
<1>1. ASSUME NEW p \in Piece
      PROVE  /\ p.op \in {"text", "ref", "setenv", "getenv", "malformed"}
             /\ p.op = "ref" => p.arg \in Key
             /\ p.op \in {"setenv", "getenv"} => p.arg \in EnvVar
  <2>1. CASE p \in [op : {"text"}, arg : Word]
      BY <2>1
  <2>2. CASE p \in [op : {"ref"}, arg : Key]
      BY <2>2
  <2>3. CASE p \in [op : {"setenv", "getenv"}, arg : EnvVar]
      BY <2>3
  <2>4. CASE p = [op |-> "malformed", arg |-> ""]
      BY <2>4
  <2>5. QED  BY <2>1, <2>2, <2>3, <2>4 DEF Piece
<1>2. ASSUME NEW w \in Word PROVE Text(w) \in Piece /\ Text(w).op = "text"
  <2>1. [op |-> "text", arg |-> w] \in [op : {"text"}, arg : Word]
      OBVIOUS
  <2>2. [op |-> "text", arg |-> w].op = "text"
      OBVIOUS
  <2>3. QED  BY <2>1, <2>2 DEF Piece, Text
<1>3. QED  BY <1>1, <1>2
-----------------------------------------------------------------------------
(* What holds of a node when it holds of its parent holds of all nodes.       *)
LEMMA Downwards ==
    ASSUME forest \in Forests, NEW S,
           \A n \in Node : parent[n] = 0 \/ parent[n] \in S => n \in S
    PROVE  Node \subseteq S
<1> SUFFICES ASSUME Node \ S # {} PROVE FALSE
    OBVIOUS
<1>1. Node \ S \in SUBSET Nat
    BY Forest
<1>2. PICK n \in Node \ S : \A m \in Node \ S : n <= m
    BY <1>1, LeastNumber
<1>3. n \in Nat /\ parent[n] \in Node \cup {0} /\ parent[n] < n /\ Node \subseteq Nat
    BY <1>2, Forest
<1>4. parent[n] \in Node \ S
    BY <1>2, <1>3
<1>5. n <= parent[n] /\ parent[n] \in Nat
    BY <1>2, <1>3, <1>4
<1>6. QED  BY <1>3, <1>5

(* The function CallersOf is defined by exists.                              *)
Climbs(f, m) == f = [x \in Node \cup {0} |-> x = m \/ (x # 0 /\ f[parent[x]])]

LEMMA ClimbsExists ==
    ASSUME forest \in Forests, NEW m
    PROVE  \E f : Climbs(f, m)
<1> DEFINE All == Node \cup {0}
           Down(S) == m \in S /\ \A y \in Node : parent[y] \in S => y \in S
           B == {x \in All : \A S \in SUBSET (All \cup {m}) : Down(S) => x \in S}
           f == [x \in All |-> x \in B]
<1>1. ASSUME NEW x \in All, x = m \/ (x # 0 /\ parent[x] \in B) PROVE x \in B
    BY <1>1
<1>2. ASSUME NEW x \in B PROVE x = m \/ (x # 0 /\ parent[x] \in B)
  <2> DEFINE S == {y \in B \cup {m} : y = m \/ (y # 0 /\ parent[y] \in B)}
  <2>1. S \in SUBSET (All \cup {m}) /\ m \in S
      OBVIOUS
  <2>2. ASSUME NEW y \in Node, parent[y] \in S PROVE y \in S
    <3>1. parent[y] \in All /\ y # 0
        BY Forest
    <3>2. parent[y] \in B
        BY <2>2, <3>1
    <3>3. y \in B
        BY <1>1, <3>1, <3>2
    <3>4. QED  BY <3>1, <3>2, <3>3
  <2>3. x \in S
      BY <1>2, <2>1, <2>2
  <2>4. QED  BY <2>3
<1>3. \A x \in All : x # 0 => parent[x] \in All
    BY Forest
<1> HIDE DEF B
<1>4. \A x \in All : (x \in B) = (x = m \/ (x # 0 /\ parent[x] \in B))
    BY <1>1, <1>2
<1>5. \A x \in All : (x = m \/ (x # 0 /\ parent[x] \in B)) = (x = m \/ (x # 0 /\ f[parent[x]]))
    BY <1>3
<1>6. f = [x \in All |-> x = m \/ (x # 0 /\ f[parent[x]])]
    BY <1>4, <1>5, Zenon
<1>7. QED  BY <1>6 DEF Climbs

(* A node is called from itself, and from where its parent is called from.    *)
LEMMA CallersUnfold ==
    ASSUME forest \in Forests, NEW n \in Node
    PROVE  Callers[n] = {n} \cup (IF parent[n] = 0 THEN {} ELSE Callers[parent[n]])
<1> DEFINE f(m) == CHOOSE g : Climbs(g, m)
<1>1. \A m : Climbs(f(m), m)
    BY ClimbsExists
<1>2. \A x \in Node : CallersOf(x) = {m \in Node : f(m)[x]}
    BY DEF CallersOf, Climbs, parent
<1>3. ASSUME NEW m PROVE \A x \in Node \cup {0} : f(m)[x] <=> x = m \/ (x # 0 /\ f(m)[parent[x]])
  <2> DEFINE h == f(m)
  <2>1. h = [x \in Node \cup {0} |-> x = m \/ (x # 0 /\ h[parent[x]])]
      BY <1>1 DEF Climbs
  <2> HIDE DEF h
  <2>2. \A x \in Node \cup {0} : h[x] <=> x = m \/ (x # 0 /\ h[parent[x]])
      BY <2>1
  <2>3. QED  BY <2>2 DEF h
<1> HIDE DEF f
<1>4. parent[n] \in Node \cup {0} /\ n # 0 /\ 0 \notin Node
    BY Forest
<1>5. \A m \in Node : ~f(m)[0]
    BY <1>3, <1>4
<1>6. \A m \in Node : f(m)[n] <=> n = m \/ f(m)[parent[n]]
    BY <1>3, <1>4
<1>7. CASE parent[n] = 0
    BY <1>2, <1>5, <1>6, <1>7 DEF Callers
<1>8. CASE parent[n] \in Node
  <2>1. Callers[n] = {m \in Node : f(m)[n]} /\ Callers[parent[n]] = {m \in Node : f(m)[parent[n]]}
      BY <1>2, <1>8 DEF Callers
  <2>2. parent[n] # 0
      BY <1>4, <1>8
  <2>3. QED  BY <1>6, <2>1, <2>2
<1>9. QED  BY <1>4, <1>7, <1>8

LEMMA CallersFacts ==
    ASSUME forest \in Forests, NEW n \in Node
    PROVE  /\ n \in Callers[n] /\ Callers[n] \subseteq Node
           /\ \A m \in Callers[n] : m <= n /\ Callers[m] \subseteq Callers[n]
<1> DEFINE S == {x \in Node : /\ x \in Callers[x] /\ Callers[x] \subseteq Node
                              /\ \A m \in Callers[x] : m <= x /\ Callers[m] \subseteq Callers[x]}
<1>1. ASSUME NEW x \in Node, parent[x] = 0 \/ parent[x] \in S PROVE x \in S
  <2>1. Callers[x] = {x} \cup (IF parent[x] = 0 THEN {} ELSE Callers[parent[x]])
      BY CallersUnfold
  <2>2. x \in Nat /\ parent[x] < x /\ Node \subseteq Nat
      BY Forest
  <2>3. CASE parent[x] = 0
    <3>1. Callers[x] = {x}
        BY <2>1, <2>3
    <3>2. QED  BY <2>2, <3>1
  <2>4. CASE parent[x] # 0
    <3>1. parent[x] \in S /\ Callers[x] = {x} \cup Callers[parent[x]]
        BY <1>1, <2>1, <2>4
    <3>2. \A m \in Callers[parent[x]] : m \in Nat /\ m <= parent[x] /\ parent[x] \in Nat
        BY <2>2, <3>1
    <3>3. \A m \in Callers[parent[x]] : m <= x
        BY <2>2, <3>2
    <3>4. \A m \in Callers[parent[x]] : Callers[m] \subseteq Callers[parent[x]]
        BY <3>1
    <3>5. QED  BY <2>2, <3>1, <3>3, <3>4
  <2>5. QED  BY <2>3, <2>4
<1>2. Node \subseteq S
  <2> HIDE DEF S
  <2>1. QED  BY <1>1, Downwards
<1>3. QED  BY <1>2
-----------------------------------------------------------------------------
Having(n, key) == {m \in Callers[n] : key \in DOMAIN given[m]}

LEMMA OwnerUnfolds ==
    ASSUME forest \in Forests, NEW n \in Node, NEW key
    PROVE  Owner(n, key) = IF key \in DOMAIN given[n] THEN n
                           ELSE IF parent[n] = 0 THEN 0 ELSE Owner(parent[n], key)
<1>1. \A x \in Node :
        Owner(x, key) = IF Having(x, key) = {} THEN 0
                        ELSE CHOOSE m \in Having(x, key) : Having(x, key) \subseteq CallersOf(m)
    BY DEF Owner, Having, Callers, given
<1>2. /\ Callers[n] = {n} \cup (IF parent[n] = 0 THEN {} ELSE Callers[parent[n]])
      /\ parent[n] \in Node \cup {0}
    BY CallersUnfold, Forest
<1>3. CASE key \in DOMAIN given[n]
  <2> DEFINE H == Having(n, key)
             c == CHOOSE m \in H : H \subseteq CallersOf(m)
  <2>1. n \in H /\ H \subseteq CallersOf(n) /\ H \subseteq Node
      BY <1>3, CallersFacts DEF Having, Callers
  <2>2. c \in H /\ H \subseteq CallersOf(c)
      BY <2>1
  <2>3. Owner(n, key) = c
      BY <1>1, <2>1
  <2> HIDE DEF c
  <2>4. c \in Node /\ c \in Callers[n] /\ n \in Callers[c]
      BY <2>1, <2>2 DEF Callers
  <2>5. c <= n /\ n <= c /\ c \in Nat /\ n \in Nat
      BY <2>4, CallersFacts, Forest
  <2>6. c = n
      BY <2>5
  <2>7. QED  BY <1>3, <2>3, <2>6
<1>4. CASE key \notin DOMAIN given[n] /\ parent[n] = 0
  <2>1. Having(n, key) = {}
      BY <1>2, <1>4 DEF Having
  <2>2. QED  BY <1>1, <1>4, <2>1
<1>5. CASE key \notin DOMAIN given[n] /\ parent[n] # 0
  <2>1. Having(n, key) = Having(parent[n], key) /\ parent[n] \in Node
      BY <1>2, <1>5 DEF Having
  <2>2. QED  BY <1>1, <1>5, <2>1
<1>6. QED  BY <1>3, <1>4, <1>5

(* The function kbnode_resolve is defined by finds the owner.                *)
Climb(f, key) ==
    f = [m \in Node \cup {0} |-> IF m = 0 \/ key \in DOMAIN given[m] THEN m ELSE f[parent[m]]]

LEMMA ResolveFindsOwner ==
    ASSUME forest \in Forests, NEW n \in Node, NEW key
    PROVE  kbnode_resolve(n, key) = Owner(n, key)
<1> DEFINE All == Node \cup {0}
           g == [m \in All |-> IF m = 0 THEN 0 ELSE Owner(m, key)]
           f == CHOOSE h : Climb(h, key)
<1>1. \A m \in Node : m # 0 /\ parent[m] \in All
    BY Forest
<1>2. \A m \in All : g[m] = IF m = 0 \/ key \in DOMAIN given[m] THEN m ELSE g[parent[m]]
    BY <1>1, OwnerUnfolds
<1>3. Climb(g, key)
  <2>1. g = [m \in All |-> g[m]]
      OBVIOUS
  <2> HIDE DEF g
  <2>2. QED  BY <1>2, <2>1 DEF Climb
<1>4. Climb(f, key)
    BY <1>3
<1>5. kbnode_resolve(n, key) = f[n]
    BY DEF kbnode_resolve, Climb, given, parent
<1> HIDE DEF f, g
<1>6. \A m \in All : f[m] = IF m = 0 \/ key \in DOMAIN given[m] THEN m ELSE f[parent[m]]
    BY <1>4 DEF Climb
<1> DEFINE S == {m \in Node : f[m] = Owner(m, key)}
<1>7. ASSUME NEW m \in Node, parent[m] = 0 \/ parent[m] \in S PROVE m \in S
  <2>1. f[0] = 0
      BY <1>6
  <2>2. f[m] = IF key \in DOMAIN given[m] THEN m ELSE f[parent[m]]
      BY <1>1, <1>6
  <2>3. Owner(m, key) = IF key \in DOMAIN given[m] THEN m
                        ELSE IF parent[m] = 0 THEN 0 ELSE Owner(parent[m], key)
      BY OwnerUnfolds
  <2>4. 0 \notin Node
      BY <1>1
  <2>5. QED  BY <1>7, <2>1, <2>2, <2>3, <2>4
<1>8. Node \subseteq S
  <2> HIDE DEF S
  <2>1. QED  BY <1>7, Downwards
<1>9. QED  BY <1>5, <1>8

LEMMA OwnerFacts ==
    ASSUME forest \in Forests, NEW n \in Node, NEW key, Owner(n, key) # 0
    PROVE  Owner(n, key) \in Callers[n] /\ Owner(n, key) \in Node /\ key \in DOMAIN given[Owner(n, key)]
<1> DEFINE S == {x \in Node : Owner(x, key) # 0 =>
                    Owner(x, key) \in Callers[x] /\ key \in DOMAIN given[Owner(x, key)]}
<1>1. ASSUME NEW x \in Node, parent[x] = 0 \/ parent[x] \in S PROVE x \in S
  <2>1. Callers[x] = {x} \cup (IF parent[x] = 0 THEN {} ELSE Callers[parent[x]])
      BY CallersUnfold
  <2>2. Owner(x, key) = IF key \in DOMAIN given[x] THEN x
                        ELSE IF parent[x] = 0 THEN 0 ELSE Owner(parent[x], key)
      BY OwnerUnfolds
  <2>3. QED  BY <1>1, <2>1, <2>2
<1>2. Node \subseteq S
  <2> HIDE DEF S
  <2>1. QED  BY <1>1, Downwards
<1>3. QED  BY <1>2, CallersFacts
-----------------------------------------------------------------------------
(* What one more round of references leads to.                              *)
NearKeys(n, S) == S \cup UNION {UsedBy(ValuesOf(n, k)) : k \in S}
Closed(n, S) == \A k \in S : UsedBy(ValuesOf(n, k)) \subseteq S

LEMMA ValuesType ==
    ASSUME forest \in Forests, NEW n \in Node, NEW k
    PROVE  /\ ValuesOf(n, k) \subseteq Value /\ UsedBy(ValuesOf(n, k)) \subseteq Key
           /\ \A V \in SUBSET Value : UsedBy(V) \subseteq Key
<1>1. ValuesOf(n, k) \subseteq Value
  <2>1. CASE Owner(n, k) = 0
      BY <2>1 DEF ValuesOf
  <2>2. CASE Owner(n, k) # 0
    <3>1. Owner(n, k) \in Node /\ k \in DOMAIN given[Owner(n, k)]
        BY <2>2, OwnerFacts
    <3>2. given[Owner(n, k)][k] \in Seq(Value)
        BY <3>1, Forest
    <3>3. Range(given[Owner(n, k)][k]) \subseteq Value
        BY <3>2 DEF Range
    <3>4. QED  BY <2>2, <3>3 DEF ValuesOf, given
  <2>3. QED  BY <2>1, <2>2
<1>2. ASSUME NEW V \in SUBSET Value PROVE UsedBy(V) \subseteq Key
  <2>1. \A v \in V : Range(v) \subseteq Piece
      BY DEF Value, Range
  <2>2. QED  BY <2>1, Pieces DEF UsedBy
<1>3. QED  BY <1>1, <1>2

(* The function Uses is defined by exists.                                   *)
Spreads(f, n, keys, d) == f = [k \in 0..d |-> IF k = 0 THEN keys ELSE NearKeys(n, f[k - 1])]

LEMMA SpreadsSteps ==
    ASSUME NEW f, NEW n, NEW keys, NEW d \in Nat, Spreads(f, n, keys, d)
    PROVE  f[0] = keys /\ \A k \in 1..d : f[k] = NearKeys(n, f[k - 1])
<1> DEFINE g == [k \in 0..d |-> IF k = 0 THEN keys ELSE NearKeys(n, f[k - 1])]
<1>1. g[0] = keys /\ \A k \in 1..d : g[k] = NearKeys(n, f[k - 1])
    OBVIOUS
<1>2. f = g
    BY DEF Spreads
<1> HIDE DEF g
<1>3. QED  BY <1>1, <1>2

LEMMA SpreadsExists ==
    ASSUME NEW n, NEW keys, NEW d \in Nat
    PROVE  \E f : Spreads(f, n, keys, d)
<1> DEFINE N == {m \in Nat : \E f : Spreads(f, n, keys, m)}
<1>1. 0 \in N
  <2> DEFINE g == [k \in 0..0 |-> keys]
  <2>1. g = [k \in 0..0 |-> IF k = 0 THEN keys ELSE NearKeys(n, g[k - 1])]
      OBVIOUS
  <2>2. Spreads(g, n, keys, 0)
      BY <2>1 DEF Spreads
  <2>3. QED  BY <2>2
<1>2. ASSUME NEW m \in N PROVE m + 1 \in N
  <2>1. PICK f : Spreads(f, n, keys, m)
      OBVIOUS
  <2>2. m \in Nat
      OBVIOUS
  <2>3. f[0] = keys /\ \A k \in 1..m : f[k] = NearKeys(n, f[k - 1])
      BY <2>1, <2>2, SpreadsSteps
  <2> DEFINE g == [k \in 0..(m + 1) |-> IF k = 0 THEN keys ELSE NearKeys(n, f[k - 1])]
  <2>4. \A k \in 0..m : f[k] = g[k]
    <3>1. \A k \in 0..m : g[k] = IF k = 0 THEN keys ELSE NearKeys(n, f[k - 1])
        BY <2>2
    <3> HIDE DEF g
    <3>2. QED  BY <2>2, <2>3, <3>1
  <2> HIDE DEF g
  <2>5. \A k \in 0..(m + 1) : k # 0 => f[k - 1] = g[k - 1]
      BY <2>2, <2>4
  <2>6. g = [k \in 0..(m + 1) |-> IF k = 0 THEN keys ELSE NearKeys(n, g[k - 1])]
      BY <2>2, <2>5 DEF g
  <2>7. Spreads(g, n, keys, m + 1)
      BY <2>6 DEF Spreads
  <2>8. QED  BY <2>2, <2>7
<1>3. N = Nat
  <2> N \in SUBSET Nat
      OBVIOUS
  <2> HIDE DEF N
  <2>1. QED  BY <1>1, <1>2, Induction
<1>4. QED  BY <1>3

LEMMA UsesUnfolds ==
    ASSUME forest \in Forests, NEW n, NEW keys
    PROVE  \E f : Spreads(f, n, keys, Cardinality(Key)) /\ Uses(n, keys) = f[Cardinality(Key)]
<1> DEFINE d == Cardinality(Key)
           f == CHOOSE g : Spreads(g, n, keys, d)
<1>1. d \in Nat
    BY Forest, FS_CardinalityType
<1>2. Spreads(f, n, keys, d)
    BY <1>1, SpreadsExists
<1>3. Uses(n, keys) = f[d]
    BY DEF Uses, Spreads, NearKeys
<1>4. QED  BY <1>2, <1>3

(* What is used in the end is the least set that has what is used at once:     *)
(* each round adds a variable, or nothing ever after.                        *)
LEMMA UsesLeast ==
    ASSUME forest \in Forests, NEW n, NEW keys, NEW S, keys \subseteq S, Closed(n, S)
    PROVE  Uses(n, keys) \subseteq S
<1> DEFINE d == Cardinality(Key)
<1>1. d \in Nat
    BY Forest, FS_CardinalityType
<1>2. PICK f : Spreads(f, n, keys, d) /\ Uses(n, keys) = f[d]
    BY UsesUnfolds
<1> HIDE DEF d
<1>3. f[0] = keys /\ \A k \in 1..d : f[k] = NearKeys(n, f[k - 1])
    BY <1>1, <1>2, SpreadsSteps
<1> DEFINE N == {k \in Nat : k <= d => f[k] \subseteq S}
<1>4. 0 \in N
    BY <1>3
<1>5. ASSUME NEW k \in N PROVE k + 1 \in N
  <2> SUFFICES ASSUME k + 1 <= d PROVE f[k + 1] \subseteq S
      OBVIOUS
  <2>1. f[k] \subseteq S /\ k \in Nat
      BY <1>1
  <2>2. k + 1 \in 1..d /\ (k + 1) - 1 = k
      BY <1>1, <2>1
  <2>3. f[k + 1] = NearKeys(n, f[(k + 1) - 1])
      BY <1>3, <2>2
  <2>4. f[k + 1] = NearKeys(n, f[k])
      BY <2>2, <2>3
  <2>5. QED  BY <2>1, <2>4 DEF NearKeys, Closed
<1>6. N = Nat
  <2> N \in SUBSET Nat
      OBVIOUS
  <2> HIDE DEF N
  <2>1. QED  BY <1>4, <1>5, Induction
<1>7. QED  BY <1>1, <1>2, <1>6

LEMMA UsesClosed ==
    ASSUME forest \in Forests, NEW n \in Node, NEW keys \in SUBSET Key
    PROVE  keys \subseteq Uses(n, keys) /\ Uses(n, keys) \subseteq Key /\ Closed(n, Uses(n, keys))
<1> DEFINE d == Cardinality(Key)
<1>1. d \in Nat /\ IsFiniteSet(Key)
    BY Forest, FS_CardinalityType
<1>2. PICK f : Spreads(f, n, keys, d) /\ Uses(n, keys) = f[d]
    BY UsesUnfolds
<1>3. Closed(n, Key)
    BY ValuesType DEF Closed
<1>4. d = Cardinality(Key)
    OBVIOUS
<1> HIDE DEF d
<1>5. f[0] = keys /\ \A k \in 1..d : f[k] = NearKeys(n, f[k - 1])
    BY <1>1, <1>2, SpreadsSteps
<1> DEFINE Grown(k) == /\ keys \subseteq f[k] /\ f[k] \subseteq Key
                       /\ Closed(n, f[k]) \/ Cardinality(f[k]) >= k + 1
           N == {k \in Nat : k <= d => Grown(k)}
<1>6. 0 \in N
  <2>1. CASE keys = {}
      BY <1>5, <2>1 DEF Closed
  <2>2. CASE keys # {}
    <3>1. PICK key \in keys : TRUE
        BY <2>2
    <3>2. IsFiniteSet(keys) /\ {key} \subseteq keys
        BY <1>1, <3>1, FS_Subset
    <3>3. Cardinality({key}) = 1 /\ Cardinality({key}) <= Cardinality(keys)
        BY <3>2, FS_Singleton, FS_Subset
    <3>4. Cardinality(keys) >= 0 + 1
        BY <3>2, <3>3, FS_CardinalityType
    <3>5. QED  BY <1>5, <3>4
  <2>3. QED  BY <2>1, <2>2
<1>7. ASSUME NEW k \in N PROVE k + 1 \in N
  <2> SUFFICES ASSUME k + 1 <= d PROVE Grown(k + 1)
      OBVIOUS
  <2>1. Grown(k) /\ k \in Nat
      BY <1>1
  <2>2. k + 1 \in 1..d /\ (k + 1) - 1 = k
      BY <1>1, <2>1
  <2>3. f[k + 1] = NearKeys(n, f[(k + 1) - 1])
      BY <1>5, <2>2
  <2>4. f[k + 1] = NearKeys(n, f[k])
      BY <2>2, <2>3
  <2>5. keys \subseteq f[k + 1] /\ f[k] \subseteq f[k + 1] /\ f[k + 1] \subseteq Key
      BY <1>3, <2>1, <2>4 DEF NearKeys, Closed
  <2>6. CASE Closed(n, f[k])
    <3>1. f[k + 1] = f[k]
        BY <2>4, <2>6 DEF NearKeys, Closed
    <3>2. QED  BY <2>1, <2>6, <3>1
  <2>7. CASE ~Closed(n, f[k])
    <3>1. f[k + 1] # f[k]
        BY <2>4, <2>7 DEF NearKeys, Closed
    <3>2. IsFiniteSet(f[k]) /\ IsFiniteSet(f[k + 1])
        BY <1>1, <2>1, <2>5, FS_Subset
    <3>3. Cardinality(f[k]) <= Cardinality(f[k + 1]) /\ Cardinality(f[k]) # Cardinality(f[k + 1])
        BY <2>5, <3>1, <3>2, FS_Subset
    <3>4. Cardinality(f[k]) \in Nat /\ Cardinality(f[k + 1]) \in Nat
        BY <3>2, FS_CardinalityType
    <3>5. Cardinality(f[k]) >= k + 1
        BY <2>1, <2>7
    <3>6. Cardinality(f[k + 1]) >= (k + 1) + 1
        BY <2>1, <3>3, <3>4, <3>5
    <3>7. QED  BY <2>5, <3>6
  <2>8. QED  BY <2>6, <2>7
<1>8. N = Nat
  <2> N \in SUBSET Nat
      OBVIOUS
  <2> HIDE DEF N
  <2>1. QED  BY <1>6, <1>7, Induction
<1>9. Grown(d)
    BY <1>1, <1>8
<1>10. Closed(n, f[d])
  <2> SUFFICES ASSUME Cardinality(f[d]) >= d + 1 PROVE FALSE
      BY <1>9
  <2>1. f[d] \in SUBSET Key
      BY <1>9
  <2>2. IsFiniteSet(f[d]) /\ Cardinality(f[d]) <= d
      BY <1>1, <1>4, <2>1, FS_Subset
  <2>3. Cardinality(f[d]) \in Nat
      BY <2>2, FS_CardinalityType
  <2>4. QED  BY <1>1, <2>2, <2>3
<1>11. QED  BY <1>2, <1>9, <1>10
-----------------------------------------------------------------------------
(* All references of a value are to variables of S, and none is malformed.     *)
Fit(S, value) == \A p \in Range(value) : p.op # "malformed" /\ (p.op = "ref" => p.arg \in S)

(* The variables of S can all be resolved for n, and lead to others of S.      *)
Sufficient(n, S) == \A k \in S : Owner(n, k) # 0 /\ \A v \in ValuesOf(n, k) : Fit(S, v)

(* The variables that resolve for a node, with all they lead to; those of them  *)
(* that do not go on leading to others for ever; the sets there are between    *)
(* the two, that have a variable exactly if they have all it leads to.        *)
Clear == [n \in Node |-> {k \in Key : \E S \in SUBSET Key : k \in S /\ Sufficient(n, S)}]
Inductive(n, S) ==
    \A k \in Key : Owner(n, k) # 0 /\ (\A v \in ValuesOf(n, k) : Fit(S, v)) => k \in S
Grounded == [n \in Node |-> {k \in Key : \A S \in SUBSET Key : Inductive(n, S) => k \in S}]
Steady == [n \in Node |-> {S \in SUBSET Key : Inductive(n, S) /\ Sufficient(n, S)}]

(* The nodes whose variables all end; the nodes evaluation should find nothing  *)
(* wrong with; what is below a node.                                         *)
Sound == {n \in Node : DOMAIN given[n] \subseteq Grounded[n]}
Passing == {n \in Node : n \in forest.named /\ Resolvable(n)}
Under == [n \in Node |-> {m \in Node : n \in CallersOf(m)}]

LEMMA ClearUnfolds ==
    ASSUME forest \in Forests, NEW n \in Node, NEW k \in Key
    PROVE  k \in Clear[n] <=> Owner(n, k) # 0 /\ \A v \in ValuesOf(n, k) : Fit(Clear[n], v)
<1>1. \A S, T, v : S \subseteq T /\ Fit(S, v) => Fit(T, v)
    BY DEF Fit
<1>2. \A S \in SUBSET Key : Sufficient(n, S) => S \subseteq Clear[n]
    BY DEF Clear
<1>3. ASSUME k \in Clear[n]
      PROVE  Owner(n, k) # 0 /\ \A v \in ValuesOf(n, k) : Fit(Clear[n], v)
  <2>1. PICK S \in SUBSET Key : k \in S /\ Sufficient(n, S)
      BY <1>3 DEF Clear
  <2>2. QED  BY <1>1, <1>2, <2>1 DEF Sufficient
<1>4. ASSUME Owner(n, k) # 0, \A v \in ValuesOf(n, k) : Fit(Clear[n], v)
      PROVE  k \in Clear[n]
  <2> DEFINE T == {k} \cup Clear[n]
  <2>1. T \in SUBSET Key
      BY DEF Clear
  <2>2. ASSUME NEW j \in Clear[n]
        PROVE  Owner(n, j) # 0 /\ \A v \in ValuesOf(n, j) : Fit(T, v)
    <3>1. PICK S \in SUBSET Key : j \in S /\ Sufficient(n, S)
        BY <2>2 DEF Clear
    <3>2. S \subseteq T
        BY <1>2, <3>1
    <3>3. QED  BY <1>1, <3>1, <3>2 DEF Sufficient
  <2>3. \A v \in ValuesOf(n, k) : Fit(T, v)
      BY <1>1, <1>4
  <2>4. Sufficient(n, T)
      BY <1>4, <2>2, <2>3 DEF Sufficient
  <2>5. QED  BY <2>1, <2>4 DEF Clear
<1>5. QED  BY <1>3, <1>4

LEMMA OwnValues ==
    ASSUME forest \in Forests, NEW n \in Node, NEW k \in DOMAIN given[n]
    PROVE  /\ Owner(n, k) = n /\ k \in Key /\ given[n][k] \in Seq(Value)
           /\ ValuesOf(n, k) = Range(given[n][k])
<1>1. n # 0 /\ k \in Key /\ given[n][k] \in Seq(Value)
    BY Forest
<1>2. Owner(n, k) = n
    BY OwnerUnfolds
<1>3. QED  BY <1>1, <1>2 DEF ValuesOf, given

LEMMA ResolvableIfClear ==
    ASSUME forest \in Forests, NEW n \in Node
    PROVE  Resolvable(n) <=> DOMAIN given[n] \subseteq Clear[n]
<1> DEFINE keys == DOMAIN given[n]
           U == Uses(n, keys)
<1>1. keys \subseteq U /\ U \subseteq Key /\ Closed(n, U)
    BY Forest, UsesClosed
<1>2. Resolvable(n) <=> \A k \in U : /\ Owner(n, k) # 0
                                     /\ \A v \in ValuesOf(n, k) : \A i \in DOMAIN v : v[i].op # "malformed"
    BY DEF Resolvable, given
<1> HIDE DEF U
<1>3. ASSUME Resolvable(n) PROVE keys \subseteq Clear[n]
  <2>1. ASSUME NEW k \in U, NEW v \in ValuesOf(n, k) PROVE Fit(U, v)
    <3>1. \A p \in Range(v) : p.op # "malformed"
        BY <1>2, <1>3 DEF Range
    <3>2. \A p \in Range(v) : p.op = "ref" => p.arg \in UsedBy(ValuesOf(n, k))
        BY DEF UsedBy
    <3>3. QED  BY <1>1, <3>1, <3>2 DEF Fit, Closed
  <2>2. Sufficient(n, U)
      BY <1>2, <1>3, <2>1 DEF Sufficient
  <2>3. QED  BY <1>1, <2>2 DEF Clear
<1>4. ASSUME keys \subseteq Clear[n] PROVE Resolvable(n)
  <2>1. Clear[n] \subseteq Key
      BY DEF Clear
  <2>2. Closed(n, Clear[n])
    <3>1. ASSUME NEW k \in Clear[n], NEW a \in UsedBy(ValuesOf(n, k)) PROVE a \in Clear[n]
      <4>1. PICK v \in ValuesOf(n, k) : \E p \in Range(v) : p.op = "ref" /\ p.arg = a
          BY <3>1 DEF UsedBy
      <4>2. Fit(Clear[n], v)
          BY <2>1, ClearUnfolds
      <4>3. QED  BY <4>1, <4>2 DEF Fit
    <3>2. QED  BY <3>1 DEF Closed
  <2>3. U \subseteq Clear[n]
      BY <1>4, <2>2, UsesLeast DEF U
  <2>4. ASSUME NEW k \in U, NEW v \in ValuesOf(n, k), NEW i \in DOMAIN v PROVE v[i].op # "malformed"
    <3>1. Fit(Clear[n], v) /\ v[i] \in Range(v)
        BY <2>1, <2>3, ClearUnfolds DEF Range
    <3>2. QED  BY <3>1 DEF Fit
  <2>5. \A k \in U : Owner(n, k) # 0
      BY <2>1, <2>3, ClearUnfolds
  <2>6. QED  BY <1>2, <2>4, <2>5
<1>5. QED  BY <1>3, <1>4
-----------------------------------------------------------------------------
LEMMA ClearSteady == ASSUME forest \in Forests, NEW n \in Node PROVE Clear[n] \in Steady[n]
<1>1. Clear[n] \in SUBSET Key
    BY DEF Clear
<1>2. Inductive(n, Clear[n]) /\ Sufficient(n, Clear[n])
    BY <1>1, ClearUnfolds DEF Inductive, Sufficient
<1>3. QED  BY <1>1, <1>2 DEF Steady

LEMMA GroundedSteady == ASSUME forest \in Forests, NEW n \in Node PROVE Grounded[n] \in Steady[n]
<1> DEFINE G == Grounded[n]
<1>1. G \in SUBSET Key /\ \A S \in SUBSET Key : Inductive(n, S) => G \subseteq S
    BY DEF Grounded
<1>2. \A S, T, v : S \subseteq T /\ Fit(S, v) => Fit(T, v)
    BY DEF Fit
<1>3. Inductive(n, G)
  <2> SUFFICES ASSUME NEW k \in Key, Owner(n, k) # 0, \A v \in ValuesOf(n, k) : Fit(G, v) PROVE k \in G
      BY DEF Inductive
  <2>1. ASSUME NEW S \in SUBSET Key, Inductive(n, S) PROVE k \in S
    <3>1. \A v \in ValuesOf(n, k) : Fit(S, v)
        BY <1>1, <1>2, <2>1
    <3>2. QED  BY <2>1, <3>1 DEF Inductive
  <2>2. QED  BY <2>1 DEF Grounded
<1> DEFINE T == {k \in G : Owner(n, k) # 0 /\ \A v \in ValuesOf(n, k) : Fit(G, v)}
<1>4. T \in SUBSET Key /\ T \subseteq G
    BY <1>1
<1>5. Inductive(n, T)
  <2> SUFFICES ASSUME NEW k \in Key, Owner(n, k) # 0, \A v \in ValuesOf(n, k) : Fit(T, v) PROVE k \in T
      BY DEF Inductive
  <2>1. \A v \in ValuesOf(n, k) : Fit(G, v)
      BY <1>2, <1>4
  <2>2. k \in G
      BY <1>3, <2>1 DEF Inductive
  <2>3. QED  BY <2>1, <2>2
<1>6. G \subseteq T
    BY <1>1, <1>4, <1>5
<1>7. Sufficient(n, G)
    BY <1>6 DEF Sufficient
<1>8. QED  BY <1>1, <1>3, <1>7 DEF Steady

(* What several variables lead to, one of them leads to.                      *)
LEMMA UsesOfOne ==
    ASSUME forest \in Forests, NEW n \in Node, NEW keys \in SUBSET Key, NEW k \in Uses(n, keys)
    PROVE  \E a \in keys : k \in Uses(n, {a})
<1> DEFINE S == UNION {Uses(n, {a}) : a \in keys}
<1>1. \A a \in keys : a \in Uses(n, {a}) /\ Closed(n, Uses(n, {a}))
  <2> SUFFICES ASSUME NEW a \in keys PROVE a \in Uses(n, {a}) /\ Closed(n, Uses(n, {a}))
      OBVIOUS
  <2>1. {a} \in SUBSET Key
      OBVIOUS
  <2>2. QED  BY <2>1, UsesClosed
<1>2. keys \subseteq S
    BY <1>1
<1>3. Closed(n, S)
    BY <1>1 DEF Closed
<1>4. Uses(n, keys) \subseteq S
    BY <1>2, <1>3, UsesLeast
<1>5. QED  BY <1>4

(* No variable leads back to itself if all of a node's go on to an end.        *)
LEMMA NotCircularIfGrounded ==
    ASSUME forest \in Forests, NEW n \in Node, DOMAIN given[n] \subseteq Grounded[n]
    PROVE  ~Circular(n)
<1> DEFINE G == Grounded[n]
           Beyond(k) == Uses(n, UsedBy(ValuesOf(n, k)))
           T == {k \in G : k \notin Beyond(k)}
<1>1. G \in SUBSET Key /\ Inductive(n, G) /\ Sufficient(n, G) /\ \A S \in SUBSET Key : Inductive(n, S) => G \subseteq S
    BY GroundedSteady DEF Steady, Grounded
<1>2. \A S, k : (\A v \in ValuesOf(n, k) : Fit(S, v)) => UsedBy(ValuesOf(n, k)) \subseteq S
    BY DEF Fit, UsedBy
<1>3. \A k \in Key : /\ UsedBy(ValuesOf(n, k)) \subseteq Beyond(k) /\ Beyond(k) \subseteq Key /\ Closed(n, Beyond(k))
                     /\ UsedBy(ValuesOf(n, k)) \in SUBSET Key
    BY ValuesType, UsesClosed
<1>4. \A k \in Key : Uses(n, {k}) \subseteq {k} \cup Beyond(k)
  <2> SUFFICES ASSUME NEW k \in Key PROVE Uses(n, {k}) \subseteq {k} \cup Beyond(k)
      OBVIOUS
  <2>1. Closed(n, {k} \cup Beyond(k))
      BY <1>3 DEF Closed
  <2> HIDE DEF Beyond
  <2>2. QED  BY <2>1, UsesLeast
<1>5. Inductive(n, T)
  <2> SUFFICES ASSUME NEW k \in Key, Owner(n, k) # 0, \A v \in ValuesOf(n, k) : Fit(T, v) PROVE k \in T
      BY DEF Inductive
  <2>1. UsedBy(ValuesOf(n, k)) \subseteq T
      BY <1>2
  <2>2. k \in G
    <3>1. \A v \in ValuesOf(n, k) : Fit(G, v)
        BY DEF Fit
    <3>2. QED  BY <1>1, <3>1 DEF Inductive
  <2>3. ASSUME k \in Beyond(k) PROVE FALSE
    <3>1. PICK a \in UsedBy(ValuesOf(n, k)) : k \in Uses(n, {a})
        BY <1>3, <2>3, UsesOfOne
    <3>2. a \in T /\ a \in Key /\ a \notin Beyond(a)
        BY <1>1, <2>1, <3>1
    <3>3. k \in {a} \cup Beyond(a)
        BY <1>4, <3>1, <3>2
    <3>4. k \in Beyond(a)
        BY <2>3, <3>2, <3>3
    <3>5. a \in Beyond(a)
        BY <1>3, <3>1, <3>2, <3>4 DEF Closed
    <3>6. QED  BY <3>2, <3>5
  <2>4. QED  BY <2>2, <2>3
<1>6. G \subseteq T
    BY <1>1, <1>5
<1>7. Uses(n, DOMAIN given[n]) \subseteq G
  <2>1. Closed(n, G)
      BY <1>1, <1>2 DEF Closed, Sufficient
  <2>2. QED  BY <2>1, UsesLeast
<1>8. \A k \in Uses(n, DOMAIN given[n]) : k \notin Uses(n, UsedBy(ValuesOf(n, k)))
    BY <1>6, <1>7
<1>9. QED  BY <1>8 DEF Circular, given
-----------------------------------------------------------------------------
(* Values are put together from others: what they refer to is what those do.   *)
LEMMA FitConcat ==
    ASSUME NEW v \in Value, NEW w \in Value, NEW S
    PROVE  v \o w \in Value /\ (Fit(S, v \o w) <=> Fit(S, v) /\ Fit(S, w))
<1>1. v \in Seq(Piece) /\ w \in Seq(Piece)
    BY DEF Value
<1>2. v \o w \in Seq(Piece)
    BY <1>1
<1>3. Range(v \o w) = Range(v) \cup Range(w)
    BY <1>1, ConcatRange
<1>4. QED  BY <1>2, <1>3 DEF Value, Fit

LEMMA FitText ==
    ASSUME NEW w \in Word, NEW S
    PROVE  <<Text(w)>> \in Value /\ Fit(S, <<Text(w)>>) /\ <<>> \in Value /\ Fit(S, <<>>)
<1>1. Text(w) \in Piece /\ Text(w).op = "text"
    BY Pieces
<1>2. Range(<<Text(w)>>) = {Text(w)} /\ Range(<<>>) = {}
    BY RangeOfShort
<1>3. QED  BY <1>1, <1>2 DEF Fit, Value

LEMMA FitFlat ==
    ASSUME NEW values \in Seq(Value), NEW S
    PROVE  /\ FlattenSeq(values) \in Value
           /\ Fit(S, FlattenSeq(values)) <=> \A i \in DOMAIN values : Fit(S, values[i])
<1>1. values \in Seq(Seq(Piece))
    BY DEF Value
<1>2. /\ FlattenSeq(values) \in Seq(Piece)
      /\ Range(FlattenSeq(values)) = UNION {Range(values[i]) : i \in DOMAIN values}
    BY <1>1, FlattenSeqRange
<1>3. Fit(S, FlattenSeq(values)) <=> \A i \in DOMAIN values : Fit(S, values[i])
    BY <1>2 DEF Fit
<1>4. QED  BY <1>2, <1>3 DEF Value

LEMMA Formatted ==
    ASSUME NEW values \in Seq(Value), NEW S
    PROVE  /\ Format(values) \in Value
           /\ Fit(S, Format(values)) <=> \A i \in DOMAIN values : Fit(S, values[i])
<1>1. \A w \in {"", "[", ",", "]"} : w \in Word
    BY EvalAssumption
<1>2. CASE values = <<>>
  <2>1. Format(values) = <<>> /\ DOMAIN values = {}
      BY <1>2 DEF Format
  <2>2. "" \in Word
      BY <1>1
  <2>3. <<>> \in Value /\ Fit(S, <<>>)
      BY <2>2, FitText
  <2>4. QED  BY <2>1, <2>3
<1>3. CASE Len(values) = 1
  <2>1. values # <<>> /\ DOMAIN values = {1} /\ values[1] \in Value
      BY <1>3
  <2>2. Format(values) = values[1]
      BY <1>3, <2>1 DEF Format
  <2>3. QED  BY <2>1, <2>2
<1>4. CASE values # <<>> /\ Len(values) # 1
  <2> DEFINE each == [i \in DOMAIN values |-> IF i = 1 THEN values[i] ELSE <<Text(",")>> \o values[i]]
  <2>1. Format(values) = <<Text("[")>> \o FlattenSeq(each) \o <<Text("]")>>
      BY <1>4 DEF Format
  <2>2. DOMAIN each = DOMAIN values /\ DOMAIN values = 1..Len(values) /\ Len(values) \in Nat
      OBVIOUS
  <2>3. \A i \in DOMAIN values : each[i] \in Value /\ (Fit(S, each[i]) <=> Fit(S, values[i]))
    <3>1. \A i \in DOMAIN values : values[i] \in Value
        OBVIOUS
    <3>2. <<Text(",")>> \in Value /\ Fit(S, <<Text(",")>>)
        BY <1>1, FitText
    <3>3. \A i \in DOMAIN values : /\ <<Text(",")>> \o values[i] \in Value
                                   /\ Fit(S, <<Text(",")>> \o values[i]) <=> Fit(S, values[i])
        BY <3>1, <3>2, FitConcat
    <3>4. \A i \in DOMAIN values : each[i] = IF i = 1 THEN values[i] ELSE <<Text(",")>> \o values[i]
        OBVIOUS
    <3> HIDE DEF each
    <3>5. QED  BY <3>1, <3>3, <3>4
  <2>4. each \in [1..Len(values) -> Value]
      BY <2>2, <2>3
  <2> HIDE DEF each
  <2>5. each \in Seq(Value)
      BY <2>2, <2>4
  <2>6. FlattenSeq(each) \in Value /\ (Fit(S, FlattenSeq(each)) <=> \A i \in DOMAIN each : Fit(S, each[i]))
      BY <2>5, FitFlat
  <2>7. <<Text("[")>> \in Value /\ Fit(S, <<Text("[")>>) /\ <<Text("]")>> \in Value /\ Fit(S, <<Text("]")>>)
      BY <1>1, FitText
  <2>8. /\ <<Text("[")>> \o FlattenSeq(each) \in Value
        /\ Fit(S, <<Text("[")>> \o FlattenSeq(each)) <=> Fit(S, FlattenSeq(each))
      BY <2>6, <2>7, FitConcat
  <2>9. /\ Format(values) \in Value
        /\ Fit(S, Format(values)) <=> Fit(S, FlattenSeq(each))
      BY <2>1, <2>7, <2>8, FitConcat
  <2>10. QED  BY <2>2, <2>3, <2>6, <2>9
<1>5. QED  BY <1>2, <1>3, <1>4

LEMMA NextPiece ==
    ASSUME NEW value \in Value, HasReference(value)
    PROVE  \E i \in DOMAIN value : /\ i = SelectInSeq(value, IsReference)
                                   /\ NextReference(value) = value[i] /\ IsReference(value[i]) /\ value[i] \in Piece
<1> DEFINE I == {i \in 1..Len(value) : IsReference(value[i])}
<1>1. DOMAIN value = 1..Len(value) /\ \A i \in DOMAIN value : value[i] \in Piece
    BY DEF Value
<1>2. I # {} /\ I \in SUBSET Nat
    BY <1>1 DEF HasReference
<1>3. PICK m \in I : \A j \in I : m <= j
    BY <1>2, LeastNumber
<1>4. SelectInSeq(value, IsReference) \in I
  <2>1. SelectInSeq(value, IsReference) = CHOOSE i \in I : \A j \in I : i <= j
      BY <1>2 DEF SelectInSeq, Min
  <2>2. QED  BY <1>3, <2>1
<1>5. QED  BY <1>1, <1>4 DEF NextReference

LEMMA NoReference == \A S : \A value \in Value : ~HasReference(value) => Fit(S, value)
BY DEF HasReference, IsReference, Fit, Range

(* The reference goes, or some places of it stay; what it stands for comes in. *)
LEMMA SubstitutedFit ==
    ASSUME NEW value \in Value, HasReference(value), NEW by \in Value, NEW S,
           NEW v \in Substituted(value, NextReference(value), by)
    PROVE  /\ v \in Value
           /\ Fit(S, value) /\ Fit(S, by) => Fit(S, v)
           /\ Fit(S, v) => Fit(S, by)
           /\ Fit(S, v) /\ Fit(S, <<NextReference(value)>>) => Fit(S, value)
<1> DEFINE piece == NextReference(value)
           put(places) == FlattenSeq([i \in DOMAIN value |-> IF i \in places THEN by ELSE <<value[i]>>])
<1>1. PICK first \in DOMAIN value : first = SelectInSeq(value, IsReference) /\ piece = value[first]
    BY NextPiece
<1>2. PICK places \in {{first}, {i \in DOMAIN value : value[i] = piece}} : v = put(places)
    BY <1>1 DEF Substituted
<1>3. places \subseteq DOMAIN value /\ first \in places /\ \A i \in places : value[i] = piece
    BY <1>1, <1>2
<1> DEFINE each == [i \in DOMAIN value |-> IF i \in places THEN by ELSE <<value[i]>>]
<1>4. DOMAIN value = 1..Len(value) /\ Len(value) \in Nat /\ \A i \in DOMAIN value : value[i] \in Piece
    BY DEF Value
<1>5. \A i \in DOMAIN value : <<value[i]>> \in Value /\ (Fit(S, <<value[i]>>) <=> Fit(S, <<value[i]>>))
    BY <1>4 DEF Value
<1>6. DOMAIN each = DOMAIN value /\ \A i \in DOMAIN value : each[i] = IF i \in places THEN by ELSE <<value[i]>>
    OBVIOUS
<1>7. v = FlattenSeq(each)
    BY <1>2
<1> HIDE DEF each, put
<1>8. \A i \in DOMAIN value : each[i] \in Value
    BY <1>5, <1>6
<1>9. each \in [1..Len(value) -> Value]
  <2>1. each = [i \in DOMAIN value |-> each[i]]
      BY DEF each
  <2>2. QED  BY <1>4, <1>8, <2>1
<1>10. each \in Seq(Value)
    BY <1>4, <1>9
<1>11. v \in Value /\ (Fit(S, v) <=> \A i \in DOMAIN value : Fit(S, each[i]))
    BY <1>6, <1>7, <1>10, FitFlat
<1>12. Fit(S, value) <=> \A i \in DOMAIN value : Fit(S, <<value[i]>>)
  <2> DEFINE Fits(p) == p.op # "malformed" /\ (p.op = "ref" => p.arg \in S)
  <2>1. \A x : Fit(S, <<x>>) <=> Fits(x)
    <3>1. \A x : Range(<<x>>) = {x}
        BY RangeOfShort
    <3>2. QED  BY <3>1 DEF Fit
  <2>2. Fit(S, value) <=> \A i \in DOMAIN value : Fits(value[i])
      BY DEF Fit, Range
  <2> HIDE DEF Fits
  <2>3. QED  BY <2>1, <2>2
<1>13. QED  BY <1>1, <1>3, <1>6, <1>11, <1>12
-----------------------------------------------------------------------------
Here == Top.node
Kids(n) == forest.children[stack[n].node]
Untouched == {n \in Node : symtab[n] = given[n]}

(* Each call was made by the one below it, for the child that one has come to;  *)
(* no variable is looked at before all children are done.                     *)
FramesOK ==
    \A p \in DOMAIN stack :
         /\ stack[p].child \in 1..(Len(Kids(p)) + 1)
         /\ stack[p].left \subseteq DOMAIN given[stack[p].node]
         /\ p < Len(stack) \/ stack[p].child <= Len(Kids(p)) => stack[p].left = DOMAIN given[stack[p].node]
Linked == \A p \in 1..(Len(stack) - 1) : stack[p].child > 1 /\ stack[p + 1].node = Kids(p)[stack[p].child - 1]
Rooted == stack # <<>> => started > 0 /\ stack[1].node = forest.roots[started]
Worked == current # NoValue => Top.child > Len(forest.children[Here]) /\ current.key \notin Top.left
Calls == FramesOK /\ Linked /\ Rooted /\ Worked

(* What is not evaluated yet is as it was read: callers, and trees to come.     *)
FreshCallers ==
    \A p \in DOMAIN stack : p < Len(stack) \/ stack[p].child <= Len(Kids(p)) => stack[p].node \in Untouched
FreshBelow ==
    \A p \in DOMAIN stack : \A j \in DOMAIN Kids(p) : j >= stack[p].child => Under[Kids(p)[j]] \subseteq Untouched
FreshTrees == \A j \in DOMAIN forest.roots : j > started => Under[forest.roots[j]] \subseteq Untouched
Fresh == FreshCallers /\ FreshBelow /\ FreshTrees

(* A value of the node being evaluated resolves if and only if it did as read,  *)
(* and leads on for ever if and only if it did.                              *)
SameValues ==
    stack # <<>> =>
        \A S \in Steady[Here] : \A k \in DOMAIN given[Here] : \A i \in DOMAIN given[Here][k] :
            Fit(S, symtab[Here][k][i]) <=> Fit(S, given[Here][k][i])
SameCurrent ==
    current # NoValue =>
        \A S \in Steady[Here] : Fit(S, current.value) <=> Fit(S, given[Here][current.key][current.index])

(* What evaluation should have made of a node.                               *)
Finished ==
    {n \in Passing : /\ n \in Sound
                     /\ \A k \in DOMAIN given[n] : \A i \in DOMAIN given[n][k] : ~HasReference(symtab[n][k][i])}

(* Without an error all that is done is as it should be ...                    *)
GoodTrees ==
    nerrors = 0 => \A j \in 1..started : stack = <<>> \/ j < started => Under[forest.roots[j]] \subseteq Finished
GoodBelow ==
    nerrors = 0 =>
        \A p \in DOMAIN stack :
            /\ stack[p].node \in forest.named
            /\ \A j \in 1..(stack[p].child - 1) :
                 p = Len(stack) \/ j < stack[p].child - 1 => Under[Kids(p)[j]] \subseteq Finished
GoodValues ==
    nerrors = 0 /\ stack # <<>> =>
        \A k \in DOMAIN given[Here] \ Top.left : \A i \in DOMAIN given[Here][k] :
            current = NoValue \/ current.key # k \/ i < current.index => ~HasReference(symtab[Here][k][i])
GoodSoFar == GoodTrees /\ GoodBelow /\ GoodValues

(* ... and an error is some node's.                                          *)
BadFound == nerrors > 0 => \E n \in InForest : n \notin Passing

Inv == TypeOK /\ Calls /\ Fresh /\ SameValues /\ SameCurrent /\ GoodSoFar /\ BadFound

LEMMA TopFacts ==
    ASSUME stack \in Seq(Frame), stack # <<>>
    PROVE  /\ Len(stack) \in Nat \ {0} /\ DOMAIN stack = 1..Len(stack) /\ Len(stack) \in DOMAIN stack
           /\ Top = stack[Len(stack)] /\ Top \in Frame
           /\ Top.node \in Node /\ Top.child \in Nat /\ Top.left \in SUBSET Key
           /\ Front(stack) \in Seq(Frame) /\ Len(Front(stack)) = Len(stack) - 1
           /\ \A p \in 1..(Len(stack) - 1) : Front(stack)[p] = stack[p]
<1>1. /\ Len(stack) \in Nat \ {0} /\ DOMAIN stack = 1..Len(stack) /\ Len(stack) \in DOMAIN stack
      /\ Top = stack[Len(stack)] /\ Top \in Frame
    BY DEF Top, Last
<1>2. /\ Front(stack) \in Seq(Frame) /\ Len(Front(stack)) = Len(stack) - 1
      /\ \A p \in 1..(Len(stack) - 1) : Front(stack)[p] = stack[p]
    BY DEF Front
<1>3. QED  BY <1>1, <1>2 DEF Frame

(* The frame on top is replaced.                                             *)
LEMMA Replaced ==
    ASSUME stack \in Seq(Frame), stack # <<>>, NEW frame \in Frame
    PROVE  LET s == Append(Front(stack), frame)
           IN  /\ s \in Seq(Frame) /\ Len(s) = Len(stack) /\ DOMAIN s = DOMAIN stack
               /\ s[Len(stack)] = frame
               /\ \A p \in 1..(Len(stack) - 1) : s[p] = stack[p]
<1> DEFINE f == Front(stack)
<1>1. f \in Seq(Frame) /\ Len(f) = Len(stack) - 1 /\ Len(stack) \in Nat \ {0}
      /\ \A p \in 1..(Len(stack) - 1) : f[p] = stack[p]
    BY TopFacts
<1> HIDE DEF f
<1>2. /\ Append(f, frame) \in Seq(Frame) /\ Len(Append(f, frame)) = Len(stack)
      /\ Append(f, frame)[Len(stack)] = frame
      /\ \A p \in 1..(Len(stack) - 1) : Append(f, frame)[p] = stack[p]
    BY <1>1
<1>3. DOMAIN Append(f, frame) = DOMAIN stack
    BY <1>2
<1>4. QED  BY <1>2, <1>3 DEF f

LEMMA Records ==
    /\ \A n \in Node, c \in Nat, l \in SUBSET Key :
         /\ [node |-> n, child |-> c, left |-> l] \in Frame
         /\ [node |-> n, child |-> c, left |-> l].node = n
         /\ [node |-> n, child |-> c, left |-> l].child = c
         /\ [node |-> n, child |-> c, left |-> l].left = l
    /\ \A f \in Frame : /\ [f EXCEPT !.child = @ + 1] = [node |-> f.node, child |-> f.child + 1, left |-> f.left]
                        /\ f.node \in Node /\ f.child \in Nat /\ f.left \in SUBSET Key
    /\ \A k : \A f \in Frame : [f EXCEPT !.left = @ \ {k}] = [node |-> f.node, child |-> f.child, left |-> f.left \ {k}]
<1>1. ASSUME NEW n \in Node, NEW c \in Nat, NEW l \in SUBSET Key
      PROVE  [node |-> n, child |-> c, left |-> l] \in Frame
    BY DEF Frame
<1>2. \A n, c, l : /\ [node |-> n, child |-> c, left |-> l].node = n
                   /\ [node |-> n, child |-> c, left |-> l].child = c
                   /\ [node |-> n, child |-> c, left |-> l].left = l
    OBVIOUS
<1>3. ASSUME NEW f \in Frame
      PROVE  /\ [f EXCEPT !.child = @ + 1] = [node |-> f.node, child |-> f.child + 1, left |-> f.left]
             /\ f.node \in Node /\ f.child \in Nat /\ f.left \in SUBSET Key
    BY DEF Frame
<1>4. ASSUME NEW f \in Frame, NEW k
      PROVE  [f EXCEPT !.left = @ \ {k}] = [node |-> f.node, child |-> f.child, left |-> f.left \ {k}]
    BY DEF Frame
<1>5. QED  BY <1>1, <1>2, <1>3, <1>4

LEMMA AdvancedFacts ==
    ASSUME stack \in Seq(Frame), stack # <<>>
    PROVE  /\ Advanced \in Seq(Frame) /\ Len(Advanced) = Len(stack) /\ DOMAIN Advanced = DOMAIN stack
           /\ Advanced[Len(stack)] = [node |-> Top.node, child |-> Top.child + 1, left |-> Top.left]
           /\ \A p \in 1..(Len(stack) - 1) : Advanced[p] = stack[p]
<1>1. Top \in Frame /\ Top.node \in Node /\ Top.child + 1 \in Nat /\ Top.left \in SUBSET Key
    BY TopFacts
<1>2. [Top EXCEPT !.child = @ + 1] = [node |-> Top.node, child |-> Top.child + 1, left |-> Top.left]
    BY <1>1, Records
<1>3. [Top EXCEPT !.child = @ + 1] \in Frame
    BY <1>1, <1>2, Records
<1>4. QED  BY <1>2, <1>3, Replaced DEF Advanced
-----------------------------------------------------------------------------
LEMMA SameForest ==
    ASSUME UNCHANGED forest
    PROVE  UNCHANGED <<parent, children, given, Callers, Under, Clear, Steady, Sound, Passing, InForest>>
<1>1. UNCHANGED <<parent, children, given>>
    BY DEF parent, children, given
<1>2. UNCHANGED <<Callers, Under, InForest>>
    BY DEF Callers, Under, InForest, CallersOf
<1>3. UNCHANGED Clear
    BY DEF Clear, Sufficient, Owner, ValuesOf, CallersOf
<1>4. UNCHANGED Steady
    BY DEF Steady, Inductive, Sufficient, Owner, ValuesOf, CallersOf
<1>5. UNCHANGED Passing
    BY DEF Passing, Resolvable, Uses, Owner, ValuesOf, CallersOf
<1>6. UNCHANGED Sound
  <2>1. UNCHANGED Grounded
      BY DEF Grounded, Inductive, Owner, ValuesOf, CallersOf
  <2>2. QED  BY <1>1, <2>1 DEF Sound
<1>7. QED  BY <1>1, <1>2, <1>3, <1>4, <1>5, <1>6

LEMMA Facts ==
    ASSUME Inv, stack # <<>>
    PROVE  /\ forest \in Forests /\ stack \in Seq(Frame) /\ Top \in Frame /\ Here \in Node
           /\ symtab[Here] \in [DOMAIN given[Here] -> Seq(Value)]
           /\ \A k \in DOMAIN given[Here] :
                symtab[Here][k] \in Seq(Value) /\ Len(symtab[Here][k]) = Len(given[Here][k])
           /\ DOMAIN symtab = Node
           /\ current # NoValue => current.key \in DOMAIN given[Here] /\ current.index \in DOMAIN symtab[Here][current.key]
<1>1. TypeOK
    BY DEF Inv
<1>2. forest \in Forests /\ stack \in Seq(Frame) /\ DOMAIN symtab = Node
    BY <1>1 DEF TypeOK
<1>3. Top \in Frame /\ Here \in Node
    BY <1>2, TopFacts DEF Here
<1>4. \A n \in Node : /\ symtab[n] \in [DOMAIN given[n] -> Seq(Value)]
                      /\ \A k \in DOMAIN symtab[n] : Len(symtab[n][k]) = Len(given[n][k])
    BY <1>1 DEF TypeOK, given
<1>5. current # NoValue => current.key \in DOMAIN symtab[Here] /\ current.index \in DOMAIN symtab[Here][current.key]
    BY <1>1 DEF TypeOK, Here, Top
<1>6. DOMAIN symtab[Here] = DOMAIN given[Here]
    BY <1>3, <1>4
<1>7. \A k \in DOMAIN given[Here] : symtab[Here][k] \in Seq(Value) /\ Len(symtab[Here][k]) = Len(given[Here][k])
    BY <1>3, <1>4, <1>6
<1>8. QED  BY <1>2, <1>3, <1>4, <1>5, <1>6, <1>7

(* What a reference is replaced by: nothing that refers to anything, or the    *)
(* values of the variable where it is found.                                *)
LEMMA ResolvedFit ==
    ASSUME TypeOK, NEW n \in Node, NEW piece \in Piece, IsReference(piece), Resolves(n, piece), NEW S
    PROVE  /\ Resolved(n, piece) \in Value
           /\ \/ piece.op # "ref" /\ piece.op # "malformed" /\ Fit(S, Resolved(n, piece))
              \/ /\ piece.op = "ref" /\ piece.arg \in Key
                 /\ Owner(n, piece.arg) # 0
                 /\ Owner(n, piece.arg) \in Node /\ piece.arg \in DOMAIN given[Owner(n, piece.arg)]
                 /\ Resolved(n, piece) = Format(symtab[Owner(n, piece.arg)][piece.arg])
<1>1. forest \in Forests
    BY DEF TypeOK
<1>2. \A w \in EnvVar \cup {""} : w \in Word
    BY EvalAssumption
<1>3. CASE piece.op = "setenv"
  <2>1. Resolved(n, piece) = <<Text("")>>
      BY <1>3 DEF Resolved
  <2>2. QED  BY <1>2, <1>3, <2>1, FitText
<1>4. CASE piece.op = "getenv"
  <2> DEFINE w == IF piece.arg \in env THEN piece.arg ELSE ""
  <2>1. Resolved(n, piece) = <<Text(w)>>
      BY <1>4 DEF Resolved
  <2>2. w \in Word
      BY <1>2, <1>4, Pieces
  <2> HIDE DEF w
  <2>3. QED  BY <1>4, <2>1, <2>2, FitText
<1>5. CASE piece.op = "ref"
  <2> DEFINE m == Owner(n, piece.arg)
  <2>1. kbnode_resolve(n, piece.arg) = m
      BY <1>1, ResolveFindsOwner
  <2>2. m # 0 /\ Resolved(n, piece) = Format(symtab[m][piece.arg])
      BY <1>5, <2>1 DEF Resolves, Resolved
  <2>3. m \in Node /\ piece.arg \in DOMAIN given[m]
      BY <1>1, <2>2, OwnerFacts
  <2>4. symtab[m][piece.arg] \in Seq(Value)
      BY <2>3 DEF TypeOK, given
  <2>5. Resolved(n, piece) \in Value
      BY <2>2, <2>4, Formatted
  <2>6. QED  BY <1>5, <2>2, <2>3, <2>5, Pieces
<1>6. QED  BY <1>3, <1>4, <1>5 DEF Resolves

(* A reference that cannot be resolved is one that does not fit.              *)
LEMMA Unresolved ==
    ASSUME forest \in Forests, NEW n \in Node, NEW piece \in Piece, IsReference(piece), ~Resolves(n, piece)
    PROVE  piece.op = "malformed" \/ (piece.op = "ref" /\ piece.arg \notin Clear[n])
<1>1. piece.op \in {"ref", "malformed"} /\ (piece.op = "ref" => piece.arg \in Key)
    BY Pieces DEF Resolves, IsReference
<1>2. piece.op = "ref" => Owner(n, piece.arg) = 0
    BY ResolveFindsOwner DEF Resolves
<1>3. QED  BY <1>1, <1>2, ClearUnfolds

LEMMA StoreShape ==
    ASSUME Inv, Store
    PROVE  LET k == current.key  i == current.index
           IN  /\ k \in DOMAIN given[Here] /\ i \in DOMAIN symtab[Here][k] /\ current.value \in Value
               /\ DOMAIN symtab' = Node /\ \A n \in Node : n # Here => symtab'[n] = symtab[n]
               /\ symtab'[Here] \in [DOMAIN given[Here] -> Seq(Value)]
               /\ \A j \in DOMAIN given[Here] : j # k => symtab'[Here][j] = symtab[Here][j]
               /\ Len(symtab'[Here][k]) = Len(symtab[Here][k])
               /\ symtab'[Here][k][i] = current.value
               /\ \A j \in DOMAIN symtab[Here][k] : j # i => symtab'[Here][k][j] = symtab[Here][k][j]
<1> DEFINE k == current.key
           i == current.index
           v == current.value
           table == symtab[Here]
           list == [table[k] EXCEPT ![i] = v]
<1>1. stack # <<>> /\ current # NoValue /\ symtab' = [symtab EXCEPT ![Here][k][i] = v]
    BY DEF Store, Working, Here
<1>2. /\ table \in [DOMAIN given[Here] -> Seq(Value)] /\ Here \in Node /\ DOMAIN symtab = Node
      /\ k \in DOMAIN given[Here] /\ i \in DOMAIN table[k] /\ table[k] \in Seq(Value)
    BY <1>1, Facts
<1>3. v \in Value
    BY DEF Inv, TypeOK
<1>4. symtab' = [symtab EXCEPT ![Here] = [table EXCEPT ![k] = list]]
    BY <1>1
<1> HIDE DEF k, i, v, table
<1>5. /\ list \in Seq(Value) /\ Len(list) = Len(table[k]) /\ list[i] = v
      /\ \A j \in DOMAIN table[k] : j # i => list[j] = table[k][j]
    BY <1>2, <1>3
<1> HIDE DEF list
<1>6. /\ DOMAIN symtab' = Node /\ \A n \in Node : n # Here => symtab'[n] = symtab[n]
      /\ symtab'[Here] = [table EXCEPT ![k] = list]
    BY <1>2, <1>4 DEF table
<1>7. /\ [table EXCEPT ![k] = list] \in [DOMAIN given[Here] -> Seq(Value)]
      /\ [table EXCEPT ![k] = list][k] = list
      /\ \A j \in DOMAIN given[Here] : j # k => [table EXCEPT ![k] = list][j] = table[j]
    BY <1>2, <1>5
<1>8. QED  BY <1>2, <1>3, <1>5, <1>6, <1>7 DEF k, i, v, table
-----------------------------------------------------------------------------
(* A call begins with all variables of its node before it.                   *)
NewFrame(n) == [node |-> n, child |-> 1, left |-> DOMAIN given[n]]

LEMMA EnterShape ==
    ASSUME Inv, NEW n \in Node, NEW callers \in Seq(Frame), Enter(n, callers)
    PROVE  /\ UNCHANGED <<forest, symtab, current, env>>
           /\ NewFrame(n) \in Frame /\ NewFrame(n).node = n /\ NewFrame(n).child = 1 /\ NewFrame(n).left = DOMAIN given[n]
           /\ \/ n \in forest.named /\ nerrors' = nerrors /\ stack' = Append(callers, NewFrame(n))
              \/ n \notin forest.named /\ nerrors' = nerrors + 1 /\ stack' = callers
           /\ stack' \in Seq(Frame) /\ nerrors' \in Nat
<1>1. DOMAIN symtab[n] = DOMAIN given[n] /\ nerrors \in Nat /\ forest \in Forests
    BY DEF Inv, TypeOK, given
<1>2. DOMAIN given[n] \in SUBSET Key
    BY <1>1, Forest
<1>3. NewFrame(n) \in Frame /\ NewFrame(n).node = n /\ NewFrame(n).child = 1 /\ NewFrame(n).left = DOMAIN given[n]
    BY <1>2, Records DEF NewFrame
<1>4. \/ n \in forest.named /\ nerrors' = nerrors /\ stack' = Append(callers, NewFrame(n))
      \/ n \notin forest.named /\ nerrors' = nerrors + 1 /\ stack' = callers
    BY <1>1 DEF Enter, NewFrame
<1>5. UNCHANGED <<forest, symtab, current, env>>
    BY DEF Enter
<1>6. stack' \in Seq(Frame)
    BY ONLY <1>3, <1>4, callers \in Seq(Frame)
<1>7. nerrors' \in Nat
    BY ONLY <1>1, <1>4
<1>8. QED  BY <1>3, <1>4, <1>5, <1>6, <1>7

(* The next child is called by a node none of whose variables is being worked on. *)
LEMMA CallFacts ==
    ASSUME Inv, CallChild
    PROVE  /\ stack # <<>> /\ current = NoValue /\ UNCHANGED started
           /\ Top.child \in DOMAIN children[Here] /\ children[Here][Top.child] \in Node
           /\ Enter(children[Here][Top.child], Advanced)
<1>1. stack # <<>> /\ Top.child <= Len(children[Here]) /\ UNCHANGED started
      /\ Enter(children[Here][Top.child], Advanced)
    BY DEF CallChild, Here, children
<1>2. forest \in Forests /\ Here \in Node /\ children[Here] \in Seq(Node) /\ stack \in Seq(Frame)
    BY <1>1, Facts, Forest
<1>3. Len(stack) \in DOMAIN stack /\ Top = stack[Len(stack)] /\ Top.child \in Nat
    BY <1>1, <1>2, TopFacts
<1>4. Top.child \in 1..(Len(children[Here]) + 1)
    BY <1>3 DEF Inv, Calls, FramesOK, Kids, Here, children
<1>5. Top.child \in DOMAIN children[Here] /\ children[Here][Top.child] \in Node
    BY <1>1, <1>2, <1>4
<1>6. current = NoValue
    BY <1>1, <1>2, <1>3 DEF Inv, Calls, Worked, children
<1>7. QED  BY <1>1, <1>5, <1>6

LEMMA PickFacts ==
    ASSUME Inv, NEW key \in Key, PickKey(key)
    PROVE  /\ stack # <<>> /\ current = NoValue /\ Top.child > Len(children[Here])
           /\ key \in DOMAIN given[Here] /\ key \in Top.left
           /\ UNCHANGED <<forest, symtab, started, env, nerrors>>
           /\ stack' \in Seq(Frame) /\ Len(stack') = Len(stack) /\ DOMAIN stack' = DOMAIN stack
           /\ stack'[Len(stack)] = [node |-> Here, child |-> Top.child, left |-> Top.left \ {key}]
           /\ \A p \in 1..(Len(stack) - 1) : stack'[p] = stack[p]
           /\ \/ symtab[Here][key] = <<>> /\ current' = NoValue
              \/ /\ symtab[Here][key] # <<>>
                 /\ current' = [key |-> key, index |-> 1, value |-> symtab[Here][key][1]]
<1>1. /\ stack # <<>> /\ current = NoValue /\ Top.child > Len(children[Here]) /\ key \in Top.left
      /\ UNCHANGED <<forest, symtab, started, env, nerrors>>
      /\ stack' = Append(Front(stack), [Top EXCEPT !.left = @ \ {key}])
      /\ \/ symtab[Here][key] = <<>> /\ current' = NoValue
         \/ /\ symtab[Here][key] # <<>>
            /\ current' = [key |-> key, index |-> 1, value |-> symtab[Here][key][1]]
    BY DEF PickKey, ChildrenDone, Here, children
<1>2. stack \in Seq(Frame)
    BY <1>1, Facts
<1>3. Len(stack) \in DOMAIN stack /\ Top = stack[Len(stack)] /\ Top \in Frame
    BY <1>1, <1>2, TopFacts
<1>4. key \in DOMAIN given[Here]
    BY <1>1, <1>3 DEF Inv, Calls, FramesOK, Here
<1>5. [Top EXCEPT !.left = @ \ {key}] = [node |-> Here, child |-> Top.child, left |-> Top.left \ {key}]
    BY <1>3, Records DEF Here
<1>6. Here \in Node /\ Top.child \in Nat /\ Top.left \ {key} \in SUBSET Key
    BY <1>3, Records DEF Here
<1>7. [Top EXCEPT !.left = @ \ {key}] \in Frame
    BY <1>5, <1>6, Records
<1>8. QED  BY <1>1, <1>2, <1>4, <1>5, <1>7, Replaced

LEMMA SubstituteFacts ==
    ASSUME Inv, Substitute
    PROVE  LET piece == NextReference(current.value)  by == Resolved(Here, piece)
           IN  /\ stack # <<>> /\ current # NoValue
               /\ UNCHANGED <<forest, symtab, started, stack, nerrors>>
               /\ env' \subseteq EnvVar
               /\ current.value \in Value /\ HasReference(current.value)
               /\ piece \in Piece /\ IsReference(piece) /\ Resolves(Here, piece) /\ by \in Value
               /\ current'.value \in Substituted(current.value, piece, by) /\ current'.value \in Value
               /\ current' = [key |-> current.key, index |-> current.index, value |-> current'.value]
<1> DEFINE piece == NextReference(current.value)
           by == Resolved(Here, piece)
<1>1. /\ stack # <<>> /\ current # NoValue /\ HasReference(current.value) /\ Resolves(Here, piece)
      /\ UNCHANGED <<forest, symtab, started, stack, nerrors>>
      /\ env' = IF piece.op = "setenv" THEN env \cup {piece.arg} ELSE env
    BY DEF Substitute, Working, Here
<1>2. PICK v \in Substituted(current.value, piece, by) : current' = [current EXCEPT !.value = v]
    BY DEF Substitute, Here
<1>3. TypeOK /\ current \in [key : Key \cup {""}, index : Nat, value : Value] /\ env \subseteq EnvVar
    BY DEF Inv, TypeOK
<1>4. current.value \in Value /\ Here \in Node
    BY <1>1, <1>3, Facts
<1>5. piece \in Piece /\ IsReference(piece)
    BY <1>1, <1>4, NextPiece
<1> HIDE DEF piece
<1>6. by \in Value
    BY <1>1, <1>3, <1>4, <1>5, ResolvedFit
<1>7. v \in Value
    BY <1>1, <1>4, <1>6, SubstitutedFit, ZenonT(40) DEF piece
<1>8. current'.value = v /\ current' = [key |-> current.key, index |-> current.index, value |-> v]
    BY <1>2, <1>3
<1>9. env' \subseteq EnvVar
    BY <1>1, <1>3, <1>5, Pieces
<1>10. QED  BY <1>1, <1>2, <1>4, <1>5, <1>6, <1>7, <1>8, <1>9 DEF piece
-----------------------------------------------------------------------------
Current == [key : Key \cup {""}, index : Nat, value : Value]

LEMMA ValueRecords ==
    /\ NoValue \in Current /\ NoValue.index = 0
    /\ \A k \in Key \cup {""}, i \in Nat, v \in Value :
         /\ [key |-> k, index |-> i, value |-> v] \in Current
         /\ [key |-> k, index |-> i, value |-> v].key = k
         /\ [key |-> k, index |-> i, value |-> v].index = i
         /\ [key |-> k, index |-> i, value |-> v].value = v
<1>1. <<>> \in Value
    BY DEF Value
<1>2. NoValue \in Current /\ NoValue.index = 0
    BY <1>1 DEF NoValue, Current
<1>3. ASSUME NEW k \in Key \cup {""}, NEW i \in Nat, NEW v \in Value
      PROVE  [key |-> k, index |-> i, value |-> v] \in Current
    BY DEF Current
<1>4. \A k, i, v : /\ [key |-> k, index |-> i, value |-> v].key = k
                   /\ [key |-> k, index |-> i, value |-> v].index = i
                   /\ [key |-> k, index |-> i, value |-> v].value = v
    OBVIOUS
<1>5. QED  BY <1>2, <1>3, <1>4

(* A stored value is followed by the next one of its variable, if there is one. *)
LEMMA StoreFacts ==
    ASSUME Inv, Store
    PROVE  LET k == current.key  i == current.index
           IN  /\ stack # <<>> /\ current # NoValue /\ ~HasReference(current.value)
               /\ UNCHANGED <<forest, started, stack, env, nerrors>>
               /\ k \in Key /\ i \in 1..Len(symtab[Here][k]) /\ symtab[Here][k] \in Seq(Value)
               /\ \/ i = Len(symtab[Here][k]) /\ current' = NoValue
                  \/ /\ i < Len(symtab[Here][k]) /\ symtab[Here][k][i + 1] \in Value
                     /\ current' = [key |-> k, index |-> i + 1, value |-> symtab[Here][k][i + 1]]
                     /\ current' \in Current
<1> DEFINE k == current.key
           i == current.index
           list == symtab[Here][k]
<1>1. /\ stack # <<>> /\ current # NoValue /\ ~HasReference(current.value)
      /\ UNCHANGED <<forest, started, stack, env, nerrors>>
      /\ current' = NextValue(list, i)
    BY DEF Store, Working, Here
<1>2. k \in DOMAIN given[Here] /\ i \in DOMAIN list /\ list \in Seq(Value) /\ Here \in Node /\ forest \in Forests
    BY <1>1, Facts
<1>3. k \in Key
    BY <1>2, OwnValues
<1>4. current' = IF i = Len(list) THEN NoValue ELSE [key |-> k, index |-> i + 1, value |-> list[i + 1]]
    BY <1>1 DEF NextValue
<1> HIDE DEF k, i, list
<1>5. i \in 1..Len(list) /\ Len(list) \in Nat
    BY <1>2
<1>6. CASE i = Len(list)
    BY <1>1, <1>2, <1>3, <1>4, <1>5, <1>6 DEF k, i, list
<1>7. CASE i # Len(list)
  <2>1. i < Len(list) /\ i + 1 \in Nat /\ list[i + 1] \in Value
      BY <1>2, <1>5, <1>7
  <2>2. current' = [key |-> k, index |-> i + 1, value |-> list[i + 1]]
      BY <1>4, <1>7
  <2>3. current' \in Current
      BY <1>3, <2>1, <2>2, ValueRecords
  <2>4. QED  BY <1>1, <1>2, <1>3, <1>5, <2>1, <2>2, <2>3 DEF k, i, list
<1>8. QED  BY <1>6, <1>7

LEMMA ReturnFacts ==
    ASSUME Inv, Return
    PROVE  /\ stack # <<>> /\ current = NoValue /\ Top.left = {} /\ Top.child > Len(children[Here])
           /\ UNCHANGED <<forest, symtab, started, current, env, nerrors>>
           /\ stack' = Front(stack) /\ stack' \in Seq(Frame) /\ Len(stack') = Len(stack) - 1
           /\ \A p \in 1..(Len(stack) - 1) : stack'[p] = stack[p]
<1>1. /\ stack # <<>> /\ current = NoValue /\ Top.left = {} /\ Top.child > Len(children[Here])
      /\ UNCHANGED <<forest, symtab, started, current, env, nerrors>> /\ stack' = Front(stack)
    BY DEF Return, ChildrenDone, Here, children
<1>2. stack \in Seq(Frame)
    BY <1>1, Facts
<1>3. QED  BY <1>1, <1>2, TopFacts

LEMMA StartFacts ==
    ASSUME Inv, StartTree
    PROVE  /\ stack = <<>> /\ current = NoValue /\ started + 1 \in DOMAIN forest.roots /\ started' = started + 1
           /\ started \in Nat /\ forest.roots[started + 1] \in Node /\ forest \in Forests
           /\ Enter(forest.roots[started + 1], <<>>)
<1>1. /\ stack = <<>> /\ started < Len(forest.roots) /\ started' = started + 1
      /\ Enter(forest.roots[started + 1], <<>>)
    BY DEF StartTree
<1>2. forest \in Forests /\ started \in 0..Len(forest.roots) /\ (current # NoValue => stack # <<>>)
    BY DEF Inv, TypeOK
<1>3. forest.roots \in Seq(Node)
    BY <1>2, Forest
<1>4. QED  BY <1>1, <1>2, <1>3

LEMMA AbandonFacts ==
    ASSUME Inv, Abandon
    PROVE  /\ stack # <<>> /\ current # NoValue /\ HasReference(current.value)
           /\ ~Resolves(Here, NextReference(current.value)) /\ current.value \in Value
           /\ nerrors' = nerrors + 1 /\ nerrors \in Nat /\ current' = NoValue
           /\ UNCHANGED <<forest, symtab, started, stack, env>>
BY DEF Abandon, Working, Here, Inv, TypeOK
-----------------------------------------------------------------------------
(* The parts of TypeOK.                                                      *)
SymtabOK ==
    /\ DOMAIN symtab = Node
    /\ \A n \in Node :
         /\ symtab[n] \in [DOMAIN given[n] -> Seq(Value)]
         /\ \A k \in DOMAIN symtab[n] : Len(symtab[n][k]) = Len(given[n][k])
CurrentOK ==
    /\ current \in Current
    /\ current # NoValue => /\ stack # <<>>
                            /\ current.key \in DOMAIN symtab[Here]
                            /\ current.index \in DOMAIN symtab[Here][current.key]
OthersOK ==
    forest \in Forests /\ started \in 0..Len(forest.roots) /\ stack \in Seq(Frame) /\ env \subseteq EnvVar /\ nerrors \in Nat

LEMMA TypeParts == TypeOK <=> SymtabOK /\ CurrentOK /\ OthersOK
BY DEF TypeOK, SymtabOK, CurrentOK, OthersOK, given, Current, Here, Top

LEMMA TypeStep ==
    ASSUME Inv, Next
    PROVE  SymtabOK' /\ CurrentOK' /\ OthersOK' /\ UNCHANGED forest
<1>1. SymtabOK /\ CurrentOK /\ OthersOK
    BY TypeParts DEF Inv
<1>2. UNCHANGED <<forest, symtab>> => SymtabOK'
    BY <1>1 DEF SymtabOK, given
<1>3. current' = NoValue => CurrentOK'
    BY ValueRecords DEF CurrentOK, Current
<1>4. CASE StartTree
  <2>1. /\ UNCHANGED <<forest, symtab, current, env>> /\ current = NoValue /\ started' = started + 1
        /\ stack' \in Seq(Frame) /\ nerrors' \in Nat
    <3>1. <<>> \in Seq(Frame)
        OBVIOUS
    <3>2. QED  BY <1>4, <3>1, StartFacts, EnterShape
  <2>2. started + 1 \in DOMAIN forest.roots /\ started \in Nat /\ forest.roots \in Seq(Node)
      BY <1>1, <1>4, StartFacts, Forest
  <2>3. QED  BY <1>1, <1>2, <1>3, <2>1, <2>2 DEF OthersOK
<1>5. CASE CallChild
  <2>1. stack # <<>> /\ Advanced \in Seq(Frame)
      BY <1>1, <1>5, CallFacts, AdvancedFacts DEF OthersOK
  <2>2. /\ UNCHANGED <<forest, symtab, current, env>> /\ current = NoValue /\ started' = started
        /\ stack' \in Seq(Frame) /\ nerrors' \in Nat
      BY <1>5, <2>1, CallFacts, EnterShape
  <2>3. QED  BY <1>1, <1>2, <1>3, <2>2 DEF OthersOK
<1>6. ASSUME NEW key \in Key, PickKey(key)
      PROVE  SymtabOK' /\ CurrentOK' /\ OthersOK' /\ UNCHANGED forest
  <2>1. /\ UNCHANGED <<forest, symtab, started, env, nerrors>> /\ stack' \in Seq(Frame) /\ stack # <<>>
        /\ Len(stack') = Len(stack)
        /\ stack'[Len(stack)] = [node |-> Here, child |-> Top.child, left |-> Top.left \ {key}]
        /\ \/ current' = NoValue
           \/ /\ symtab[Here][key] # <<>>
              /\ current' = [key |-> key, index |-> 1, value |-> symtab[Here][key][1]]
      BY <1>6, PickFacts
  <2>2. SymtabOK' /\ OthersOK'
      BY <1>1, <1>2, <2>1 DEF OthersOK
  <2>3. CASE current' = NoValue
      BY <1>3, <2>1, <2>2, <2>3
  <2>4. CASE symtab[Here][key] # <<>> /\ current' = [key |-> key, index |-> 1, value |-> symtab[Here][key][1]]
    <3>1. key \in DOMAIN given[Here] /\ symtab[Here][key] \in Seq(Value) /\ Here \in Node
        BY <1>6, <2>1, PickFacts, Facts
    <3>2. symtab[Here][key][1] \in Value /\ 1 \in DOMAIN symtab[Here][key] /\ 1 \in Nat
      <4> DEFINE q == symtab[Here][key]
      <4>1. q \in Seq(Value) /\ q # <<>>
          BY <2>4, <3>1
      <4> HIDE DEF q
      <4>2. q[1] \in Value /\ 1 \in DOMAIN q /\ 1 \in Nat
          BY ONLY <4>1
      <4>3. QED  BY <4>2 DEF q
    <3>3. current' \in Current /\ current'.key = key /\ current'.index = 1
        BY <2>4, <3>2, ValueRecords, SMTT(30), ZenonT(30)
    <3>4. Here' = Here /\ stack' # <<>>
      <4>1. stack \in Seq(Frame) /\ Len(stack) \in Nat \ {0}
          BY <1>1, <2>1, TopFacts DEF OthersOK
      <4>2. stack' # <<>> /\ Last(stack') = stack'[Len(stack)]
          BY <2>1, <4>1 DEF Last
      <4>3. QED  BY <2>1, <4>2 DEF Here, Top
    <3>5. key \in DOMAIN symtab[Here]
        BY <1>1, <3>1 DEF SymtabOK
    <3>6. CurrentOK'
        BY <2>1, <3>2, <3>3, <3>4, <3>5 DEF CurrentOK, Current
    <3>7. QED  BY <2>1, <2>2, <3>6
  <2>5. QED  BY <2>1, <2>3, <2>4
<1>7. CASE Substitute
  <2>1. /\ UNCHANGED <<forest, symtab, started, stack, nerrors>> /\ env' \subseteq EnvVar /\ current # NoValue
        /\ current' = [key |-> current.key, index |-> current.index, value |-> current'.value]
        /\ current'.value \in Value
      BY <1>7, SubstituteFacts
  <2>2. SymtabOK' /\ OthersOK'
      BY <1>1, <1>2, <2>1 DEF OthersOK
  <2>3. current \in Current /\ current.key \in Key \cup {""} /\ current.index \in Nat
      BY <1>1 DEF CurrentOK, Current
  <2>4. current'.key = current.key /\ current'.index = current.index
      BY <2>1
  <2>5. PICK v \in Value : current' = [key |-> current.key, index |-> current.index, value |-> v]
      BY <2>1
  <2>6. current' \in Current
    <3> DEFINE k == current.key
               i == current.index
    <3>1. k \in Key \cup {""} /\ i \in Nat /\ current' = [key |-> k, index |-> i, value |-> v]
        BY <2>3, <2>5
    <3> HIDE DEF k, i
    <3>2. [key |-> k, index |-> i, value |-> v] \in Current
        BY <3>1, ValueRecords
    <3>3. QED  BY <3>1, <3>2
  <2>7. Here' = Here
      BY <2>1 DEF Here, Top
  <2>8. CurrentOK'
      BY <1>1, <2>1, <2>4, <2>6, <2>7 DEF CurrentOK, Current
  <2>9. QED  BY <2>1, <2>2, <2>8
<1>8. CASE Abandon
  <2>1. current' = NoValue /\ nerrors' = nerrors + 1 /\ UNCHANGED <<forest, symtab, started, stack, env>>
      BY <1>8, AbandonFacts
  <2>2. QED  BY <1>1, <1>2, <1>3, <2>1 DEF OthersOK
<1>9. CASE Store
  <2> DEFINE k == current.key
             i == current.index
  <2>1. /\ stack # <<>> /\ current # NoValue /\ UNCHANGED <<forest, started, stack, env, nerrors>>
        /\ k \in Key /\ i \in 1..Len(symtab[Here][k]) /\ symtab[Here][k] \in Seq(Value)
      BY <1>9, StoreFacts
  <2>2. /\ k \in DOMAIN given[Here] /\ DOMAIN symtab' = Node /\ \A n \in Node : n # Here => symtab'[n] = symtab[n]
        /\ symtab'[Here] \in [DOMAIN given[Here] -> Seq(Value)]
        /\ \A j \in DOMAIN given[Here] : j # k => symtab'[Here][j] = symtab[Here][j]
        /\ Len(symtab'[Here][k]) = Len(symtab[Here][k])
      BY <1>9, StoreShape
  <2>3. Here \in Node /\ DOMAIN symtab[Here] = DOMAIN given[Here]
      BY <1>1, <2>1, Facts DEF SymtabOK
  <2> HIDE DEF k, i
  <2>4. SymtabOK'
    <3>1. ASSUME NEW n \in Node
          PROVE  symtab'[n] \in [DOMAIN given[n] -> Seq(Value)] /\ \A j \in DOMAIN symtab'[n] : Len(symtab'[n][j]) = Len(given[n][j])
      <4>1. CASE n = Here
        <5>1. \A j \in DOMAIN given[Here] : Len(symtab'[Here][j]) = Len(symtab[Here][j])
            BY <2>2
        <5>2. QED  BY <1>1, <2>2, <2>3, <4>1, <5>1 DEF SymtabOK
      <4>2. CASE n # Here
          BY <1>1, <2>2, <4>2 DEF SymtabOK
      <4>3. QED  BY <4>1, <4>2
    <3>2. given' = given
        BY <2>1 DEF given
    <3>3. QED  BY <2>2, <3>1, <3>2 DEF SymtabOK
  <2>5. OthersOK'
      BY <1>1, <2>1 DEF OthersOK
  <2>6. Here' = Here
      BY <2>1 DEF Here, Top
  <2>7. CASE current' = NoValue
      BY <1>3, <2>1, <2>4, <2>5, <2>7
  <2>8. CASE current' # NoValue
    <3>1. /\ i < Len(symtab[Here][k]) /\ symtab[Here][k][i + 1] \in Value /\ current' \in Current
          /\ current' = [key |-> k, index |-> i + 1, value |-> symtab[Here][k][i + 1]]
        BY <1>9, <2>8, StoreFacts DEF k, i
    <3>2. current'.key = k /\ current'.index = i + 1
        BY <3>1
    <3>3. symtab'[Here][k] \in Seq(Value) /\ k \in DOMAIN symtab'[Here]
        BY <2>2
    <3>4. i + 1 \in DOMAIN symtab'[Here][k]
        BY <2>1, <2>2, <3>1, <3>3
    <3>5. CurrentOK'
        BY <2>1, <2>6, <3>1, <3>2, <3>3, <3>4 DEF CurrentOK, Current
    <3>6. QED  BY <2>1, <2>4, <2>5, <3>5
  <2>9. QED  BY <2>7, <2>8
<1>10. CASE Return
  <2>1. UNCHANGED <<forest, symtab, started, current, env, nerrors>> /\ current = NoValue /\ stack' \in Seq(Frame)
      BY <1>10, ReturnFacts
  <2>2. QED  BY <1>1, <1>2, <1>3, <2>1 DEF OthersOK
<1>11. QED  BY <1>4, <1>5, <1>6, <1>7, <1>8, <1>9, <1>10 DEF Next
-----------------------------------------------------------------------------
(* The nodes a node is called from are in one line.                          *)
LEMMA CallersInLine ==
    ASSUME forest \in Forests, NEW n \in Node, NEW a \in Callers[n], NEW b \in Callers[n]
    PROVE  a \in Callers[b] \/ b \in Callers[a]
<1> DEFINE S == {x \in Node : \A c, d \in Callers[x] : c \in Callers[d] \/ d \in Callers[c]}
<1>1. ASSUME NEW x \in Node, parent[x] = 0 \/ parent[x] \in S PROVE x \in S
  <2>1. Callers[x] = {x} \cup (IF parent[x] = 0 THEN {} ELSE Callers[parent[x]])
      BY CallersUnfold
  <2>2. QED  BY <1>1, <2>1
<1>2. Node \subseteq S
  <2> HIDE DEF S
  <2>1. QED  BY <1>1, Downwards
<1>3. QED  BY <1>2

LEMMA UnderFacts ==
    ASSUME forest \in Forests, NEW n \in Node
    PROVE  /\ n \in Under[n] /\ Under[n] \subseteq Node
           /\ \A m \in Node : m \in Under[n] <=> n \in Callers[m]
           /\ \A c \in Range(children[n]) : Under[c] \subseteq Under[n]
           /\ Under[n] \subseteq {n} \cup UNION {Under[c] : c \in Range(children[n])}
<1>1. \A x, m \in Node : m \in Under[x] <=> x \in Callers[m]
    BY DEF Under, Callers
<1>2. n \in Under[n] /\ \A x \in Node : Under[x] \subseteq Node
    BY <1>1, CallersFacts DEF Under
<1>3. \A c \in Range(children[n]) : c \in Node /\ parent[c] = n
  <2>1. children[n] \in Seq(Node)
      BY Forest
  <2>2. Range(children[n]) \subseteq Node
      BY <2>1 DEF Range
  <2>3. QED  BY <2>2, Forest
<1>4. ASSUME NEW c \in Range(children[n]), NEW m \in Under[c] PROVE m \in Under[n]
  <2>1. c \in Node /\ m \in Node /\ c \in Callers[m] /\ n # 0 /\ parent[c] = n
      BY <1>1, <1>2, <1>3, Forest
  <2>2. n \in Callers[c]
      BY <2>1, CallersUnfold, CallersFacts
  <2>3. n \in Callers[m]
      BY <2>1, <2>2, CallersFacts
  <2>4. QED  BY <1>1, <2>1, <2>3
<1> DEFINE S == {m \in Node : n \in Callers[m] => m = n \/ \E c \in Node : parent[c] = n /\ c \in Callers[m]}
<1>5. ASSUME NEW m \in Node, parent[m] = 0 \/ parent[m] \in S PROVE m \in S
  <2>1. Callers[m] = {m} \cup (IF parent[m] = 0 THEN {} ELSE Callers[parent[m]])
      BY CallersUnfold
  <2>2. CASE parent[m] = 0
      BY <2>1, <2>2
  <2>3. CASE parent[m] # 0
    <3>1. parent[m] \in S /\ Callers[m] = {m} \cup Callers[parent[m]]
        BY <1>5, <2>1, <2>3
    <3>2. QED  BY <3>1
  <2>4. QED  BY <2>2, <2>3
<1>6. Node \subseteq S
  <2> HIDE DEF S
  <2>1. QED  BY <1>5, Downwards
<1>7. ASSUME NEW m \in Under[n], m # n PROVE \E c \in Range(children[n]) : m \in Under[c]
  <2>1. m \in Node /\ n \in Callers[m]
      BY <1>1, <1>2
  <2>2. PICK c \in Node : parent[c] = n /\ c \in Callers[m]
      BY <1>6, <1>7, <2>1
  <2>3. c \in Range(children[n])
      BY <2>2, Forest
  <2>4. QED  BY <1>1, <2>1, <2>2, <2>3
<1>8. QED  BY <1>1, <1>2, <1>4, <1>7

(* Two children of a node, or two roots, have nothing below them in common.     *)
LEMMA Disjoint ==
    ASSUME forest \in Forests, NEW a \in Node, NEW b \in Node, parent[a] = parent[b], a # b
    PROVE  Under[a] \cap Under[b] = {}
<1>1. \A c, d \in Node : parent[c] = parent[d] /\ c # d => c \notin Callers[d]
  <2> SUFFICES ASSUME NEW c \in Node, NEW d \in Node, parent[c] = parent[d], c # d, c \in Callers[d] PROVE FALSE
      OBVIOUS
  <2>1. parent[d] # 0 /\ c \in Callers[parent[d]]
      BY CallersUnfold
  <2>2. parent[c] \in Node /\ c \in Callers[parent[c]] /\ parent[c] < c /\ Node \subseteq Nat
      BY <2>1, Forest
  <2>3. c <= parent[c]
      BY <2>1, <2>2, CallersFacts
  <2>4. c \in Nat /\ parent[c] \in Nat /\ parent[c] < c
      BY <2>2
  <2>5. QED  BY <2>3, <2>4
<1>2. a \notin Callers[b] /\ b \notin Callers[a]
    BY <1>1
<1>3. ASSUME NEW m \in Under[a], m \in Under[b] PROVE FALSE
  <2>1. m \in Node /\ a \in Callers[m] /\ b \in Callers[m]
      BY <1>3, UnderFacts
  <2>2. QED  BY <1>2, <2>1, CallersInLine
<1>4. QED  BY <1>3
-----------------------------------------------------------------------------
(* Every call is the one of a child by its parent, beginning with a root.      *)
LEMMA Chain ==
    ASSUME Inv, stack # <<>>
    PROVE  /\ started \in DOMAIN forest.roots /\ stack[1].node = forest.roots[started] /\ parent[stack[1].node] = 0
           /\ \A p \in DOMAIN stack : stack[p].node \in Node /\ Kids(p) \in Seq(Node)
           /\ \A p \in 1..(Len(stack) - 1) :
                /\ stack[p].child - 1 \in DOMAIN Kids(p) /\ stack[p + 1].node = Kids(p)[stack[p].child - 1]
                /\ parent[stack[p + 1].node] = stack[p].node /\ stack[p].node < stack[p + 1].node
<1>1. TypeOK /\ Calls /\ forest \in Forests /\ stack \in Seq(Frame) /\ forest.roots \in Seq(Node)
    BY Forest DEF Inv, TypeOK
<1>2. Len(stack) \in Nat \ {0} /\ DOMAIN stack = 1..Len(stack)
    BY <1>1, TopFacts
<1>3. ASSUME NEW p \in DOMAIN stack
      PROVE  /\ stack[p].node \in Node /\ stack[p].child \in Nat
             /\ Kids(p) = children[stack[p].node] /\ Kids(p) \in Seq(Node)
  <2>1. stack[p] \in Frame
      BY <1>1
  <2>2. stack[p].node \in Node /\ stack[p].child \in Nat
      BY <2>1, Records
  <2>3. QED  BY <1>1, <2>2, Forest DEF Kids, children
<1>4. started \in DOMAIN forest.roots /\ stack[1].node = forest.roots[started] /\ parent[stack[1].node] = 0
  <2>1. started > 0 /\ started \in 0..Len(forest.roots) /\ stack[1].node = forest.roots[started]
      BY <1>1 DEF Calls, Rooted, TypeOK
  <2>2. started \in DOMAIN forest.roots
      BY <1>1, <2>1
  <2>3. QED  BY <1>1, <2>1, <2>2, Forest
<1>5. ASSUME NEW p \in 1..(Len(stack) - 1)
      PROVE  /\ stack[p].child - 1 \in DOMAIN Kids(p) /\ stack[p + 1].node = Kids(p)[stack[p].child - 1]
             /\ parent[stack[p + 1].node] = stack[p].node /\ stack[p].node < stack[p + 1].node
  <2>1. p \in DOMAIN stack /\ p + 1 \in DOMAIN stack
      BY <1>2
  <2>2. stack[p].child \in 1..(Len(Kids(p)) + 1) /\ stack[p].child > 1 /\ stack[p + 1].node = Kids(p)[stack[p].child - 1]
      BY <1>1, <2>1 DEF Calls, FramesOK, Linked
  <2>3. stack[p].child - 1 \in DOMAIN Kids(p)
      BY <1>3, <2>1, <2>2
  <2>4. stack[p + 1].node \in Range(children[stack[p].node]) /\ stack[p + 1].node \in Node /\ stack[p].node \in Node
      BY <1>3, <2>1, <2>2, <2>3 DEF Range
  <2>5. parent[stack[p + 1].node] = stack[p].node
      BY <1>1, <2>4, Forest
  <2>6. stack[p].node < stack[p + 1].node
      BY <1>1, <2>4, <2>5, Forest
  <2>7. QED  BY <2>2, <2>3, <2>5, <2>6
<1>6. QED  BY <1>3, <1>4, <1>5

(* The callers of the node on top are the nodes of the calls in progress.      *)
LEMMA ChainCallers ==
    ASSUME Inv, stack # <<>>
    PROVE  /\ Callers[Here] \subseteq {stack[p].node : p \in DOMAIN stack}
           /\ \A p \in DOMAIN stack : Here \in Under[stack[p].node]
           /\ \A p \in 1..(Len(stack) - 1) : stack[p].node # Here /\ Here \in Under[stack[p + 1].node]
<1>1. forest \in Forests /\ stack \in Seq(Frame)
    BY DEF Inv, TypeOK
<1>2. Len(stack) \in Nat \ {0} /\ DOMAIN stack = 1..Len(stack) /\ Here = stack[Len(stack)].node
    BY <1>1, TopFacts DEF Here
<1>3. \A p \in DOMAIN stack : stack[p].node \in Node
    BY Chain
<1> DEFINE P(p) == Callers[stack[p].node] = {stack[q].node : q \in 1..p}
           N == {p \in Nat : p + 1 \in DOMAIN stack => P(p + 1)}
<1>4. 0 \in N
  <2>1. stack[1].node \in Node /\ parent[stack[1].node] = 0
      BY <1>2, Chain
  <2>2. Callers[stack[1].node] = {stack[1].node}
      BY <1>1, <2>1, CallersUnfold
  <2>3. 1..1 = {1}
      OBVIOUS
  <2>4. QED  BY <2>2, <2>3
<1>5. ASSUME NEW p \in N PROVE p + 1 \in N
  <2> SUFFICES ASSUME (p + 1) + 1 \in DOMAIN stack PROVE P((p + 1) + 1)
      OBVIOUS
  <2>1. p \in Nat
      OBVIOUS
  <2>2. p + 1 \in DOMAIN stack /\ p + 1 \in 1..(Len(stack) - 1)
      BY <1>2, <2>1
  <2>3. P(p + 1)
      BY <2>2
  <2> DEFINE a == stack[p + 1].node
             b == stack[(p + 1) + 1].node
  <2>4. a \in Node /\ b \in Node /\ parent[b] = a /\ a # 0
      BY <1>1, <1>3, <2>2, Chain, Forest
  <2>5. Callers[b] = {b} \cup Callers[a]
      BY <1>1, <2>4, CallersUnfold
  <2>6. 1..((p + 1) + 1) = (1..(p + 1)) \cup {(p + 1) + 1}
      BY <2>1
  <2>7. QED  BY <2>3, <2>5, <2>6
<1>6. N = Nat
  <2> N \in SUBSET Nat
      OBVIOUS
  <2> HIDE DEF N
  <2>1. QED  BY <1>4, <1>5, Induction
<1>7. P(Len(stack))
  <2>1. Len(stack) - 1 \in Nat /\ (Len(stack) - 1) + 1 = Len(stack) /\ Len(stack) \in DOMAIN stack
      BY <1>2
  <2>2. Len(stack) - 1 \in N
    <3> HIDE DEF N
    <3>1. QED  BY <1>6, <2>1
  <2>3. QED  BY <2>1, <2>2
<1>8. Callers[Here] = {stack[p].node : p \in DOMAIN stack}
    BY <1>2, <1>7
<1>9. \A p \in DOMAIN stack : Here \in Under[stack[p].node] /\ stack[p].node <= Here
  <2>1. Here \in Node
      BY <1>2, <1>3
  <2>2. QED  BY <1>1, <1>3, <1>8, <2>1, UnderFacts, CallersFacts
<1>10. ASSUME NEW p \in 1..(Len(stack) - 1)
       PROVE  stack[p].node # Here /\ Here \in Under[stack[p + 1].node]
  <2>1. p + 1 \in DOMAIN stack /\ p \in DOMAIN stack
      BY <1>2
  <2>2. stack[p].node < stack[p + 1].node /\ stack[p + 1].node <= Here /\ Here \in Under[stack[p + 1].node]
      BY <1>9, <2>1, Chain
  <2>3. stack[p].node \in Nat /\ stack[p + 1].node \in Nat
      BY <1>1, <1>3, <2>1, Forest
  <2>4. QED  BY <2>2, <2>3
<1>11. QED  BY <1>8, <1>9, <1>10
-----------------------------------------------------------------------------
(* What the calls in progress are after a step.                              *)
LEMMA StartShape ==
    ASSUME Inv, StartTree
    PROVE  LET r == forest.roots[started + 1]
           IN  /\ UNCHANGED <<forest, symtab, current>> /\ r \in Node
               /\ \/ /\ r \in forest.named /\ nerrors' = nerrors
                     /\ Len(stack') = 1 /\ DOMAIN stack' = {1} /\ stack' # <<>> /\ Here' = r
                     /\ stack'[1].node = r /\ stack'[1].child = 1 /\ stack'[1].left = DOMAIN given[r]
                  \/ /\ r \notin forest.named /\ nerrors' = nerrors + 1 /\ stack' = <<>>
<1> DEFINE r == forest.roots[started + 1]
<1>1. r \in Node /\ Enter(r, <<>>) /\ <<>> \in Seq(Frame)
    BY StartFacts
<1> HIDE DEF r
<1>2. /\ UNCHANGED <<forest, symtab, current>>
      /\ NewFrame(r).node = r /\ NewFrame(r).child = 1 /\ NewFrame(r).left = DOMAIN given[r]
      /\ \/ r \in forest.named /\ nerrors' = nerrors /\ stack' = Append(<<>>, NewFrame(r))
         \/ r \notin forest.named /\ nerrors' = nerrors + 1 /\ stack' = <<>>
    BY <1>1, EnterShape
<1>3. ASSUME NEW x, stack' = Append(<<>>, x)
      PROVE  Len(stack') = 1 /\ DOMAIN stack' = {1} /\ stack' # <<>> /\ stack'[1] = x
  <2>1. stack' = <<x>>
      BY <1>3
  <2>2. QED  BY <2>1
<1>4. CASE r \in forest.named /\ nerrors' = nerrors /\ stack' = Append(<<>>, NewFrame(r))
  <2>1. Len(stack') = 1 /\ DOMAIN stack' = {1} /\ stack' # <<>> /\ stack'[1] = NewFrame(r)
      BY <1>3, <1>4
  <2>2. Here' = r
      BY <1>2, <2>1 DEF Here, Top, Last
  <2>3. QED  BY <1>1, <1>2, <1>4, <2>1, <2>2 DEF r
<1>5. QED  BY <1>1, <1>2, <1>4 DEF r

LEMMA CallShape ==
    ASSUME Inv, CallChild
    PROVE  LET L == Len(stack)  n == children[Here][Top.child]
           IN  /\ UNCHANGED <<forest, symtab, started, current>> /\ current = NoValue
               /\ n \in Node /\ Top.child \in DOMAIN children[Here] /\ stack # <<>> /\ stack' # <<>>
               /\ \A p \in 1..(L - 1) : stack'[p] = stack[p]
               /\ stack'[L].node = Here /\ stack'[L].child = Top.child + 1 /\ stack'[L].left = Top.left
               /\ \/ /\ n \in forest.named /\ nerrors' = nerrors
                     /\ Len(stack') = L + 1 /\ DOMAIN stack' = 1..(L + 1) /\ Here' = n
                     /\ stack'[L + 1].node = n /\ stack'[L + 1].child = 1 /\ stack'[L + 1].left = DOMAIN given[n]
                  \/ /\ n \notin forest.named /\ nerrors' = nerrors + 1
                     /\ Len(stack') = L /\ DOMAIN stack' = 1..L /\ Here' = Here
<1> DEFINE L == Len(stack)
           n == children[Here][Top.child]
<1>1. /\ n \in Node /\ Enter(n, Advanced) /\ Top.child \in DOMAIN children[Here] /\ stack # <<>>
      /\ UNCHANGED started /\ current = NoValue
    BY CallFacts
<1>2. stack \in Seq(Frame) /\ L \in Nat \ {0}
    BY <1>1, Facts, TopFacts
<1>3. /\ Advanced \in Seq(Frame) /\ Len(Advanced) = L
      /\ Advanced[L] = [node |-> Top.node, child |-> Top.child + 1, left |-> Top.left]
      /\ \A p \in 1..(L - 1) : Advanced[p] = stack[p]
    BY <1>1, <1>2, AdvancedFacts
<1> HIDE DEF n, L
<1>4. /\ UNCHANGED <<forest, symtab, current>>
      /\ NewFrame(n).node = n /\ NewFrame(n).child = 1 /\ NewFrame(n).left = DOMAIN given[n]
      /\ \/ n \in forest.named /\ nerrors' = nerrors /\ stack' = Append(Advanced, NewFrame(n))
         \/ n \notin forest.named /\ nerrors' = nerrors + 1 /\ stack' = Advanced
    BY <1>1, <1>3, EnterShape
<1>5. Advanced[L].node = Here /\ Advanced[L].child = Top.child + 1 /\ Advanced[L].left = Top.left
    BY <1>3 DEF Here
<1>6. CASE n \in forest.named /\ nerrors' = nerrors /\ stack' = Append(Advanced, NewFrame(n))
  <2>1. /\ Len(stack') = L + 1 /\ DOMAIN stack' = 1..(L + 1) /\ stack'[L + 1] = NewFrame(n)
        /\ \A p \in 1..L : stack'[p] = Advanced[p]
      BY <1>2, <1>3, <1>6
  <2>2. /\ stack' # <<>> /\ L \in 1..L /\ \A p \in 1..(L - 1) : p \in 1..L
      BY <1>2, <2>1
  <2>3. Here' = n
      BY <1>4, <2>1 DEF Here, Top, Last
  <2>4. QED  BY <1>1, <1>3, <1>4, <1>5, <1>6, <2>1, <2>2, <2>3 DEF n, L
<1>7. CASE n \notin forest.named /\ nerrors' = nerrors + 1 /\ stack' = Advanced
  <2>1. Len(stack') = L /\ DOMAIN stack' = 1..L /\ stack' # <<>>
      BY <1>2, <1>3, <1>7
  <2>2. Here' = Here
      BY <1>5, <1>7, <2>1 DEF Here, Top, Last
  <2>3. QED  BY <1>1, <1>3, <1>4, <1>5, <1>7, <2>1, <2>2 DEF n, L
<1>8. QED  BY <1>4, <1>6, <1>7

LEMMA PickShape ==
    ASSUME Inv, NEW key \in Key, PickKey(key)
    PROVE  /\ stack' # <<>> /\ Len(stack') = Len(stack) /\ DOMAIN stack' = DOMAIN stack /\ Here' = Here
           /\ \A p \in DOMAIN stack : stack'[p].node = stack[p].node /\ stack'[p].child = stack[p].child
           /\ \A p \in 1..(Len(stack) - 1) : stack'[p] = stack[p]
           /\ Top' = stack'[Len(stack)] /\ Top'.child = Top.child /\ Top'.left = Top.left \ {key}
<1>1. /\ stack # <<>> /\ stack' \in Seq(Frame) /\ Len(stack') = Len(stack) /\ DOMAIN stack' = DOMAIN stack
      /\ stack'[Len(stack)] = [node |-> Here, child |-> Top.child, left |-> Top.left \ {key}]
      /\ \A p \in 1..(Len(stack) - 1) : stack'[p] = stack[p]
    BY PickFacts
<1>2. /\ Len(stack) \in Nat \ {0} /\ DOMAIN stack = 1..Len(stack) /\ Top = stack[Len(stack)] /\ stack \in Seq(Frame)
    BY <1>1, Facts, TopFacts
<1>3. stack' # <<>> /\ Top' = stack'[Len(stack)]
    BY <1>1, <1>2 DEF Top, Last
<1>4. /\ stack'[Len(stack)].node = Here /\ stack'[Len(stack)].child = Top.child
      /\ stack'[Len(stack)].left = Top.left \ {key}
    BY <1>1
<1>5. Here' = Here
    BY <1>3, <1>4 DEF Here
<1>6. ASSUME NEW p \in DOMAIN stack
      PROVE  stack'[p].node = stack[p].node /\ stack'[p].child = stack[p].child
  <2>1. CASE p = Len(stack)
      BY <1>2, <1>4, <2>1 DEF Here
  <2>2. CASE p # Len(stack)
    <3>1. p \in 1..(Len(stack) - 1)
        BY <1>2, <2>2
    <3>2. QED  BY <1>1, <3>1
  <2>3. QED  BY <2>1, <2>2
<1>7. QED  BY <1>1, <1>3, <1>4, <1>5, <1>6

LEMMA ReturnShape ==
    ASSUME Inv, Return
    PROVE  /\ Len(stack') = Len(stack) - 1 /\ DOMAIN stack' = 1..(Len(stack) - 1) /\ Len(stack) \in Nat \ {0}
           /\ \A p \in 1..(Len(stack) - 1) : stack'[p] = stack[p]
           /\ stack' = <<>> <=> Len(stack) = 1
           /\ stack' # <<>> => Here' = stack[Len(stack) - 1].node /\ Top' = stack[Len(stack) - 1]
<1>1. /\ stack # <<>> /\ stack' \in Seq(Frame) /\ Len(stack') = Len(stack) - 1
      /\ \A p \in 1..(Len(stack) - 1) : stack'[p] = stack[p]
    BY ReturnFacts
<1>2. Len(stack) \in Nat \ {0}
    BY <1>1, Facts, TopFacts
<1>3. DOMAIN stack' = 1..(Len(stack) - 1) /\ (stack' = <<>> <=> Len(stack) = 1)
    BY <1>1, <1>2
<1>4. ASSUME stack' # <<>> PROVE Here' = stack[Len(stack) - 1].node /\ Top' = stack[Len(stack) - 1]
  <2>1. Len(stack) - 1 \in 1..(Len(stack) - 1)
      BY <1>2, <1>3, <1>4
  <2>2. Top' = stack'[Len(stack) - 1]
      BY <1>1 DEF Top, Last
  <2>3. QED  BY <1>1, <2>1, <2>2 DEF Here
<1>5. QED  BY <1>1, <1>2, <1>3, <1>4
-----------------------------------------------------------------------------
(* The frame on top, and what can be done with its node's children.           *)
LEMMA OnTop ==
    ASSUME Inv, stack # <<>>
    PROVE  /\ Len(stack) \in Nat \ {0} /\ DOMAIN stack = 1..Len(stack) /\ Len(stack) \in DOMAIN stack
           /\ Top = stack[Len(stack)] /\ Here = stack[Len(stack)].node /\ Here \in Node
           /\ Kids(Len(stack)) = children[Here] /\ children[Here] \in Seq(Node)
           /\ Top.child \in 1..(Len(children[Here]) + 1)
<1>1. stack \in Seq(Frame) /\ FramesOK /\ forest \in Forests
    BY DEF Inv, TypeOK, Calls
<1>2. Len(stack) \in Nat \ {0} /\ DOMAIN stack = 1..Len(stack) /\ Len(stack) \in DOMAIN stack /\ Top = stack[Len(stack)]
    BY <1>1, TopFacts
<1>3. Here = stack[Len(stack)].node /\ Here \in Node
    BY <1>1, <1>2, TopFacts DEF Here
<1>4. Kids(Len(stack)) = children[Here] /\ children[Here] \in Seq(Node)
    BY <1>1, <1>3, Forest DEF Kids, children
<1>5. Top.child \in 1..(Len(children[Here]) + 1)
    BY <1>1, <1>2, <1>4 DEF FramesOK
<1>6. QED  BY <1>2, <1>3, <1>4, <1>5

LEMMA CallsStep == ASSUME Inv, Next PROVE Calls'
<1>1. /\ forest \in Forests /\ forest.roots \in Seq(Node)
      /\ FramesOK /\ Linked /\ Rooted /\ Worked
      /\ \A n \in Node : children[n] \in Seq(Node) /\ Len(children[n]) \in Nat
  <2>1. forest \in Forests /\ FramesOK /\ Linked /\ Rooted /\ Worked
      BY DEF Inv, TypeOK, Calls
  <2>2. forest.roots \in Seq(Node) /\ \A n \in Node : children[n] \in Seq(Node)
      BY <2>1, Forest
  <2>3. \A n \in Node : Len(children[n]) \in Nat
      BY <2>2
  <2>4. QED  BY <2>1, <2>2, <2>3
<1>2. CASE StartTree
  <2> DEFINE r == forest.roots[started + 1]
  <2>1. /\ UNCHANGED forest /\ r \in Node /\ current' = NoValue /\ started' = started + 1 /\ started \in Nat
        /\ \/ /\ Len(stack') = 1 /\ DOMAIN stack' = {1}
              /\ stack'[1].node = r /\ stack'[1].child = 1 /\ stack'[1].left = DOMAIN given[r]
           \/ stack' = <<>>
      BY <1>2, StartShape, StartFacts
  <2> HIDE DEF r
  <2>2. CASE stack' = <<>>
      BY <2>1, <2>2 DEF Calls, FramesOK, Linked, Rooted, Worked
  <2>3. CASE Len(stack') = 1 /\ DOMAIN stack' = {1} /\ stack'[1].node = r /\ stack'[1].child = 1
             /\ stack'[1].left = DOMAIN given[r]
    <3>1. Kids(1)' = children[r] /\ given' = given /\ 1 \in 1..(Len(children[r]) + 1)
        BY <1>1, <2>1, <2>3 DEF Kids, children, given
    <3>2. FramesOK'
        BY <2>3, <3>1 DEF FramesOK
    <3>3. Linked'
        BY <2>3 DEF Linked
    <3>4. Rooted'
        BY <2>1, <2>3 DEF Rooted, r
    <3>5. Worked'
        BY <2>1 DEF Worked
    <3>6. QED  BY <3>2, <3>3, <3>4, <3>5 DEF Calls
  <2>4. QED  BY <2>1, <2>2, <2>3
<1>3. CASE CallChild
  <2> DEFINE L == Len(stack)
             n == children[Here][Top.child]
  <2>1. /\ UNCHANGED <<forest, started, current>> /\ current = NoValue
        /\ n \in Node /\ Top.child \in DOMAIN children[Here] /\ stack # <<>>
        /\ \A p \in 1..(L - 1) : stack'[p] = stack[p]
        /\ stack'[L].node = Here /\ stack'[L].child = Top.child + 1 /\ stack'[L].left = Top.left
        /\ \/ /\ Len(stack') = L + 1 /\ DOMAIN stack' = 1..(L + 1)
              /\ stack'[L + 1].node = n /\ stack'[L + 1].child = 1 /\ stack'[L + 1].left = DOMAIN given[n]
           \/ Len(stack') = L /\ DOMAIN stack' = 1..L
      BY <1>3, CallShape
  <2>2. /\ L \in Nat \ {0} /\ DOMAIN stack = 1..L /\ Top = stack[L] /\ Here = stack[L].node /\ Here \in Node
        /\ Kids(L) = children[Here] /\ children[Here] \in Seq(Node)
      BY <2>1, OnTop
  <2>3. Top.child \in 1..Len(children[Here]) /\ Len(children[Here]) \in Nat
      BY <2>1, <2>2
  <2>4. Top.left = DOMAIN given[Here]
      BY <1>1, <2>2, <2>3 DEF FramesOK
  <2>5. given' = given /\ children' = children
      BY <2>1 DEF given, children
  <2> HIDE DEF L, n
  <2>6. /\ \A p \in 1..(L - 1) : Kids(p)' = Kids(p)
        /\ \A p : p = L => Kids(p)' = children[Here]
        /\ \A p : p = L + 1 /\ Len(stack') = L + 1 => Kids(p)' = children[n]
      BY <2>1, <2>2, <2>5 DEF Kids, children
  <2>7. ASSUME NEW p \in DOMAIN stack'
        PROVE  /\ stack'[p].child \in 1..(Len(Kids(p)') + 1)
               /\ stack'[p].left \subseteq DOMAIN given[stack'[p].node]
               /\ stack'[p].left = DOMAIN given[stack'[p].node]
    <3>1. CASE p \in 1..(L - 1)
      <4>1. p \in DOMAIN stack /\ p < Len(stack) /\ stack'[p] = stack[p] /\ Kids(p)' = Kids(p)
          BY <2>1, <2>2, <2>6, <3>1 DEF L
      <4>2. QED  BY <1>1, <4>1 DEF FramesOK
    <3>2. CASE p = L
        BY <2>1, <2>3, <2>4, <2>6, <3>2
    <3>3. CASE p = L + 1 /\ Len(stack') = L + 1
      <4>1. Len(children[n]) \in Nat /\ Kids(p)' = children[n]
          BY <1>1, <2>1, <2>6, <3>3
      <4>2. 1 \in 1..(Len(children[n]) + 1)
          BY <4>1
      <4>3. stack'[p].node = n /\ stack'[p].child = 1 /\ stack'[p].left = DOMAIN given[n]
          BY <2>1, <2>2, <3>3
      <4>4. QED  BY <4>1, <4>2, <4>3
    <3>4. QED  BY <2>1, <2>2, <3>1, <3>2, <3>3
  <2>8. FramesOK'
      BY <2>5, <2>7 DEF FramesOK
  <2>9. ASSUME NEW p \in 1..(Len(stack') - 1)
        PROVE  stack'[p].child > 1 /\ stack'[p + 1].node = Kids(p)'[stack'[p].child - 1]
    <3>1. CASE p \in 1..(L - 1)
      <4>1. stack'[p] = stack[p] /\ Kids(p)' = Kids(p) /\ stack'[p + 1].node = stack[p + 1].node
        <5>1. CASE p = L - 1
            BY <2>1, <2>2, <2>6, <3>1, <5>1
        <5>2. CASE p # L - 1
          <6>1. p + 1 \in 1..(L - 1)
              BY <2>2, <3>1, <5>2
          <6>2. QED  BY <2>1, <2>6, <3>1, <6>1
        <5>3. QED  BY <5>1, <5>2
      <4>2. QED  BY <1>1, <3>1, <4>1 DEF Linked, L
    <3>2. CASE p = L /\ Len(stack') = L + 1
      <4>1. stack'[p].child = Top.child + 1 /\ Kids(p)' = children[Here] /\ stack'[p + 1].node = n
          BY <2>1, <2>2, <2>6, <3>2
      <4>2. (Top.child + 1) - 1 = Top.child /\ Top.child + 1 > 1
          BY <2>3
      <4>3. QED  BY <4>1, <4>2 DEF n
    <3>3. QED  BY <2>1, <2>2, <3>1, <3>2
  <2>10. Linked'
      BY <2>9 DEF Linked
  <2>11. stack'[1].node = stack[1].node
    <3>1. CASE L = 1
        BY <2>1, <2>2, <3>1
    <3>2. CASE L # 1
      <4>1. 1 \in 1..(L - 1)
          BY <2>2, <3>2
      <4>2. QED  BY <2>1, <4>1
    <3>3. QED  BY <3>1, <3>2
  <2>12. Rooted' /\ Worked'
      BY <1>1, <2>1, <2>11 DEF Rooted, Worked
  <2>13. QED  BY <2>8, <2>10, <2>12 DEF Calls
<1>4. ASSUME NEW key \in Key, PickKey(key) PROVE Calls'
  <2>1. /\ stack # <<>> /\ Top.child > Len(children[Here]) /\ UNCHANGED <<forest, started>> /\ key \in Top.left
        /\ \/ current' = NoValue
           \/ current' = [key |-> key, index |-> 1, value |-> symtab[Here][key][1]]
      BY <1>4, PickFacts
  <2>2. /\ stack' # <<>> /\ Len(stack') = Len(stack) /\ DOMAIN stack' = DOMAIN stack /\ Here' = Here
        /\ \A p \in DOMAIN stack : stack'[p].node = stack[p].node /\ stack'[p].child = stack[p].child
        /\ \A p \in 1..(Len(stack) - 1) : stack'[p] = stack[p]
        /\ Top' = stack'[Len(stack)] /\ Top'.child = Top.child /\ Top'.left = Top.left \ {key}
      BY <1>4, PickShape
  <2>3. /\ Len(stack) \in Nat \ {0} /\ DOMAIN stack = 1..Len(stack) /\ Top = stack[Len(stack)]
        /\ Here = stack[Len(stack)].node /\ Kids(Len(stack)) = children[Here] /\ Here \in Node
        /\ Top.child \in 1..(Len(children[Here]) + 1) /\ Len(children[Here]) \in Nat
      BY <1>1, <2>1, OnTop
  <2>4. given' = given /\ \A p \in DOMAIN stack : Kids(p)' = Kids(p)
      BY <2>1, <2>2 DEF Kids, given
  <2>5. ASSUME NEW p \in DOMAIN stack
        PROVE  /\ stack'[p].child \in 1..(Len(Kids(p)) + 1)
               /\ stack'[p].left \subseteq DOMAIN given[stack'[p].node]
               /\ p < Len(stack) \/ stack'[p].child <= Len(Kids(p)) => stack'[p].left = DOMAIN given[stack'[p].node]
    <3>1. CASE p = Len(stack)
      <4>1. stack'[p].left \subseteq stack[p].left /\ ~(stack'[p].child <= Len(Kids(p))) /\ ~(p < Len(stack))
          BY <2>1, <2>2, <2>3, <3>1
      <4>2. QED  BY <1>1, <2>2, <4>1 DEF FramesOK
    <3>2. CASE p # Len(stack)
      <4>1. stack'[p] = stack[p]
          BY <2>2, <2>3, <3>2
      <4>2. QED  BY <1>1, <4>1 DEF FramesOK
    <3>3. QED  BY <3>1, <3>2
  <2>6. FramesOK'
      BY <2>2, <2>4, <2>5 DEF FramesOK
  <2>7. Linked'
    <3>1. ASSUME NEW p \in 1..(Len(stack) - 1)
          PROVE  stack'[p].child > 1 /\ stack'[p + 1].node = Kids(p)[stack'[p].child - 1]
      <4>1. p \in DOMAIN stack /\ p + 1 \in DOMAIN stack
          BY <2>3
      <4>2. QED  BY <1>1, <2>2, <4>1 DEF Linked
    <3>2. \A p \in 1..(Len(stack) - 1) : p \in DOMAIN stack
        BY <2>3
    <3>3. QED  BY <2>2, <2>4, <3>1, <3>2 DEF Linked
  <2>8. Rooted'
    <3>1. 1 \in DOMAIN stack
        BY <2>3
    <3>2. QED  BY <1>1, <2>1, <2>2, <3>1 DEF Rooted
  <2>9. Worked'
    <3>1. current' # NoValue => current'.key = key
        BY <2>1
    <3>2. QED  BY <2>1, <2>2, <3>1 DEF Worked, children
  <2>10. QED  BY <2>6, <2>7, <2>8, <2>9 DEF Calls
<1>5. ASSUME UNCHANGED <<forest, stack, started>>, current' # NoValue => current # NoValue /\ current'.key = current.key
      PROVE  Calls'
  <2>1. FramesOK' /\ Linked' /\ Rooted'
      BY <1>1, <1>5 DEF FramesOK, Linked, Rooted, Kids, given
  <2>2. Worked'
      BY <1>1, <1>5 DEF Worked, Here, Top
  <2>3. QED  BY <2>1, <2>2 DEF Calls
<1>6. CASE Substitute
  <2>1. current'.key = current.key
    <3>1. PICK v : current' = [key |-> current.key, index |-> current.index, value |-> v]
        BY <1>6, SubstituteFacts
    <3>2. QED  BY <3>1
  <2>2. QED  BY <1>5, <1>6, <2>1, SubstituteFacts
<1>7. CASE Abandon
    BY <1>5, <1>7, AbandonFacts
<1>8. CASE Store
  <2>1. current' # NoValue => current'.key = current.key
    <3>1. current' # NoValue => \E i, v : current' = [key |-> current.key, index |-> i, value |-> v]
        BY <1>8, StoreFacts
    <3>2. QED  BY <3>1
  <2>2. QED  BY <1>5, <1>8, <2>1, StoreFacts
<1>9. CASE Return
  <2>1. UNCHANGED <<forest, started>> /\ current' = NoValue /\ stack # <<>>
      BY <1>9, ReturnFacts
  <2>2. /\ Len(stack') = Len(stack) - 1 /\ DOMAIN stack' = 1..(Len(stack) - 1) /\ Len(stack) \in Nat \ {0}
        /\ \A p \in 1..(Len(stack) - 1) : stack'[p] = stack[p]
        /\ stack' = <<>> <=> Len(stack) = 1
      BY <1>9, ReturnShape
  <2>3. DOMAIN stack = 1..Len(stack)
      BY <2>1, OnTop
  <2>4. given' = given /\ \A p \in 1..(Len(stack) - 1) : Kids(p)' = Kids(p)
      BY <2>1, <2>2 DEF Kids, given
  <2>5. \A p \in 1..(Len(stack) - 1) : p \in DOMAIN stack /\ p < Len(stack)
      BY <2>2, <2>3
  <2>6. FramesOK'
      BY <1>1, <2>2, <2>4, <2>5, SMTT(40) DEF FramesOK
  <2>7. Linked'
    <3>1. \A p \in 1..(Len(stack') - 1) : p \in 1..(Len(stack) - 1) /\ p + 1 \in 1..(Len(stack) - 1)
        BY <2>2
    <3>2. QED  BY <1>1, <2>2, <2>4, <3>1 DEF Linked
  <2>8. Rooted'
    <3>1. stack' # <<>> => 1 \in 1..(Len(stack) - 1)
        BY <2>2
    <3>2. QED  BY <1>1, <2>1, <2>2, <3>1 DEF Rooted
  <2>9. Worked'
      BY <2>1 DEF Worked
  <2>10. QED  BY <2>6, <2>7, <2>8, <2>9 DEF Calls
<1>10. QED  BY <1>2, <1>3, <1>4, <1>6, <1>7, <1>8, <1>9 DEF Next
-----------------------------------------------------------------------------
LEMMA FreshStep == ASSUME Inv, Next PROVE Fresh'
<1>1. /\ forest \in Forests /\ forest.roots \in Seq(Node) /\ started \in Nat
      /\ FreshCallers /\ FreshBelow /\ FreshTrees
  <2>1. forest \in Forests /\ FreshCallers /\ FreshBelow /\ FreshTrees /\ started \in 0..Len(forest.roots)
      BY DEF Inv, TypeOK, Fresh
  <2>2. forest.roots \in Seq(Node)
      BY <2>1, Forest
  <2>3. QED  BY <2>1, <2>2
<1>2. UNCHANGED forest
    BY TypeStep
<1>3. Under' = Under /\ given' = given /\ children' = children
    BY <1>2, SameForest
<1>4. symtab' = symtab => Untouched' = Untouched
    BY <1>3 DEF Untouched
<1>5. \A n \in Node : \A j : j \in DOMAIN children[n] => Under[children[n][j]] \subseteq Under[n]
  <2> SUFFICES ASSUME NEW n \in Node, NEW j \in DOMAIN children[n] PROVE Under[children[n][j]] \subseteq Under[n]
      OBVIOUS
  <2>1. children[n][j] \in Range(children[n])
      BY DEF Range
  <2>2. QED  BY <1>1, <2>1, UnderFacts
<1>6. CASE StartTree
  <2> DEFINE r == forest.roots[started + 1]
  <2>1. /\ UNCHANGED symtab /\ r \in Node /\ started' = started + 1 /\ started + 1 \in DOMAIN forest.roots
        /\ \/ /\ Len(stack') = 1 /\ DOMAIN stack' = {1} /\ stack'[1].node = r
           \/ stack' = <<>>
      BY <1>6, StartShape, StartFacts
  <2>2. Under[r] \subseteq Untouched
      BY <1>1, <2>1 DEF FreshTrees
  <2>3. FreshTrees'
    <3>1. \A j \in DOMAIN forest.roots : j > started + 1 => j > started
        BY <1>1
    <3>2. QED  BY <1>1, <1>2, <1>3, <1>4, <2>1, <3>1 DEF FreshTrees
  <2> HIDE DEF r
  <2>4. CASE stack' = <<>>
      BY <2>3, <2>4 DEF Fresh, FreshCallers, FreshBelow
  <2>5. CASE Len(stack') = 1 /\ DOMAIN stack' = {1} /\ stack'[1].node = r
    <3>1. r \in Untouched /\ \A j \in DOMAIN children[r] : Under[children[r][j]] \subseteq Untouched
        BY <1>1, <1>5, <2>1, <2>2, UnderFacts
    <3>2. \A p \in DOMAIN stack' : stack'[p].node = r /\ Kids(p)' = children[r]
        BY <1>2, <2>5 DEF Kids, children
    <3>3. FreshCallers' /\ FreshBelow'
        BY <1>3, <1>4, <2>1, <3>1, <3>2 DEF FreshCallers, FreshBelow
    <3>4. QED  BY <2>3, <3>3 DEF Fresh
  <2>6. QED  BY <2>1, <2>4, <2>5
<1>7. CASE CallChild
  <2> DEFINE L == Len(stack)
             n == children[Here][Top.child]
  <2>1. /\ UNCHANGED <<symtab, started>> /\ n \in Node /\ Top.child \in DOMAIN children[Here] /\ stack # <<>>
        /\ \A p \in 1..(L - 1) : stack'[p] = stack[p]
        /\ stack'[L].node = Here /\ stack'[L].child = Top.child + 1
        /\ \/ Len(stack') = L + 1 /\ DOMAIN stack' = 1..(L + 1) /\ stack'[L + 1].node = n
           \/ Len(stack') = L /\ DOMAIN stack' = 1..L
      BY <1>7, CallShape
  <2>2. /\ L \in Nat \ {0} /\ DOMAIN stack = 1..L /\ Top = stack[L] /\ Here = stack[L].node /\ Here \in Node
        /\ Kids(L) = children[Here] /\ children[Here] \in Seq(Node)
      BY <2>1, OnTop
  <2>3. Top.child \in 1..Len(children[Here]) /\ Len(children[Here]) \in Nat
      BY <2>1, <2>2
  <2>4. Here \in Untouched /\ Under[n] \subseteq Untouched
    <3>1. Here \in Untouched
        BY <1>1, <2>2, <2>3 DEF FreshCallers
    <3>2. Top.child >= Top.child
        BY <2>3
    <3>3. QED  BY <1>1, <2>1, <2>2, <3>1, <3>2 DEF FreshBelow
  <2>5. n \in Untouched /\ \A j \in DOMAIN children[n] : Under[children[n][j]] \subseteq Untouched
      BY <1>1, <1>5, <2>1, <2>4, UnderFacts
  <2>6. \A j \in DOMAIN children[Here] : j >= Top.child + 1 => Under[children[Here][j]] \subseteq Untouched
    <3>1. \A j \in DOMAIN children[Here] : j >= Top.child + 1 => j >= Top.child
        BY <2>2, <2>3
    <3>2. QED  BY <1>1, <2>2, <3>1 DEF FreshBelow
  <2> HIDE DEF L, n
  <2>7. ASSUME NEW p \in DOMAIN stack'
        PROVE  /\ stack'[p].node \in Untouched
               /\ \A j \in DOMAIN children[stack'[p].node] :
                    j >= stack'[p].child => Under[children[stack'[p].node][j]] \subseteq Untouched
    <3>1. CASE p \in 1..(L - 1)
      <4>1. p \in DOMAIN stack /\ p < Len(stack) /\ stack'[p] = stack[p] /\ Kids(p) = children[stack[p].node]
          BY <2>1, <2>2, <3>1 DEF L, Kids, children
      <4>2. QED  BY <1>1, <4>1 DEF FreshCallers, FreshBelow
    <3>2. CASE p = L
        BY <2>1, <2>4, <2>6, <3>2
    <3>3. CASE p = L + 1 /\ Len(stack') = L + 1
      <4>1. stack'[p].node = n
          BY <2>1, <2>2, <3>3
      <4>2. QED  BY <2>5, <4>1
    <3>4. QED  BY <2>1, <2>2, <3>1, <3>2, <3>3
  <2>8. \A p \in DOMAIN stack' : Kids(p)' = children[stack'[p].node]
      BY <1>2 DEF Kids, children
  <2>9. FreshCallers' /\ FreshBelow'
      BY <1>3, <1>4, <2>1, <2>7, <2>8 DEF FreshCallers, FreshBelow
  <2>10. FreshTrees'
      BY <1>1, <1>2, <1>3, <1>4, <2>1 DEF FreshTrees
  <2>11. QED  BY <2>9, <2>10 DEF Fresh
<1>8. ASSUME UNCHANGED <<symtab, started>>, DOMAIN stack' = DOMAIN stack, Len(stack') = Len(stack),
             \A p \in DOMAIN stack : stack'[p].node = stack[p].node /\ stack'[p].child = stack[p].child
      PROVE  Fresh'
  <2>1. \A p \in DOMAIN stack : Kids(p)' = Kids(p)
      BY <1>2, <1>8 DEF Kids
  <2>2. FreshCallers' /\ FreshBelow'
      BY <1>1, <1>3, <1>4, <1>8, <2>1 DEF FreshCallers, FreshBelow
  <2>3. FreshTrees'
      BY <1>1, <1>2, <1>3, <1>4, <1>8 DEF FreshTrees
  <2>4. QED  BY <2>2, <2>3 DEF Fresh
<1>9. ASSUME NEW key \in Key, PickKey(key) PROVE Fresh'
  <2>1. UNCHANGED <<symtab, started>>
      BY <1>9, PickFacts
  <2>2. /\ DOMAIN stack' = DOMAIN stack /\ Len(stack') = Len(stack)
        /\ \A p \in DOMAIN stack : stack'[p].node = stack[p].node /\ stack'[p].child = stack[p].child
      BY <1>9, PickShape
  <2>3. QED  BY <1>8, <2>1, <2>2
<1>10. CASE Substitute
  <2>1. UNCHANGED <<symtab, started, stack>>
      BY <1>10, SubstituteFacts
  <2>2. QED  BY <1>8, <2>1
<1>11. CASE Abandon
    BY <1>8, <1>11, AbandonFacts
<1>12. CASE Store
  <2>1. /\ stack # <<>> /\ current # NoValue /\ UNCHANGED <<started, stack>>
        /\ DOMAIN symtab' = Node /\ \A n \in Node : n # Here => symtab'[n] = symtab[n]
      BY <1>12, StoreFacts, StoreShape
  <2>2. \A n \in Untouched : n # Here => n \in Untouched'
      BY <1>3, <2>1 DEF Untouched
  <2>3. /\ Len(stack) \in Nat \ {0} /\ DOMAIN stack = 1..Len(stack) /\ Top = stack[Len(stack)]
        /\ Here \in Node /\ Kids(Len(stack)) = children[Here] /\ children[Here] \in Seq(Node)
        /\ Top.child \in 1..(Len(children[Here]) + 1) /\ Top.child > Len(children[Here])
      BY <2>1, OnTop DEF Inv, Calls, Worked, children
  <2>4. ASSUME NEW a \in Node, NEW b \in Node, parent[a] = parent[b], a # b, Here \in Under[a], Under[b] \subseteq Untouched
        PROVE  Under[b] \subseteq Untouched'
    <3>1. Here \notin Under[b]
        BY <1>1, <2>4, Disjoint
    <3>2. QED  BY <2>2, <2>4, <3>1
  <2>5. FreshCallers'
    <3>1. ASSUME NEW p \in DOMAIN stack, p < Len(stack) \/ stack[p].child <= Len(Kids(p))
          PROVE  stack[p].node \in Untouched'
      <4>1. p \in 1..(Len(stack) - 1)
          BY <2>3, <3>1
      <4>2. stack[p].node # Here
          BY <2>1, <4>1, ChainCallers
      <4>3. QED  BY <1>1, <2>2, <3>1, <4>2 DEF FreshCallers
    <3>2. \A p : Kids(p)' = Kids(p)
        BY <1>2, <2>1 DEF Kids
    <3>3. QED  BY <2>1, <3>1, <3>2 DEF FreshCallers
  <2>6. FreshBelow'
    <3>1. ASSUME NEW p \in DOMAIN stack, NEW j \in DOMAIN Kids(p), j >= stack[p].child
          PROVE  Under[Kids(p)[j]] \subseteq Untouched'
      <4>1. p \in 1..(Len(stack) - 1)
        <5>1. ASSUME p = Len(stack) PROVE FALSE
          <6>1. j \in 1..Len(children[Here]) /\ Len(children[Here]) \in Nat
              BY <2>3, <5>1
          <6>2. j >= Top.child /\ Top.child > Len(children[Here]) /\ Top.child \in Nat
              BY <2>3, <3>1, <5>1, <6>1
          <6>3. QED  BY <6>1, <6>2
        <5>2. QED  BY <2>3, <5>1
      <4> DEFINE a == stack[p + 1].node
                 b == Kids(p)[j]
                 c == stack[p].child - 1
      <4>2. /\ stack[p].node \in Node /\ Kids(p) \in Seq(Node) /\ Kids(p) = children[stack[p].node]
            /\ c \in DOMAIN Kids(p) /\ a = Kids(p)[c] /\ Here \in Under[a] /\ parent[a] = stack[p].node
          BY <2>1, <4>1, Chain, ChainCallers DEF Kids, children
      <4>3. c # j
        <5>1. stack[p].child \in Int /\ j \in Int
          <6>1. stack \in Seq(Frame)
              BY DEF Inv, TypeOK
          <6>2. stack[p] \in Frame
              BY <3>1, <6>1
          <6>3. stack[p].child \in Nat
              BY <6>2, Records
          <6>4. j \in 1..Len(Kids(p)) /\ Len(Kids(p)) \in Nat
              BY <3>1, <4>2
          <6>5. QED  BY <6>3, <6>4
        <5>2. QED  BY <3>1, <5>1
      <4>4. a # b
        <5>1. IsInjective(children[stack[p].node])
            BY <1>1, <4>2, Forest
        <5>2. QED  BY <4>2, <4>3, <5>1 DEF IsInjective
      <4>5. a \in Node /\ b \in Node /\ parent[b] = stack[p].node
        <5>1. b \in Range(children[stack[p].node])
            BY <4>2 DEF Range
        <5>2. QED  BY <1>1, <4>2, <5>1, Forest
      <4>6. Under[b] \subseteq Untouched
          BY <1>1, <3>1 DEF FreshBelow
      <4> HIDE DEF a, b, c
      <4>7. Under[b] \subseteq Untouched'
          BY <2>4, <4>2, <4>4, <4>5, <4>6
      <4>8. QED  BY <4>7 DEF b
    <3>2. \A p : Kids(p)' = Kids(p)
        BY <1>2, <2>1 DEF Kids
    <3>3. QED  BY <1>3, <2>1, <3>1, <3>2 DEF FreshBelow
  <2>7. FreshTrees'
    <3>1. ASSUME NEW j \in DOMAIN forest.roots, j > started PROVE Under[forest.roots[j]] \subseteq Untouched'
      <4> DEFINE a == stack[1].node
                 b == forest.roots[j]
      <4>1. a = forest.roots[started] /\ started \in DOMAIN forest.roots /\ parent[a] = 0 /\ Here \in Under[a]
          BY <2>1, <2>3, Chain, ChainCallers
      <4>2. a \in Node /\ b \in Node /\ parent[b] = 0
          BY <1>1, <4>1, Forest
      <4>3. started # j
          BY <1>1, <3>1
      <4>4. a # b
        <5>1. IsInjective(forest.roots)
            BY <1>1, Forest
        <5>2. QED  BY <4>1, <4>3, <5>1 DEF IsInjective
      <4>5. Under[b] \subseteq Untouched
          BY <1>1, <3>1 DEF FreshTrees
      <4> HIDE DEF a, b
      <4>6. Under[b] \subseteq Untouched'
          BY <2>4, <4>1, <4>2, <4>4, <4>5
      <4>7. QED  BY <4>6 DEF b
    <3>2. QED  BY <1>2, <1>3, <2>1, <3>1 DEF FreshTrees
  <2>8. QED  BY <2>5, <2>6, <2>7 DEF Fresh
<1>13. CASE Return
  <2>1. UNCHANGED <<symtab, started>> /\ stack # <<>>
      BY <1>13, ReturnFacts
  <2>2. /\ Len(stack') = Len(stack) - 1 /\ DOMAIN stack' = 1..(Len(stack) - 1) /\ Len(stack) \in Nat \ {0}
        /\ \A p \in 1..(Len(stack) - 1) : stack'[p] = stack[p]
      BY <1>13, ReturnShape
  <2>3. \A p \in 1..(Len(stack) - 1) : p \in DOMAIN stack /\ p < Len(stack) /\ Kids(p)' = Kids(p)
    <3>1. \A p \in 1..(Len(stack) - 1) : p \in DOMAIN stack /\ p < Len(stack)
        BY <2>1, <2>2, OnTop
    <3>2. QED  BY <1>2, <2>2, <3>1 DEF Kids
  <2>4. FreshCallers' /\ FreshBelow'
    <3>1. FreshCallers'
        BY <1>1, <1>3, <1>4, <2>1, <2>2, <2>3, SMTT(40) DEF FreshCallers
    <3>2. FreshBelow'
        BY <1>1, <1>3, <1>4, <2>1, <2>2, <2>3, SMTT(40) DEF FreshBelow
    <3>3. QED  BY <3>1, <3>2
  <2>5. FreshTrees'
      BY <1>1, <1>2, <1>3, <1>4, <2>1 DEF FreshTrees
  <2>6. QED  BY <2>4, <2>5 DEF Fresh
<1>14. QED  BY <1>6, <1>7, <1>9, <1>10, <1>11, <1>12, <1>13 DEF Next
-----------------------------------------------------------------------------
(* A node is as it was read when it is come to, and when it is come back to.   *)
LEMMA FreshNodes ==
    ASSUME Inv
    PROVE  /\ StartTree => symtab[forest.roots[started + 1]] = given[forest.roots[started + 1]]
           /\ CallChild => symtab[children[Here][Top.child]] = given[children[Here][Top.child]]
           /\ \A p \in 1..(Len(stack) - 1) : symtab[stack[p].node] = given[stack[p].node]
<1>1. forest \in Forests /\ FreshCallers /\ FreshBelow /\ FreshTrees /\ started \in 0..Len(forest.roots) /\ stack \in Seq(Frame)
    BY DEF Inv, TypeOK, Fresh
<1>2. \A n \in Node : Under[n] \subseteq Untouched => symtab[n] = given[n]
    BY <1>1, UnderFacts DEF Untouched
<1>3. ASSUME StartTree PROVE symtab[forest.roots[started + 1]] = given[forest.roots[started + 1]]
  <2>1. started + 1 \in DOMAIN forest.roots /\ started \in Nat /\ forest.roots[started + 1] \in Node
      BY <1>3, StartFacts
  <2>2. Under[forest.roots[started + 1]] \subseteq Untouched
      BY <1>1, <2>1 DEF FreshTrees
  <2>3. QED  BY <1>2, <2>1, <2>2
<1>4. ASSUME CallChild PROVE symtab[children[Here][Top.child]] = given[children[Here][Top.child]]
  <2>1. stack # <<>> /\ Top.child \in DOMAIN children[Here] /\ children[Here][Top.child] \in Node
      BY <1>4, CallShape
  <2>2. /\ Len(stack) \in DOMAIN stack /\ Top = stack[Len(stack)] /\ Kids(Len(stack)) = children[Here]
        /\ Top.child \in Nat
      BY <2>1, OnTop
  <2>3. Top.child >= Top.child
      BY <2>2
  <2>4. Under[children[Here][Top.child]] \subseteq Untouched
      BY <1>1, <2>1, <2>2, <2>3 DEF FreshBelow
  <2>5. QED  BY <1>2, <2>1, <2>4
<1>5. ASSUME NEW p \in 1..(Len(stack) - 1) PROVE symtab[stack[p].node] = given[stack[p].node]
  <2>1. p \in DOMAIN stack /\ p < Len(stack)
      BY <1>1
  <2>2. stack[p].node \in Untouched
      BY <1>1, <2>1 DEF FreshCallers
  <2>3. QED  BY <2>2 DEF Untouched
<1>6. QED  BY <1>3, <1>4, <1>5

(* What a reference is replaced by resolves if and only if it does.           *)
LEMMA SameReference ==
    ASSUME Inv, stack # <<>>, NEW piece \in Piece, IsReference(piece), Resolves(Here, piece), NEW C \in Steady[Here]
    PROVE  Fit(C, Resolved(Here, piece)) <=> Fit(C, <<piece>>)
<1> DEFINE by == Resolved(Here, piece)
<1>1. TypeOK /\ forest \in Forests /\ Here \in Node /\ SameValues
    BY OnTop DEF Inv, TypeOK
<1>2. Fit(C, <<piece>>) <=> piece.op # "malformed" /\ (piece.op = "ref" => piece.arg \in C)
  <2>1. Range(<<piece>>) = {piece}
      BY RangeOfShort
  <2>2. QED  BY <2>1 DEF Fit
<1>3. \/ piece.op # "ref" /\ piece.op # "malformed" /\ Fit(C, by)
      \/ /\ piece.op = "ref" /\ piece.arg \in Key
         /\ Owner(Here, piece.arg) # 0
         /\ Owner(Here, piece.arg) \in Node /\ piece.arg \in DOMAIN given[Owner(Here, piece.arg)]
         /\ by = Format(symtab[Owner(Here, piece.arg)][piece.arg])
    BY <1>1, ResolvedFit
<1> HIDE DEF by
<1>4. CASE piece.op # "ref" /\ piece.op # "malformed" /\ Fit(C, by)
    BY <1>2, <1>4 DEF by
<1>5. CASE /\ piece.op = "ref" /\ piece.arg \in Key
           /\ Owner(Here, piece.arg) # 0
           /\ Owner(Here, piece.arg) \in Node /\ piece.arg \in DOMAIN given[Owner(Here, piece.arg)]
           /\ by = Format(symtab[Owner(Here, piece.arg)][piece.arg])
  <2> DEFINE k == piece.arg
             m == Owner(Here, k)
  <2>1. /\ k \in Key /\ m # 0 /\ m \in Node /\ k \in DOMAIN given[m] /\ by = Format(symtab[m][k])
      BY <1>5
  <2>2. m \in Callers[Here]
      BY <1>1, <2>1, OwnerFacts
  <2>3. ValuesOf(Here, k) = Range(given[m][k])
      BY <2>1 DEF ValuesOf, given
  <2>4. k \in C <=> \A v \in ValuesOf(Here, k) : Fit(C, v)
      BY <1>1, <2>1 DEF Steady, Inductive, Sufficient
  <2> HIDE DEF k, m
  <2>5. /\ symtab[m][k] \in Seq(Value) /\ DOMAIN symtab[m][k] = DOMAIN given[m][k]
    <3>1. /\ symtab[m] \in [DOMAIN given[m] -> Seq(Value)]
          /\ \A j \in DOMAIN symtab[m] : Len(symtab[m][j]) = Len(given[m][j])
        BY <1>1, <2>1 DEF TypeOK, given
    <3>2. given[m][k] \in Seq(Value)
        BY <1>1, <2>1, OwnValues
    <3>3. symtab[m][k] \in Seq(Value) /\ Len(symtab[m][k]) = Len(given[m][k])
        BY <2>1, <3>1
    <3>4. QED  BY <3>2, <3>3
  <2>6. Fit(C, by) <=> \A i \in DOMAIN symtab[m][k] : Fit(C, symtab[m][k][i])
      BY <2>1, <2>5, Formatted
  <2>7. \A i \in DOMAIN given[m][k] : Fit(C, symtab[m][k][i]) <=> Fit(C, given[m][k][i])
    <3>1. CASE m = Here
        BY <1>1, <2>1, <3>1 DEF SameValues
    <3>2. CASE m # Here
      <4>1. PICK p \in DOMAIN stack : m = stack[p].node
          BY <2>2, ChainCallers
      <4>2. p \in 1..(Len(stack) - 1)
          BY <3>2, <4>1, OnTop
      <4>3. symtab[m] = given[m]
          BY <4>1, <4>2, FreshNodes
      <4>4. QED  BY <4>3
    <3>3. QED  BY <3>1, <3>2
  <2>8. (\A v \in ValuesOf(Here, k) : Fit(C, v)) <=> \A i \in DOMAIN given[m][k] : Fit(C, given[m][k][i])
      BY <2>3 DEF Range
  <2>9. Fit(C, by) <=> k \in C
      BY <2>4, <2>5, <2>6, <2>7, <2>8
  <2>10. piece.op = "ref" /\ piece.arg = k
      BY <1>5 DEF k
  <2>11. QED  BY <1>2, <2>9, <2>10 DEF by
<1>6. QED  BY <1>3, <1>4, <1>5

LEMMA SameStep == ASSUME Inv, Next PROVE SameValues' /\ SameCurrent'
<1>1. SameValues /\ SameCurrent /\ UNCHANGED forest
    BY TypeStep DEF Inv
<1>2. given' = given /\ Steady' = Steady
    BY <1>1, SameForest
<1>3. current' = NoValue => SameCurrent'
    BY DEF SameCurrent
<1>4. symtab' = symtab /\ stack # <<>> /\ Here' = Here => SameValues'
    BY <1>1, <1>2 DEF SameValues
<1>5. symtab' = symtab /\ symtab[Here'] = given[Here'] => SameValues'
    BY <1>2 DEF SameValues
<1>6. CASE StartTree
  <2>1. symtab' = symtab /\ current' = NoValue /\ (stack' = <<>> \/ Here' = forest.roots[started + 1])
      BY <1>6, StartShape, StartFacts
  <2>2. CASE stack' = <<>>
      BY <1>3, <2>1, <2>2 DEF SameValues
  <2>3. CASE Here' = forest.roots[started + 1]
      BY <1>3, <1>5, <1>6, <2>1, <2>3, FreshNodes
  <2>4. QED  BY <2>1, <2>2, <2>3
<1>7. CASE CallChild
  <2>1. /\ symtab' = symtab /\ current' = NoValue /\ stack # <<>>
        /\ Here' = Here \/ Here' = children[Here][Top.child]
      BY <1>7, CallShape
  <2>2. QED  BY <1>3, <1>4, <1>5, <1>7, <2>1, FreshNodes
<1>8. ASSUME NEW key \in Key, PickKey(key) PROVE SameValues' /\ SameCurrent'
  <2>1. /\ symtab' = symtab /\ stack # <<>> /\ Here' = Here /\ key \in DOMAIN given[Here]
        /\ \/ current' = NoValue
           \/ /\ symtab[Here][key] # <<>>
              /\ current' = [key |-> key, index |-> 1, value |-> symtab[Here][key][1]]
      BY <1>8, PickFacts, PickShape
  <2>2. SameValues'
      BY <1>4, <2>1
  <2>3. CASE symtab[Here][key] # <<>> /\ current' = [key |-> key, index |-> 1, value |-> symtab[Here][key][1]]
    <3>1. symtab[Here][key] \in Seq(Value) /\ Len(symtab[Here][key]) = Len(given[Here][key]) /\ given[Here][key] \in Seq(Value)
      <4>1. forest \in Forests /\ Here \in Node
          BY <2>1, Facts
      <4>2. QED  BY <2>1, <4>1, Facts, OwnValues
    <3>2. 1 \in DOMAIN given[Here][key]
        BY <2>3, <3>1
    <3>3. \A S \in Steady[Here] : Fit(S, symtab[Here][key][1]) <=> Fit(S, given[Here][key][1])
        BY <1>1, <2>1, <3>2 DEF SameValues
    <3>4. current'.key = key /\ current'.index = 1 /\ current'.value = symtab[Here][key][1]
        BY <2>3
    <3>5. SameCurrent'
        BY <1>2, <2>1, <3>3, <3>4 DEF SameCurrent
    <3>6. QED  BY <2>2, <3>5
  <2>4. QED  BY <1>3, <2>1, <2>2, <2>3
<1>9. CASE Substitute
  <2> DEFINE piece == NextReference(current.value)
             by == Resolved(Here, piece)
  <2>1. /\ stack # <<>> /\ current # NoValue /\ UNCHANGED <<symtab, stack>>
        /\ current.value \in Value /\ HasReference(current.value)
        /\ piece \in Piece /\ IsReference(piece) /\ Resolves(Here, piece) /\ by \in Value
      BY <1>9, SubstituteFacts
  <2>2. PICK v \in Substituted(current.value, piece, by) :
          current' = [key |-> current.key, index |-> current.index, value |-> v]
      BY <1>9, SubstituteFacts
  <2>3. \A C \in Steady[Here] : Fit(C, by) <=> Fit(C, <<piece>>)
      BY <2>1, SameReference
  <2>4. \A C : Fit(C, current.value) => Fit(C, <<piece>>)
    <3>1. \E j \in DOMAIN current.value : piece = current.value[j]
        BY <2>1, NextPiece
    <3>2. piece \in Range(current.value) /\ Range(<<piece>>) = {piece}
        BY <3>1, RangeOfShort DEF Range
    <3>3. QED  BY <3>2 DEF Fit
  <2>5. \A C : /\ Fit(C, current.value) /\ Fit(C, by) => Fit(C, v)
               /\ Fit(C, v) => Fit(C, by)
               /\ Fit(C, v) /\ Fit(C, <<piece>>) => Fit(C, current.value)
      BY <2>1, <2>2, SubstitutedFit
  <2>6. \A C \in Steady[Here] : Fit(C, v) <=> Fit(C, current.value)
    <3> HIDE DEF piece, by
    <3>1. QED  BY <2>3, <2>4, <2>5
  <2>7. Here' = Here
      BY <2>1 DEF Here, Top
  <2>8. current'.key = current.key /\ current'.index = current.index /\ current'.value = v
      BY <2>2
  <2>9. SameCurrent'
      BY <1>1, <1>2, <2>1, <2>6, <2>7, <2>8 DEF SameCurrent
  <2>10. QED  BY <1>4, <2>1, <2>7, <2>9
<1>10. CASE Abandon
  <2>1. symtab' = symtab /\ stack' = stack /\ stack # <<>> /\ current' = NoValue
      BY <1>10, AbandonFacts
  <2>2. Here' = Here
      BY <2>1 DEF Here, Top
  <2>3. QED  BY <1>3, <1>4, <2>1, <2>2
<1>11. CASE Store
  <2> DEFINE k == current.key
             i == current.index
  <2>1. /\ stack # <<>> /\ current # NoValue /\ stack' = stack /\ i \in 1..Len(symtab[Here][k])
        /\ symtab[Here][k] \in Seq(Value)
        /\ \/ current' = NoValue
           \/ i < Len(symtab[Here][k]) /\ current' = [key |-> k, index |-> i + 1, value |-> symtab[Here][k][i + 1]]
      BY <1>11, StoreFacts
  <2>2. /\ k \in DOMAIN given[Here]
        /\ \A j \in DOMAIN given[Here] : j # k => symtab'[Here][j] = symtab[Here][j]
        /\ symtab'[Here][k][i] = current.value
        /\ \A j \in DOMAIN symtab[Here][k] : j # i => symtab'[Here][k][j] = symtab[Here][k][j]
      BY <1>11, StoreShape
  <2>3. Here' = Here
      BY <2>1 DEF Here, Top
  <2>4. given[Here][k] \in Seq(Value) /\ Len(symtab[Here][k]) = Len(given[Here][k]) /\ DOMAIN symtab[Here][k] = DOMAIN given[Here][k]
    <3>1. forest \in Forests /\ Here \in Node /\ Len(symtab[Here][k]) = Len(given[Here][k])
        BY <2>1, <2>2, Facts
    <3>2. given[Here][k] \in Seq(Value)
        BY <2>2, <3>1, OwnValues
    <3>3. QED  BY <2>1, <3>1, <3>2
  <2>5. \A C \in Steady[Here] : Fit(C, current.value) <=> Fit(C, given[Here][k][i])
      BY <1>1, <2>1 DEF SameCurrent
  <2>6. \A C \in Steady[Here] : \A a \in DOMAIN given[Here] : \A j \in DOMAIN given[Here][a] : Fit(C, symtab[Here][a][j]) <=> Fit(C, given[Here][a][j])
      BY <1>1, <2>1 DEF SameValues
  <2> HIDE DEF k, i
  <2>7. ASSUME NEW C \in Steady[Here], NEW a \in DOMAIN given[Here], NEW j \in DOMAIN given[Here][a]
        PROVE  Fit(C, symtab'[Here][a][j]) <=> Fit(C, given[Here][a][j])
    <3>1. CASE a # k
        BY <2>2, <2>6, <3>1
    <3>2. CASE a = k /\ j # i
        BY <2>2, <2>4, <2>6, <3>2
    <3>3. CASE a = k /\ j = i
        BY <2>2, <2>5, <3>3
    <3>4. QED  BY <3>1, <3>2, <3>3
  <2>8. SameValues'
      BY <1>2, <2>3, <2>7 DEF SameValues
  <2>9. CASE i < Len(symtab[Here][k]) /\ current' = [key |-> k, index |-> i + 1, value |-> symtab[Here][k][i + 1]]
    <3>1. i + 1 \in DOMAIN given[Here][k]
        BY <2>1, <2>4, <2>9
    <3>2. \A C \in Steady[Here] : Fit(C, symtab[Here][k][i + 1]) <=> Fit(C, given[Here][k][i + 1])
        BY <2>2, <2>6, <3>1
    <3>3. current'.key = k /\ current'.index = i + 1 /\ current'.value = symtab[Here][k][i + 1]
        BY <2>9
    <3>4. SameCurrent'
        BY <1>2, <2>3, <3>2, <3>3 DEF SameCurrent
    <3>5. QED  BY <2>8, <3>4
  <2>10. QED  BY <1>3, <2>1, <2>8, <2>9 DEF k, i
<1>12. CASE Return
  <2>1. symtab' = symtab /\ current' = NoValue
      BY <1>12, ReturnFacts
  <2>2. CASE stack' = <<>>
      BY <1>3, <2>1, <2>2 DEF SameValues
  <2>3. CASE stack' # <<>>
    <3>1. Here' = stack[Len(stack) - 1].node /\ Len(stack) - 1 \in 1..(Len(stack) - 1)
        BY <1>12, <2>3, ReturnShape
    <3>2. symtab[Here'] = given[Here']
        BY <3>1, FreshNodes
    <3>3. QED  BY <1>3, <1>5, <2>1, <3>2
  <2>4. QED  BY <2>2, <2>3
<1>13. QED  BY <1>6, <1>7, <1>8, <1>9, <1>10, <1>11, <1>12 DEF Next
-----------------------------------------------------------------------------
(* What is returned from is as it should be, with all below it.               *)
LEMMA ReturnedFinished ==
    ASSUME Inv, Return, nerrors = 0
    PROVE  Under[Here] \subseteq Finished
<1>1. /\ stack # <<>> /\ current = NoValue /\ Top.left = {} /\ Top.child > Len(children[Here])
      /\ forest \in Forests /\ GoodBelow /\ GoodValues /\ SameValues /\ TypeOK
    BY ReturnFacts DEF Inv, TypeOK, GoodSoFar
<1>2. /\ Len(stack) \in DOMAIN stack /\ Top = stack[Len(stack)] /\ Here = stack[Len(stack)].node /\ Here \in Node
      /\ Kids(Len(stack)) = children[Here] /\ children[Here] \in Seq(Node)
      /\ Top.child \in 1..(Len(children[Here]) + 1)
    BY <1>1, OnTop
<1>3. \A k \in DOMAIN given[Here] :
        /\ k \in Key /\ given[Here][k] \in Seq(Value) /\ ValuesOf(Here, k) = Range(given[Here][k]) /\ Owner(Here, k) = Here
        /\ symtab[Here][k] \in Seq(Value) /\ Len(symtab[Here][k]) = Len(given[Here][k])
    BY <1>1, <1>2, OwnValues, Facts
<1>4. \A k \in DOMAIN given[Here] : \A i \in DOMAIN given[Here][k] : ~HasReference(symtab[Here][k][i])
    BY <1>1 DEF GoodValues
<1>5. ASSUME NEW S \in Steady[Here] PROVE DOMAIN given[Here] \subseteq S
  <2> SUFFICES ASSUME NEW k \in DOMAIN given[Here] PROVE k \in S
      OBVIOUS
  <2>1. ASSUME NEW i \in DOMAIN given[Here][k] PROVE Fit(S, given[Here][k][i])
    <3>1. symtab[Here][k][i] \in Value /\ ~HasReference(symtab[Here][k][i])
        BY <1>3, <1>4
    <3>2. Fit(S, symtab[Here][k][i])
        BY <3>1, NoReference
    <3>3. QED  BY <1>1, <3>2 DEF SameValues
  <2>2. \A v \in ValuesOf(Here, k) : Fit(S, v)
      BY <1>3, <2>1 DEF Range
  <2>3. Owner(Here, k) # 0 /\ k \in Key
      BY <1>1, <1>2, <1>3, Forest
  <2>4. QED  BY <1>2, <2>2, <2>3 DEF Steady, Inductive
<1>6. Here \in Finished
  <2>1. DOMAIN given[Here] \subseteq Clear[Here] /\ DOMAIN given[Here] \subseteq Grounded[Here]
      BY <1>1, <1>2, <1>5, ClearSteady, GroundedSteady
  <2>2. Here \in forest.named
      BY <1>1, <1>2 DEF GoodBelow
  <2>3. Here \in Passing
      BY <1>1, <1>2, <2>1, <2>2, ResolvableIfClear DEF Passing
  <2>4. Here \in Sound
      BY <1>2, <2>1 DEF Sound
  <2>5. QED  BY <1>4, <2>3, <2>4 DEF Finished
<1>7. ASSUME NEW c \in Range(children[Here]) PROVE Under[c] \subseteq Finished
  <2>1. PICK j \in DOMAIN children[Here] : c = children[Here][j]
      BY DEF Range
  <2>2. j \in 1..(Top.child - 1)
      BY <1>1, <1>2, <2>1
  <2>3. QED  BY <1>1, <1>2, <2>1, <2>2 DEF GoodBelow
<1>8. QED  BY <1>1, <1>2, <1>6, <1>7, UnderFacts

(* What is finished stays so: all that is stored is free of references.        *)
LEMMA FinishedStays == ASSUME Inv, Next PROVE Finished \subseteq Finished'
<1>1. UNCHANGED forest
    BY TypeStep
<1>2. given' = given /\ Passing' = Passing
    BY <1>1, SameForest
<1>3. Sound' = Sound
    BY <1>1, SameForest
<1>4. symtab' = symtab => Finished' = Finished
    BY <1>2, <1>3 DEF Finished
<1>5. CASE Store
  <2> DEFINE k == current.key
             i == current.index
  <2>1. /\ \A n \in Node : n # Here => symtab'[n] = symtab[n]
        /\ \A j \in DOMAIN given[Here] : j # k => symtab'[Here][j] = symtab[Here][j]
        /\ symtab'[Here][k][i] = current.value /\ ~HasReference(current.value)
        /\ \A j \in DOMAIN symtab[Here][k] : j # i => symtab'[Here][k][j] = symtab[Here][k][j]
        /\ stack # <<>> /\ k \in DOMAIN given[Here] /\ symtab[Here][k] \in Seq(Value)
      BY <1>5, StoreFacts, StoreShape
  <2>2. DOMAIN symtab[Here][k] = DOMAIN given[Here][k]
    <3>1. forest \in Forests /\ Here \in Node /\ Len(symtab[Here][k]) = Len(given[Here][k])
        BY <2>1, Facts
    <3>2. given[Here][k] \in Seq(Value)
        BY <2>1, <3>1, OwnValues
    <3>3. QED  BY <2>1, <3>1, <3>2
  <2> HIDE DEF k, i
  <2>3. ASSUME NEW n \in Finished, NEW a \in DOMAIN given[n], NEW j \in DOMAIN given[n][a]
        PROVE  ~HasReference(symtab'[n][a][j])
    <3>1. n \in Node /\ ~HasReference(symtab[n][a][j])
        BY DEF Finished, Passing
    <3>2. CASE n # Here
        BY <2>1, <3>1, <3>2
    <3>3. CASE n = Here /\ a # k
        BY <2>1, <3>1, <3>3
    <3>4. CASE n = Here /\ a = k
        BY <2>1, <2>2, <3>1, <3>4
    <3>5. QED  BY <3>2, <3>3, <3>4
  <2>4. \A n \in Finished : n \in Passing /\ n \in Sound
      BY DEF Finished
  <2>5. QED  BY <1>2, <1>3, <2>3, <2>4 DEF Finished
<1>6. CASE ~Store
  <2>1. symtab' = symtab
      BY <1>6, StartShape, CallShape, PickFacts, SubstituteFacts, AbandonFacts, ReturnFacts DEF Next
  <2>2. QED  BY <1>4, <2>1
<1>7. QED  BY <1>5, <1>6

LEMMA GoodStep == ASSUME Inv, Next PROVE GoodSoFar'
<1>1. /\ TypeOK /\ GoodTrees /\ GoodBelow /\ GoodValues /\ UNCHANGED forest /\ nerrors \in Nat
    BY TypeStep DEF Inv, TypeOK, GoodSoFar
<1>2. given' = given /\ children' = children /\ Under' = Under /\ Finished \subseteq Finished'
    BY <1>1, SameForest, FinishedStays
<1>3. NoValue.index = 0
    BY ValueRecords
<1>4. ASSUME nerrors' = nerrors + 1 PROVE GoodSoFar'
  <2>1. nerrors' # 0
      BY <1>1, <1>4
  <2>2. QED  BY <2>1 DEF GoodSoFar, GoodTrees, GoodBelow, GoodValues
<1>5. CASE StartTree
  <2> DEFINE r == forest.roots[started + 1]
  <2> SUFFICES ASSUME /\ r \in forest.named /\ nerrors' = nerrors
                      /\ Len(stack') = 1 /\ DOMAIN stack' = {1} /\ stack' # <<>> /\ Here' = r
                      /\ stack'[1].node = r /\ stack'[1].child = 1 /\ stack'[1].left = DOMAIN given[r]
               PROVE  GoodSoFar'
      BY <1>4, <1>5, StartShape
  <2>1. stack = <<>> /\ started' = started + 1 /\ started \in Nat
      BY <1>5, StartFacts
  <2> HIDE DEF r
  <2>2. GoodTrees'
    <3>1. \A j \in 1..(started + 1) : j < started + 1 => j \in 1..started
        BY <2>1
    <3>2. QED  BY <1>1, <1>2, <2>1, <3>1 DEF GoodTrees
  <2>3. GoodBelow'
    <3>1. \A p \in DOMAIN stack' : stack'[p].node \in forest.named /\ 1..(stack'[p].child - 1) = {}
        OBVIOUS
    <3>2. QED  BY <1>1, <3>1 DEF GoodBelow
  <2>4. GoodValues'
    <3>1. Top' = stack'[1]
        BY DEF Top, Last
    <3>2. DOMAIN given[r] \ Top'.left = {}
        BY <3>1
    <3>3. QED  BY <1>2, <3>2 DEF GoodValues
  <2>5. QED  BY <2>2, <2>3, <2>4 DEF GoodSoFar
<1>6. CASE CallChild
  <2> DEFINE L == Len(stack)
             n == children[Here][Top.child]
  <2>1. /\ UNCHANGED started /\ n \in Node /\ stack # <<>> /\ stack' # <<>>
        /\ \A p \in 1..(L - 1) : stack'[p] = stack[p]
        /\ stack'[L].node = Here /\ stack'[L].child = Top.child + 1
        /\ \/ /\ n \in forest.named /\ nerrors' = nerrors
              /\ Len(stack') = L + 1 /\ DOMAIN stack' = 1..(L + 1) /\ Here' = n
              /\ stack'[L + 1].node = n /\ stack'[L + 1].child = 1 /\ stack'[L + 1].left = DOMAIN given[n]
           \/ nerrors' = nerrors + 1
      BY <1>6, CallShape
  <2> SUFFICES ASSUME /\ n \in forest.named /\ nerrors' = nerrors
                      /\ Len(stack') = L + 1 /\ DOMAIN stack' = 1..(L + 1) /\ Here' = n
                      /\ stack'[L + 1].node = n /\ stack'[L + 1].child = 1 /\ stack'[L + 1].left = DOMAIN given[n]
               PROVE  GoodSoFar'
      BY <1>4, <2>1
  <2>2. /\ L \in Nat \ {0} /\ DOMAIN stack = 1..L /\ Top = stack[L] /\ Here = stack[L].node
        /\ Kids(L) = children[Here] /\ Top.child \in Nat
      BY <2>1, OnTop
  <2>3. GoodTrees'
      BY <1>1, <1>2, <2>1 DEF GoodTrees
  <2>4. GoodValues'
    <3>1. Top' = stack'[L + 1]
        BY DEF Top, Last
    <3>2. DOMAIN given[n] \ Top'.left = {}
        BY <3>1
    <3>3. QED  BY <1>2, <3>2 DEF GoodValues
  <2> HIDE DEF L, n
  <2>5. ASSUME NEW p \in DOMAIN stack', nerrors = 0
        PROVE  /\ stack'[p].node \in forest.named
               /\ \A j \in 1..(stack'[p].child - 1) :
                    p = Len(stack') \/ j < stack'[p].child - 1 => Under[children[stack'[p].node][j]] \subseteq Finished
    <3>1. CASE p \in 1..(L - 1)
      <4>1. p \in DOMAIN stack /\ stack'[p] = stack[p] /\ p # L + 1 /\ Kids(p) = children[stack[p].node]
          BY <2>1, <2>2, <3>1 DEF Kids, children
      <4>2. QED  BY <1>1, <2>5, <4>1 DEF GoodBelow
    <3>2. CASE p = L
      <4>1. L \in DOMAIN stack /\ L = Len(stack)
          BY <2>2 DEF L
      <4>2. Here \in forest.named /\ \A j \in 1..(Top.child - 1) : Under[children[Here][j]] \subseteq Finished
          BY <1>1, <2>2, <2>5, <4>1 DEF GoodBelow
      <4>3. \A j \in 1..((Top.child + 1) - 1) : j < (Top.child + 1) - 1 => j \in 1..(Top.child - 1)
          BY <2>2
      <4>4. p # Len(stack')
          BY <2>2, <3>2
      <4>5. QED  BY <2>1, <3>2, <4>2, <4>3, <4>4
    <3>3. CASE p = L + 1
      <4>1. 1..(stack'[p].child - 1) = {}
          BY <3>3
      <4>2. QED  BY <3>3, <4>1
    <3>4. QED  BY <2>2, <3>1, <3>2, <3>3
  <2>6. \A p : Kids(p)' = children[stack'[p].node]
      BY <1>1 DEF Kids, children
  <2>7. GoodBelow'
      BY <1>1, <1>2, <2>5, <2>6 DEF GoodBelow
  <2>8. QED  BY <2>3, <2>4, <2>7 DEF GoodSoFar
<1>7. ASSUME UNCHANGED <<nerrors, started>>, stack # <<>>, stack' # <<>>, DOMAIN stack' = DOMAIN stack, Len(stack') = Len(stack),
             \A p \in DOMAIN stack : stack'[p].node = stack[p].node /\ stack'[p].child = stack[p].child
      PROVE  GoodTrees' /\ GoodBelow'
  <2>1. \A p \in DOMAIN stack : Kids(p)' = Kids(p)
      BY <1>1, <1>7 DEF Kids
  <2>2. GoodTrees'
      BY <1>1, <1>2, <1>7 DEF GoodTrees
  <2>3. GoodBelow'
      BY <1>1, <1>2, <1>7, <2>1 DEF GoodBelow
  <2>4. QED  BY <2>2, <2>3
<1>8. ASSUME NEW key \in Key, PickKey(key) PROVE GoodSoFar'
  <2>1. /\ UNCHANGED <<symtab, started, nerrors>> /\ stack # <<>> /\ current = NoValue /\ key \in DOMAIN given[Here]
        /\ \/ symtab[Here][key] = <<>> /\ current' = NoValue
           \/ current' = [key |-> key, index |-> 1, value |-> symtab[Here][key][1]]
      BY <1>8, PickFacts
  <2>2. /\ stack' # <<>> /\ Len(stack') = Len(stack) /\ DOMAIN stack' = DOMAIN stack /\ Here' = Here
        /\ \A p \in DOMAIN stack : stack'[p].node = stack[p].node /\ stack'[p].child = stack[p].child
        /\ Top'.left = Top.left \ {key}
      BY <1>8, PickShape
  <2>3. GoodTrees' /\ GoodBelow'
      BY <1>7, <2>1, <2>2
  <2>4. \A i \in DOMAIN given[Here][key] : i \in Nat \ {0} /\ symtab[Here][key] # <<>>
    <3>1. /\ forest \in Forests /\ Here \in Node /\ symtab[Here][key] \in Seq(Value)
          /\ Len(symtab[Here][key]) = Len(given[Here][key])
        BY <1>1, <2>1, Facts DEF TypeOK
    <3>2. given[Here][key] \in Seq(Value)
        BY <2>1, <3>1, OwnValues
    <3>3. QED  BY <3>1, <3>2
  <2>5. ASSUME nerrors = 0, NEW k \in DOMAIN given[Here] \ Top'.left, NEW i \in DOMAIN given[Here][k],
               current' = NoValue \/ current'.key # k \/ i < current'.index
        PROVE  ~HasReference(symtab[Here][k][i])
    <3>1. k # key
      <4> SUFFICES ASSUME k = key PROVE FALSE
          OBVIOUS
      <4>1. i \in Nat \ {0} /\ current' = [key |-> key, index |-> 1, value |-> symtab[Here][key][1]]
          BY <2>1, <2>4, <2>5
      <4>2. current'.key = key /\ current'.index = 1
          BY <4>1
      <4>3. current' # NoValue
          BY <1>3, <4>2
      <4>4. QED  BY <2>5, <4>1, <4>2, <4>3
    <3>2. k \in DOMAIN given[Here] \ Top.left
        BY <2>2, <3>1
    <3>3. QED  BY <1>1, <2>1, <2>5, <3>2 DEF GoodValues
  <2>6. GoodValues'
      BY <1>2, <2>1, <2>2, <2>5 DEF GoodValues
  <2>7. QED  BY <2>3, <2>6 DEF GoodSoFar
<1>9. CASE Substitute
  <2>1. stack # <<>> /\ current # NoValue /\ UNCHANGED <<symtab, started, stack, nerrors>>
      BY <1>9, SubstituteFacts
  <2>2. PICK v : current' = [key |-> current.key, index |-> current.index, value |-> v]
      BY <1>9, SubstituteFacts
  <2>3. current'.key = current.key /\ current'.index = current.index
      BY <2>2
  <2>4. current' # NoValue
    <3>1. current.index # 0
      <4>1. current.key \in DOMAIN given[Here] /\ current.index \in DOMAIN symtab[Here][current.key]
          BY <2>1, Facts
      <4>2. symtab[Here][current.key] \in Seq(Value)
          BY <2>1, <4>1, Facts
      <4>3. QED  BY <4>1, <4>2
    <3>2. QED  BY <2>3, <3>1, ValueRecords
  <2>5. Here' = Here /\ Top' = Top
      BY <2>1 DEF Here, Top
  <2>6. GoodValues'
      BY <1>1, <1>2, <2>1, <2>3, <2>4, <2>5 DEF GoodValues
  <2>7. QED  BY <1>7, <2>1, <2>6 DEF GoodSoFar
<1>10. CASE Abandon
    BY <1>4, <1>10, AbandonFacts
<1>11. CASE Store
  <2> DEFINE k == current.key
             i == current.index
  <2>1. /\ stack # <<>> /\ current # NoValue /\ ~HasReference(current.value) /\ UNCHANGED <<started, stack, nerrors>>
        /\ i \in 1..Len(symtab[Here][k]) /\ symtab[Here][k] \in Seq(Value)
        /\ \/ i = Len(symtab[Here][k]) /\ current' = NoValue
           \/ current' = [key |-> k, index |-> i + 1, value |-> symtab[Here][k][i + 1]]
      BY <1>11, StoreFacts
  <2>2. /\ k \in DOMAIN given[Here]
        /\ \A j \in DOMAIN given[Here] : j # k => symtab'[Here][j] = symtab[Here][j]
        /\ symtab'[Here][k][i] = current.value
        /\ \A j \in DOMAIN symtab[Here][k] : j # i => symtab'[Here][k][j] = symtab[Here][k][j]
      BY <1>11, StoreShape
  <2>3. DOMAIN symtab[Here][k] = DOMAIN given[Here][k] /\ DOMAIN symtab[Here][k] = 1..Len(symtab[Here][k])
    <3>1. forest \in Forests /\ Here \in Node /\ Len(symtab[Here][k]) = Len(given[Here][k])
        BY <2>1, <2>2, Facts
    <3>2. given[Here][k] \in Seq(Value)
        BY <2>2, <3>1, OwnValues
    <3>3. QED  BY <2>1, <3>1, <3>2
  <2>4. Here' = Here /\ Top' = Top
      BY <2>1 DEF Here, Top
  <2> HIDE DEF k, i
  <2>5. ASSUME nerrors = 0, NEW a \in DOMAIN given[Here] \ Top.left, NEW j \in DOMAIN given[Here][a],
               current' = NoValue \/ current'.key # a \/ j < current'.index
        PROVE  ~HasReference(symtab'[Here][a][j])
    <3>1. CASE a # k
        BY <1>1, <2>1, <2>2, <2>5, <3>1 DEF GoodValues, k
    <3>2. CASE a = k /\ j = i
        BY <2>1, <2>2, <3>2
    <3>3. CASE a = k /\ j # i
      <4>1. j \in 1..Len(symtab[Here][k]) /\ i \in Nat /\ Len(symtab[Here][k]) \in Nat
        <5>1. j \in DOMAIN symtab[Here][k]
            BY <2>3, <3>3
        <5>2. j \in 1..Len(symtab[Here][k])
            BY <2>3, <5>1
        <5>3. QED  BY <2>1, <5>2
      <4>2. j < i
        <5>1. CASE i = Len(symtab[Here][k])
            BY <3>3, <4>1, <5>1
        <5>2. CASE current' = [key |-> k, index |-> i + 1, value |-> symtab[Here][k][i + 1]]
          <6>1. current'.key = k /\ current'.index = i + 1
              BY <5>2
          <6>2. current' # NoValue
              BY <1>3, <4>1, <6>1
          <6>3. j < i + 1
              BY <2>5, <3>3, <6>1, <6>2
          <6>4. QED  BY <3>3, <4>1, <6>3
        <5>3. QED  BY <2>1, <5>1, <5>2
      <4>3. symtab'[Here][a][j] = symtab[Here][a][j]
          BY <2>2, <2>3, <3>3
      <4>4. QED  BY <1>1, <2>1, <2>5, <3>3, <4>2, <4>3 DEF GoodValues, k, i
    <3>4. QED  BY <3>1, <3>2, <3>3
  <2>6. GoodValues'
      BY <1>2, <2>1, <2>4, <2>5 DEF GoodValues
  <2>7. QED  BY <1>7, <2>1, <2>6 DEF GoodSoFar
<1>12. CASE Return
  <2>1. UNCHANGED <<symtab, started, current, nerrors>> /\ current = NoValue /\ stack # <<>>
      BY <1>12, ReturnFacts
  <2>2. /\ Len(stack') = Len(stack) - 1 /\ DOMAIN stack' = 1..(Len(stack) - 1) /\ Len(stack) \in Nat \ {0}
        /\ \A p \in 1..(Len(stack) - 1) : stack'[p] = stack[p]
        /\ stack' = <<>> <=> Len(stack) = 1
        /\ stack' # <<>> => Here' = stack[Len(stack) - 1].node /\ Top' = stack[Len(stack) - 1]
      BY <1>12, ReturnShape
  <2>3. nerrors = 0 => Under[Here] \subseteq Finished
      BY <1>12, ReturnedFinished
  <2>4. DOMAIN stack = 1..Len(stack) /\ Here = stack[Len(stack)].node
      BY <2>1, OnTop
  <2>5. \A p \in 1..(Len(stack) - 1) : p \in DOMAIN stack /\ p < Len(stack) /\ Kids(p)' = Kids(p)
    <3>1. \A p \in 1..(Len(stack) - 1) : p \in DOMAIN stack /\ p < Len(stack)
        BY <2>2, <2>4
    <3>2. QED  BY <1>1, <2>2, <3>1 DEF Kids
  <2>6. GoodTrees'
    <3>1. ASSUME nerrors = 0, NEW j \in 1..started, stack' = <<>> \/ j < started
          PROVE  Under[forest.roots[j]] \subseteq Finished
      <4>1. CASE j < started
          BY <1>1, <3>1, <4>1 DEF GoodTrees
      <4>2. CASE ~(j < started)
        <5>1. j = started /\ Len(stack) = 1
          <6>1. started \in DOMAIN forest.roots /\ forest.roots \in Seq(Node)
              BY <1>1, <2>1, Chain, Forest DEF TypeOK
          <6>2. started \in Nat
              BY <6>1
          <6>3. QED  BY <2>2, <3>1, <4>2, <6>2
        <5>2. Here = forest.roots[j]
            BY <2>1, <2>4, <5>1, Chain
        <5>3. QED  BY <2>3, <3>1, <5>2
      <4>3. QED  BY <4>1, <4>2
    <3>2. QED  BY <1>1, <1>2, <2>1, <3>1 DEF GoodTrees
  <2>7. GoodBelow'
    <3>1. ASSUME nerrors = 0, NEW p \in 1..(Len(stack) - 1), NEW j \in 1..(stack[p].child - 1),
                 p = Len(stack) - 1 \/ j < stack[p].child - 1
          PROVE  Under[Kids(p)[j]] \subseteq Finished
      <4>1. CASE j < stack[p].child - 1
          BY <1>1, <2>5, <3>1, <4>1 DEF GoodBelow
      <4>2. CASE ~(j < stack[p].child - 1)
        <5>1. j = stack[p].child - 1 /\ p + 1 = Len(stack)
          <6>1. stack[p].child - 1 \in DOMAIN Kids(p) /\ Kids(p) \in Seq(Node)
              BY <2>1, <2>5, Chain
          <6>2. stack[p].child - 1 \in Int
              BY <6>1
          <6>3. QED  BY <2>2, <3>1, <4>2, <6>2
        <5>2. Here = Kids(p)[j]
            BY <2>1, <2>4, <5>1, Chain
        <5>3. QED  BY <2>3, <3>1, <5>2
      <4>3. QED  BY <4>1, <4>2
    <3>2. nerrors = 0 => \A p \in 1..(Len(stack) - 1) : stack[p].node \in forest.named
        BY <1>1, <2>5 DEF GoodBelow
    <3>3. QED  BY <1>1, <1>2, <2>1, <2>2, <2>5, <3>1, <3>2, SMTT(40) DEF GoodBelow
  <2>8. GoodValues'
    <3>1. ASSUME stack' # <<>> PROVE DOMAIN given[Here'] \ Top'.left = {}
      <4>1. Len(stack) - 1 \in 1..(Len(stack) - 1)
          BY <2>2, <3>1
      <4>2. Len(stack) - 1 \in DOMAIN stack /\ Len(stack) - 1 < Len(stack)
          BY <2>5, <4>1
      <4>3. stack[Len(stack) - 1].left = DOMAIN given[stack[Len(stack) - 1].node]
          BY <4>2 DEF Inv, Calls, FramesOK
      <4>4. QED  BY <2>2, <3>1, <4>3
    <3>2. QED  BY <1>2, <3>1 DEF GoodValues
  <2>9. QED  BY <2>6, <2>7, <2>8 DEF GoodSoFar
<1>13. QED  BY <1>5, <1>6, <1>8, <1>9, <1>10, <1>11, <1>12 DEF Next
-----------------------------------------------------------------------------
LEMMA InForestFacts ==
    ASSUME forest \in Forests
    PROVE  InForest = UNION {Under[forest.roots[j]] : j \in DOMAIN forest.roots}
<1>1. \A j \in DOMAIN forest.roots : forest.roots[j] \in Node
    BY Forest
<1>2. \A n \in Node, r \in Node : n \in Under[r] <=> r \in CallersOf(n)
    BY DEF Under
<1>3. \A r \in Node : Under[r] \subseteq Node
    BY DEF Under
<1>4. InForest \subseteq UNION {Under[forest.roots[j]] : j \in DOMAIN forest.roots}
  <2> SUFFICES ASSUME NEW n \in InForest PROVE \E j \in DOMAIN forest.roots : n \in Under[forest.roots[j]]
      OBVIOUS
  <2>1. n \in Node /\ \E r : r \in CallersOf(n) /\ r \in Range(forest.roots)
      BY DEF InForest
  <2>2. PICK j \in DOMAIN forest.roots : forest.roots[j] \in CallersOf(n)
      BY <2>1 DEF Range
  <2>3. QED  BY <1>1, <1>2, <2>1, <2>2
<1>5. ASSUME NEW j \in DOMAIN forest.roots, NEW n \in Under[forest.roots[j]] PROVE n \in InForest
  <2>1. n \in Node /\ forest.roots[j] \in CallersOf(n) /\ forest.roots[j] \in Range(forest.roots)
      BY <1>1, <1>2, <1>3 DEF Range
  <2>2. QED  BY <2>1 DEF InForest
<1>6. QED  BY <1>4, <1>5

(* An error is counted for a node that has something wrong.                  *)
LEMMA NewError ==
    ASSUME Inv, Next, nerrors' # nerrors
    PROVE  \E n \in InForest : n \notin Passing
<1>1. forest \in Forests /\ TypeOK /\ SameCurrent
    BY DEF Inv, TypeOK
<1>2. \A n \in Node : n \notin forest.named => n \notin Passing
    BY DEF Passing
<1>3. \A n : \A j \in DOMAIN forest.roots : n \in Under[forest.roots[j]] => n \in InForest
    BY <1>1, InForestFacts
<1>4. stack # <<>> => Here \in InForest
  <2> SUFFICES ASSUME stack # <<>> PROVE Here \in InForest
      OBVIOUS
  <2>1. started \in DOMAIN forest.roots /\ stack[1].node = forest.roots[started] /\ 1 \in DOMAIN stack
      BY Chain, OnTop
  <2>2. Here \in Under[stack[1].node]
      BY <2>1, ChainCallers
  <2>3. QED  BY <1>3, <2>1, <2>2
<1>5. CASE StartTree
  <2> DEFINE r == forest.roots[started + 1]
  <2>1. r \in Node /\ r \notin forest.named /\ started + 1 \in DOMAIN forest.roots
      BY <1>5, StartShape, StartFacts
  <2>2. r \in Under[r]
      BY <1>1, <2>1, UnderFacts
  <2>3. r \in InForest
      BY <1>3, <2>1, <2>2
  <2>4. QED  BY <1>2, <2>1, <2>3
<1>6. CASE CallChild
  <2> DEFINE n == children[Here][Top.child]
  <2>1. n \in Node /\ n \notin forest.named /\ stack # <<>> /\ Top.child \in DOMAIN children[Here]
      BY <1>6, CallShape
  <2>2. Here \in Node /\ n \in Range(children[Here])
      BY <2>1, OnTop DEF Range
  <2>3. n \in Under[n] /\ Under[n] \subseteq Under[Here]
      BY <1>1, <2>1, <2>2, UnderFacts
  <2>4. n \in InForest
    <3>1. PICK j \in DOMAIN forest.roots : Here \in Under[forest.roots[j]]
        BY <1>1, <1>4, <2>1, InForestFacts
    <3>2. forest.roots[j] \in Node
        BY <1>1, Forest
    <3>3. Here \in Callers[n] /\ forest.roots[j] \in Callers[Here]
        BY <1>1, <2>1, <2>2, <2>3, <3>1, <3>2, UnderFacts
    <3>4. forest.roots[j] \in Callers[n]
        BY <1>1, <2>1, <3>3, CallersFacts
    <3>5. n \in Under[forest.roots[j]]
        BY <1>1, <2>1, <3>2, <3>4, UnderFacts
    <3>6. QED  BY <1>3, <3>5
  <2>5. QED  BY <1>2, <2>1, <2>4
<1>7. CASE Abandon
  <2> DEFINE piece == NextReference(current.value)
             k == current.key
             i == current.index
             C == Clear[Here]
  <2>1. /\ stack # <<>> /\ current # NoValue /\ HasReference(current.value) /\ current.value \in Value
        /\ ~Resolves(Here, piece)
      BY <1>7, AbandonFacts
  <2>2. /\ Here \in Node /\ k \in DOMAIN given[Here] /\ i \in DOMAIN symtab[Here][k]
        /\ symtab[Here][k] \in Seq(Value) /\ Len(symtab[Here][k]) = Len(given[Here][k])
      BY <2>1, Facts
  <2>3. /\ k \in Key /\ given[Here][k] \in Seq(Value) /\ ValuesOf(Here, k) = Range(given[Here][k])
      BY <1>1, <2>2, OwnValues
  <2>4. PICK j \in DOMAIN current.value : piece = current.value[j] /\ IsReference(piece) /\ piece \in Piece
      BY <2>1, NextPiece
  <2>5. piece.op = "malformed" \/ (piece.op = "ref" /\ piece.arg \notin C)
      BY <1>1, <2>1, <2>2, <2>4, Unresolved
  <2>6. piece \in Range(current.value)
      BY <2>4 DEF Range
  <2>7. ~Fit(C, current.value)
      BY <2>5, <2>6 DEF Fit
  <2>8. ~Fit(C, given[Here][k][i])
      BY <1>1, <2>1, <2>2, <2>7, ClearSteady DEF SameCurrent
  <2>9. given[Here][k][i] \in ValuesOf(Here, k)
    <3>1. i \in DOMAIN given[Here][k]
        BY <2>2, <2>3
    <3>2. QED  BY <2>3, <3>1 DEF Range
  <2>10. k \notin C
      BY <1>1, <2>2, <2>3, <2>8, <2>9, ClearUnfolds
  <2>11. Here \notin Passing
      BY <1>1, <2>2, <2>10, ResolvableIfClear DEF Passing
  <2>12. QED  BY <1>4, <2>1, <2>11
<1>8. ~(\E key \in Key : PickKey(key)) /\ ~Substitute /\ ~Store /\ ~Return
    BY PickFacts, SubstituteFacts, StoreFacts, ReturnFacts
<1>9. QED  BY <1>5, <1>6, <1>7, <1>8 DEF Next

LEMMA BadStep == ASSUME Inv, Next PROVE BadFound'
<1>1. InForest' = InForest /\ Passing' = Passing
    BY TypeStep, SameForest
<1>2. BadFound
    BY DEF Inv
<1>3. CASE nerrors' = nerrors
    BY <1>1, <1>2, <1>3 DEF BadFound
<1>4. CASE nerrors' # nerrors
    BY <1>1, <1>4, NewError DEF BadFound
<1>5. QED  BY <1>3, <1>4
-----------------------------------------------------------------------------
LEMMA InvInit == Init => Inv
<1> SUFFICES ASSUME Init PROVE Inv
    OBVIOUS
<1>1. /\ forest \in Forests /\ symtab = given /\ started = 0 /\ stack = <<>> /\ current = NoValue
      /\ env = {} /\ nerrors = 0
    BY DEF Init, given
<1>2. /\ forest.roots \in Seq(Node) /\ DOMAIN given = Node
      /\ \A n \in Node : given[n] \in [DOMAIN given[n] -> Seq(Value)]
    BY <1>1, Forest
<1>3. SymtabOK
    BY <1>1, <1>2 DEF SymtabOK
<1>4. CurrentOK
    BY <1>1, ValueRecords DEF CurrentOK
<1>5. OthersOK
  <2>1. 0 \in 0..Len(forest.roots) /\ <<>> \in Seq(Frame)
      BY <1>2
  <2>2. QED  BY <1>1, <2>1 DEF OthersOK
<1>6. DOMAIN stack = {} /\ Len(stack) = 0
    BY <1>1
<1>7. Calls
    BY <1>1, <1>6 DEF Calls, FramesOK, Linked, Rooted, Worked
<1>8. Untouched = Node
    BY <1>1 DEF Untouched
<1>9. Fresh
  <2>1. \A j \in DOMAIN forest.roots : Under[forest.roots[j]] \subseteq Node
    <3>1. \A j \in DOMAIN forest.roots : forest.roots[j] \in Node
        BY <1>2
    <3>2. QED  BY <1>1, <3>1, UnderFacts
  <2>2. QED  BY <1>6, <1>8, <2>1 DEF Fresh, FreshCallers, FreshBelow, FreshTrees
<1>10. SameValues /\ SameCurrent
    BY <1>1 DEF SameValues, SameCurrent
<1>11. GoodSoFar
  <2>1. 1..started = {}
      BY <1>1
  <2>2. QED  BY <1>1, <1>6, <2>1 DEF GoodSoFar, GoodTrees, GoodBelow, GoodValues
<1>12. BadFound
    BY <1>1 DEF BadFound
<1>13. QED  BY <1>3, <1>4, <1>5, <1>7, <1>9, <1>10, <1>11, <1>12, TypeParts DEF Inv

LEMMA InvStep == Inv /\ [Next]_vars => Inv'
<1> SUFFICES ASSUME Inv, [Next]_vars PROVE Inv'
    OBVIOUS
<1>1. CASE Next
  <2>1. TypeOK'
    <3>1. SymtabOK' /\ CurrentOK' /\ OthersOK'
        BY <1>1, TypeStep
    <3>2. TypeOK' <=> SymtabOK' /\ CurrentOK' /\ OthersOK'
        BY DEF TypeOK, SymtabOK, CurrentOK, OthersOK, given, Current, Here, Top
    <3>3. QED  BY <3>1, <3>2
  <2>2. QED  BY <1>1, <2>1, CallsStep, FreshStep, SameStep, GoodStep, BadStep DEF Inv
<1>2. CASE UNCHANGED vars
  <2>1. UNCHANGED <<forest, symtab, started, stack, current, env, nerrors>>
      BY <1>2 DEF vars
  <2>2. UNCHANGED <<given, Under, Steady, Sound, Passing, InForest>>
      BY <2>1, SameForest
  <2>3. TypeOK'
      BY <2>1 DEF Inv, TypeOK
  <2>4. Calls'
      BY <2>1 DEF Inv, Calls, FramesOK, Linked, Rooted, Worked, Kids, Top, Here, given
  <2>5. UNCHANGED <<Here, Top, Untouched, Finished>>
    <3>1. UNCHANGED <<Here, Top, Untouched>>
        BY <2>1, <2>2 DEF Here, Top, Untouched
    <3>2. UNCHANGED Finished
        BY <2>1, <2>2 DEF Finished
    <3>3. QED  BY <3>1, <3>2
  <2>6. Fresh'
      BY <2>1, <2>2, <2>5 DEF Inv, Fresh, FreshCallers, FreshBelow, FreshTrees, Kids
  <2>7. SameValues' /\ SameCurrent'
      BY <2>1, <2>2, <2>5 DEF Inv, SameValues, SameCurrent
  <2>8. GoodSoFar' /\ BadFound'
      BY <2>1, <2>2, <2>5 DEF Inv, GoodSoFar, GoodTrees, GoodBelow, GoodValues, BadFound, Kids
  <2>9. QED  BY <2>3, <2>4, <2>6, <2>7, <2>8 DEF Inv
<1>3. QED  BY <1>1, <1>2

LEMMA Invariance == Spec => []Inv
<1>1. QED  BY InvInit, InvStep, PTL DEF Spec

(* kbtree_eval keeps to the variables that were read and to their values'      *)
(* places, whatever it puts there, and always has a node and a value at hand   *)
(* that exist.                                                              *)
THEOREM TypeCorrect == Spec => []TypeOK
<1>1. Inv => TypeOK
    BY DEF Inv
<1>2. QED  BY <1>1, Invariance, PTL

LEMMA AllFinished ==
    ASSUME Inv, Done, nerrors = 0
    PROVE  InForest \subseteq Finished
<1>1. /\ forest \in Forests /\ stack = <<>> /\ started = Len(forest.roots) /\ GoodTrees
    BY DEF Inv, TypeOK, Done, GoodSoFar
<1>2. forest.roots \in Seq(Node)
    BY <1>1, Forest
<1>3. DOMAIN forest.roots = 1..started
    BY <1>1, <1>2
<1>4. \A j \in DOMAIN forest.roots : Under[forest.roots[j]] \subseteq Finished
    BY <1>1, <1>3 DEF GoodTrees
<1>5. QED  BY <1>1, <1>4, InForestFacts

(* kbtree_eval counts an error if and only if a node it came to has no ID or    *)
(* some reference that one of its values leads to cannot be resolved, for any  *)
(* trees and values and whatever the order of the variables.                 *)
THEOREM ErrorsExactly == Spec => []ErrorsIffUnresolved
<1>1. ASSUME Inv, Done PROVE nerrors = 0 <=> \A n \in InForest : n \in forest.named /\ Resolvable(n)
  <2>1. nerrors \in Nat /\ BadFound
      BY <1>1 DEF Inv, TypeOK
  <2>2. \A n \in InForest : n \in Node
      BY DEF InForest
  <2>3. InForest \subseteq Passing <=> \A n \in InForest : n \in forest.named /\ Resolvable(n)
      BY <2>2 DEF Passing
  <2>4. nerrors = 0 => InForest \subseteq Passing
      BY <1>1, AllFinished DEF Finished
  <2>5. nerrors # 0 => ~(InForest \subseteq Passing)
      BY <2>1 DEF BadFound
  <2>6. QED  BY <2>3, <2>4, <2>5
<1>2. Inv => ErrorsIffUnresolved
    BY <1>1 DEF ErrorsIffUnresolved
<1>3. QED  BY <1>2, Invariance, PTL

(* What ValuesAsScoped says apart from which text the values become.          *)
NothingLeft ==
    Done /\ nerrors = 0 =>
        \A n \in InForest :
            /\ Resolvable(n) /\ ~Circular(n)
            /\ \A k \in DOMAIN symtab[n] : \A i \in DOMAIN symtab[n][k] : ~HasReference(symtab[n][k][i])

LEMMA NothingLeftAtEnd == Inv => NothingLeft
<1>1. ASSUME Inv, Done, nerrors = 0, NEW n \in InForest
      PROVE  /\ Resolvable(n) /\ ~Circular(n)
             /\ \A k \in DOMAIN symtab[n] : \A i \in DOMAIN symtab[n][k] : ~HasReference(symtab[n][k][i])
  <2>1. n \in Finished /\ n \in Node /\ forest \in Forests /\ SymtabOK
      BY <1>1, AllFinished, TypeParts DEF InForest, Inv, TypeOK
  <2>2. /\ Resolvable(n) /\ ~Circular(n)
        /\ \A k \in DOMAIN given[n] : \A i \in DOMAIN given[n][k] : ~HasReference(symtab[n][k][i])
    <3>1. n \in Sound /\ n \in Passing
        BY <2>1 DEF Finished
    <3>2. ~Circular(n)
        BY <2>1, <3>1, NotCircularIfGrounded DEF Sound
    <3>3. QED  BY <2>1, <3>1, <3>2 DEF Finished, Passing
  <2>3. /\ symtab[n] \in [DOMAIN given[n] -> Seq(Value)]
        /\ \A k \in DOMAIN symtab[n] : Len(symtab[n][k]) = Len(given[n][k])
      BY <2>1 DEF SymtabOK
  <2>4. ASSUME NEW k \in DOMAIN symtab[n], NEW i \in DOMAIN symtab[n][k] PROVE ~HasReference(symtab[n][k][i])
    <3>1. k \in DOMAIN given[n] /\ symtab[n][k] \in Seq(Value)
        BY <2>3
    <3>2. given[n][k] \in Seq(Value) /\ Len(symtab[n][k]) = Len(given[n][k])
        BY <2>1, <2>3, <3>1, OwnValues
    <3>3. i \in DOMAIN given[n][k]
        BY <3>1, <3>2
    <3>4. QED  BY <2>2, <3>1, <3>3
  <2>5. QED  BY <2>2, <2>4
<1>2. QED  BY <1>1 DEF NothingLeft

(* When kbtree_eval has come to its end without errors no reference is left in  *)
(* any value, although a value is only ever looked at once, its node before     *)
(* the nodes that call it; and no variable can have led back to itself.       *)
THEOREM NoReferenceLeft == Spec => []NothingLeft
<1>1. QED  BY NothingLeftAtEnd, Invariance, PTL
-----------------------------------------------------------------------------
(* What a value is made of once its variables are replaced: pieces, and calls   *)
(* of getenv of which it is known (own), or not known (raw), that the same      *)
(* variable is set before.                                                  *)
Mark == Piece \cup [op : {"own", "raw"}, arg : EnvVar]
Getenv(a) == [op |-> "getenv", arg |-> a]
Setenv(a) == [op |-> "setenv", arg |-> a]
Own(a) == [op |-> "own", arg |-> a]
Raw(a) == [op |-> "raw", arg |-> a]

LEMMA Marks ==
    /\ \A m \in Mark : /\ m.op \in {"text", "ref", "setenv", "getenv", "malformed", "own", "raw"}
                       /\ m.op = "text" => m = Text(m.arg)
                       /\ m.op = "getenv" => m = Getenv(m.arg) /\ m.arg \in EnvVar
                       /\ m.op = "setenv" => m = Setenv(m.arg) /\ m.arg \in EnvVar
                       /\ m.op = "own" => m = Own(m.arg) /\ m.arg \in EnvVar
                       /\ m.op = "raw" => m = Raw(m.arg) /\ m.arg \in EnvVar
    /\ \A a : /\ Text(a).op = "text" /\ Text(a).arg = a /\ Getenv(a).op = "getenv" /\ Getenv(a).arg = a
              /\ Setenv(a).op = "setenv" /\ Setenv(a).arg = a /\ Own(a).op = "own" /\ Own(a).arg = a
              /\ Raw(a).op = "raw" /\ Raw(a).arg = a
    /\ \A a \in EnvVar : /\ Text(a) \in Mark /\ Getenv(a) \in Mark /\ Setenv(a) \in Mark
                         /\ Own(a) \in Mark /\ Raw(a) \in Mark
    /\ Text("") \in Mark /\ Text("[") \in Mark /\ Text("]") \in Mark /\ Text(",") \in Mark
    /\ Piece \subseteq Mark
<1>1. ASSUME NEW m \in Mark
      PROVE  /\ m.op \in {"text", "ref", "setenv", "getenv", "malformed", "own", "raw"}
             /\ m.op = "text" => m = Text(m.arg)
             /\ m.op = "getenv" => m = Getenv(m.arg) /\ m.arg \in EnvVar
             /\ m.op = "setenv" => m = Setenv(m.arg) /\ m.arg \in EnvVar
             /\ m.op = "own" => m = Own(m.arg) /\ m.arg \in EnvVar
             /\ m.op = "raw" => m = Raw(m.arg) /\ m.arg \in EnvVar
  <2>1. CASE m \in [op : {"text"}, arg : Word]
      BY <2>1 DEF Text
  <2>2. CASE m \in [op : {"ref"}, arg : Key]
      BY <2>2
  <2>3. CASE m \in [op : {"setenv", "getenv"}, arg : EnvVar]
      BY <2>3 DEF Setenv, Getenv
  <2>4. CASE m = [op |-> "malformed", arg |-> ""]
      BY <2>4
  <2>5. CASE m \in [op : {"own", "raw"}, arg : EnvVar]
      BY <2>5 DEF Own, Raw
  <2>6. QED  BY <2>1, <2>2, <2>3, <2>4, <2>5 DEF Mark, Piece
<1>2. ASSUME NEW a
      PROVE  /\ Text(a).op = "text" /\ Text(a).arg = a /\ Getenv(a).op = "getenv" /\ Getenv(a).arg = a
             /\ Setenv(a).op = "setenv" /\ Setenv(a).arg = a /\ Own(a).op = "own" /\ Own(a).arg = a
             /\ Raw(a).op = "raw" /\ Raw(a).arg = a
    BY DEF Text, Getenv, Setenv, Own, Raw
<1>3. Piece \subseteq Mark
    BY DEF Mark
<1>4. \A w \in EnvVar \cup {"", "[", "]", ","} : Text(w) \in Mark
    BY <1>3, EvalAssumption, Pieces
<1>5. ASSUME NEW a \in EnvVar PROVE Getenv(a) \in Mark /\ Setenv(a) \in Mark /\ Own(a) \in Mark /\ Raw(a) \in Mark
    BY DEF Getenv, Setenv, Own, Raw, Mark, Piece
<1>6. QED  BY <1>1, <1>2, <1>3, <1>4, <1>5
-----------------------------------------------------------------------------
(* What holds of pairs that are put together, and of the text of lists, holds  *)
(* of formatted lists.                                                      *)
Brackets(C) == \A w \in {"[", "]", ","} : <<<<Text(w)>>, <<Text(w)>>>> \in C

LEMMA FormatPairs ==
    ASSUME NEW C, Joins(Mark, C), Brackets(C),
           NEW a \in Seq(Seq(Mark)), NEW b \in Seq(Seq(Mark)), Len(a) = Len(b),
           \A i \in 1..Len(a) : <<a[i], b[i]>> \in C
    PROVE  <<Format(a), Format(b)>> \in C /\ Format(a) \in Seq(Mark) /\ Format(b) \in Seq(Mark)
<1> DEFINE with(s) == [i \in DOMAIN s |-> IF i = 1 THEN s[i] ELSE <<Text(",")>> \o s[i]]
<1>1. /\ <<Text("[")>> \in Seq(Mark) /\ <<Text("]")>> \in Seq(Mark) /\ <<Text(",")>> \in Seq(Mark)
      /\ <<>> \in Seq(Mark)
  <2>1. \A x \in Mark : <<x>> \in Seq(Mark) /\ <<>> \in Seq(Mark)
      BY Single
  <2>2. QED  BY <2>1, Marks, Zenon
<1>2. /\ Len(a) \in Nat /\ DOMAIN a = 1..Len(a) /\ DOMAIN b = 1..Len(a)
      /\ a = <<>> <=> Len(a) = 0
      /\ b = <<>> <=> Len(a) = 0
      /\ \A i \in 1..Len(a) : a[i] \in Seq(Mark) /\ b[i] \in Seq(Mark)
  <2>1. ASSUME NEW s \in Seq(Seq(Mark))
        PROVE  Len(s) \in Nat /\ DOMAIN s = 1..Len(s) /\ (s = <<>> <=> Len(s) = 0) /\ \A i \in 1..Len(s) : s[i] \in Seq(Mark)
      BY Elements
  <2>2. QED  BY <2>1
<1>3. CASE Len(a) = 0
  <2>1. Format(a) = <<>> /\ Format(b) = <<>>
      BY <1>2, <1>3 DEF Format
  <2>2. QED  BY <1>1, <2>1 DEF Joins
<1>4. CASE Len(a) = 1
  <2>1. a # <<>> /\ b # <<>>
      BY <1>2, <1>4
  <2>2. Len(b) = 1 /\ 1 \in 1..Len(a)
      BY <1>4
  <2>3. Format(a) = a[1] /\ Format(b) = b[1]
      BY <1>4, <2>1, <2>2 DEF Format
  <2>4. QED  BY <1>2, <2>2, <2>3
<1>5. CASE Len(a) \notin {0, 1}
  <2>1. /\ Format(a) = <<Text("[")>> \o FlattenSeq(with(a)) \o <<Text("]")>>
        /\ Format(b) = <<Text("[")>> \o FlattenSeq(with(b)) \o <<Text("]")>>
      BY <1>2, <1>5 DEF Format
  <2>2. \A i \in 1..Len(a) : /\ with(a)[i] = IF i = 1 THEN a[i] ELSE <<Text(",")>> \o a[i]
                             /\ with(b)[i] = IF i = 1 THEN b[i] ELSE <<Text(",")>> \o b[i]
      BY <1>2
  <2>3. \A i \in 1..Len(a) : with(a)[i] \in Seq(Mark) /\ with(b)[i] \in Seq(Mark)
    <3>1. \A s \in Seq(Mark) : <<Text(",")>> \o s \in Seq(Mark)
        BY <1>1, ConcatProperties
    <3> HIDE DEF with
    <3>2. QED  BY <1>2, <2>2, <3>1
  <2>4. \A i \in 1..Len(a) : <<with(a)[i], with(b)[i]>> \in C
    <3>1. \A i \in 1..Len(a) : <<<<Text(",")>> \o a[i], <<Text(",")>> \o b[i]>> \in C
        BY <1>1, <1>2 DEF Joins, Brackets
    <3> HIDE DEF with
    <3>2. QED  BY <2>2, <3>1
  <2>5. with(a) = [i \in 1..Len(a) |-> with(a)[i]] /\ with(b) = [i \in 1..Len(a) |-> with(b)[i]]
      BY <1>2
  <2> DEFINE x == with(a)
             y == with(b)
  <2>6. x \in [1..Len(a) -> Seq(Mark)] /\ y \in [1..Len(a) -> Seq(Mark)]
    <3> HIDE DEF with
    <3>1. QED  BY <2>3, <2>5
  <2>7. <<x[1], y[1]>> = <<x[1], y[1]>> /\ \A i \in 1..Len(a) : <<x[i], y[i]>> \in C
      BY <2>4
  <2> HIDE DEF x, y
  <2>8. x \in Seq(Seq(Mark)) /\ y \in Seq(Seq(Mark)) /\ Len(x) = Len(a) /\ Len(y) = Len(a)
    <3>1. Len(a) \in Nat
        BY <1>2
    <3>2. QED  BY <2>6, <3>1, Listed
  <2>9. <<FlattenSeq(x), FlattenSeq(y)>> \in C
      BY <2>7, <2>8, FlattenPairs
  <2>10. FlattenSeq(x) \in Seq(Mark) /\ FlattenSeq(y) \in Seq(Mark)
      BY <2>8, FlattenSeqRange
  <2> DEFINE fx == FlattenSeq(x)
             fy == FlattenSeq(y)
             l == <<Text("[")>>
             r == <<Text("]")>>
  <2>11. /\ fx \in Seq(Mark) /\ fy \in Seq(Mark) /\ l \in Seq(Mark) /\ r \in Seq(Mark)
         /\ <<fx, fy>> \in C /\ <<l, l>> \in C /\ <<r, r>> \in C
      BY <1>1, <2>9, <2>10 DEF Brackets
  <2>12. Format(a) = l \o fx \o r /\ Format(b) = l \o fy \o r
      BY <2>1 DEF x, y
  <2> HIDE DEF fx, fy, l, r
  <2>13. l \o fx \in Seq(Mark) /\ l \o fy \in Seq(Mark) /\ <<l \o fx, l \o fy>> \in C
      BY <2>11, ConcatProperties DEF Joins
  <2>14. (l \o fx) \o r \in Seq(Mark) /\ (l \o fy) \o r \in Seq(Mark) /\ <<(l \o fx) \o r, (l \o fy) \o r>> \in C
    <3> DEFINE lx == l \o fx
               ly == l \o fy
    <3>1. lx \in Seq(Mark) /\ ly \in Seq(Mark) /\ <<lx, ly>> \in C
        BY <2>13
    <3> HIDE DEF lx, ly
    <3>2. lx \o r \in Seq(Mark) /\ ly \o r \in Seq(Mark) /\ <<lx \o r, ly \o r>> \in C
        BY <2>11, <3>1, ConcatProperties DEF Joins
    <3>3. QED  BY <3>2 DEF lx, ly
  <2>15. QED  BY <2>12, <2>14
<1>6. QED  BY <1>3, <1>4, <1>5
-----------------------------------------------------------------------------
(* What is said to be set before is.                                         *)
Right == {m \in Seq(Mark) : \A i \in 1..Len(m) :
             /\ m[i].op # "raw"
             /\ \A a \in EnvVar : m[i] = Own(a) => \E l \in 1..(i - 1) : m[l] = Setenv(a)}

LEMMA RightFacts ==
    /\ <<>> \in Right
    /\ \A p \in Piece : <<p>> \in Right
    /\ \A s, t \in Right : s \o t \in Right
    /\ \A s \in Right : \A a \in EnvVar : Setenv(a) \in Range(s) => s \o <<Own(a)>> \in Right
<1>1. <<>> \in Right
    BY DEF Right
<1>2. ASSUME NEW p \in Piece PROVE <<p>> \in Right
  <2>1. <<p>> \in Seq(Mark) /\ Len(<<p>>) = 1 /\ <<p>>[1] = p
    <3>1. p \in Mark
        BY Marks, Zenon
    <3>2. QED  BY <3>1, Single
  <2>2. \A a \in EnvVar : p # Own(a)
    <3>1. p.op # "own"
        BY Pieces
    <3>2. \A a \in EnvVar : Own(a).op = "own"
        BY DEF Own
    <3>3. QED  BY <3>1, <3>2, Zenon
  <2>3. p.op # "raw"
      BY Pieces
  <2>4. QED  BY <2>1, <2>2, <2>3 DEF Right
<1>3. ASSUME NEW s \in Right, NEW t \in Seq(Mark), \A i \in 1..Len(t) : t[i].op # "raw",
             \A i \in 1..Len(t) : \A a \in EnvVar :
                t[i] = Own(a) => Setenv(a) \in Range(s) \/ \E l \in 1..(i - 1) : t[l] = Setenv(a)
      PROVE  s \o t \in Right
  <2>1. s \in Seq(Mark) /\ Len(s) \in Nat /\ Len(t) \in Nat /\ DOMAIN s = 1..Len(s)
      BY DEF Right
  <2>2. /\ s \o t \in Seq(Mark) /\ Len(s \o t) = Len(s) + Len(t)
        /\ \A i \in 1..Len(s) : (s \o t)[i] = s[i]
        /\ \A i \in 1..Len(t) : (s \o t)[Len(s) + i] = t[i]
      BY <2>1
  <2>3. ASSUME NEW i \in 1..(Len(s) + Len(t)), NEW a \in EnvVar, (s \o t)[i] = Own(a)
        PROVE  \E l \in 1..(i - 1) : (s \o t)[l] = Setenv(a)
    <3>1. CASE i <= Len(s)
      <4>1. PICK l \in 1..(i - 1) : s[l] = Setenv(a)
          BY <2>1, <2>2, <2>3, <3>1 DEF Right
      <4>2. l \in 1..Len(s)
          BY <2>1, <3>1
      <4>3. QED  BY <2>2, <4>1, <4>2
    <3>2. CASE i > Len(s)
      <4>1. PICK j \in 1..Len(t) : i = Len(s) + j
        <5>1. i - Len(s) \in 1..Len(t) /\ i = Len(s) + (i - Len(s))
            BY <2>1, <3>2
        <5>2. QED  BY <5>1
      <4>2. t[j] = Own(a)
          BY <2>2, <2>3, <4>1
      <4>3. CASE Setenv(a) \in Range(s)
        <5>1. PICK l \in 1..Len(s) : s[l] = Setenv(a)
            BY <2>1, <4>3 DEF Range
        <5>2. l \in 1..(i - 1) /\ (s \o t)[l] = Setenv(a)
            BY <2>1, <2>2, <3>2, <5>1
        <5>3. QED  BY <5>2
      <4>4. CASE \E l \in 1..(j - 1) : t[l] = Setenv(a)
        <5>1. PICK l \in 1..(j - 1) : t[l] = Setenv(a)
            BY <4>4
        <5>2. l \in 1..Len(t) /\ Len(s) + l \in 1..(i - 1)
            BY <2>1, <4>1
        <5>3. (s \o t)[Len(s) + l] = Setenv(a)
            BY <2>2, <5>1, <5>2
        <5>4. QED  BY <5>2, <5>3
      <4>5. QED  BY <1>3, <4>2, <4>3, <4>4
    <3>3. QED  BY <2>1, <3>1, <3>2
  <2>4. ASSUME NEW i \in 1..(Len(s) + Len(t)) PROVE (s \o t)[i].op # "raw"
    <3>1. \A j \in 1..Len(s) : s[j].op # "raw"
        BY DEF Right
    <3>2. i \in 1..Len(s) \/ \E j \in 1..Len(t) : i = Len(s) + j
        BY <2>1, ConcatFacts
    <3>3. QED  BY <1>3, <2>2, <3>1, <3>2
  <2>5. QED  BY <2>2, <2>3, <2>4 DEF Right
<1>4. ASSUME NEW s \in Right, NEW t \in Right PROVE s \o t \in Right
  <2>1. /\ t \in Seq(Mark) /\ \A i \in 1..Len(t) : t[i].op # "raw"
        /\ \A i \in 1..Len(t) : \A a \in EnvVar : t[i] = Own(a) => \E l \in 1..(i - 1) : t[l] = Setenv(a)
      BY DEF Right
  <2>2. QED  BY <1>3, <2>1
<1>5. ASSUME NEW s \in Right, NEW a \in EnvVar, Setenv(a) \in Range(s) PROVE s \o <<Own(a)>> \in Right
  <2> DEFINE t == <<Own(a)>>
  <2>1. t \in Seq(Mark) /\ Len(t) = 1 /\ t[1] = Own(a)
    <3>1. Own(a) \in Mark
        BY Marks, Zenon
    <3>2. QED  BY <3>1, Single
  <2>2. \A b : Own(a) = Own(b) => a = b
    <3>1. Own(a).arg = a /\ \A b : Own(b).arg = b
        BY DEF Own
    <3>2. QED  BY <3>1
  <2> HIDE DEF t
  <2>3. \A i \in 1..Len(t) : \A b \in EnvVar : t[i] = Own(b) => Setenv(b) \in Range(s)
      BY <1>5, <2>1, <2>2
  <2>4. s \o t \in Right
    <3>1. \A i \in 1..Len(t) : t[i].op # "raw"
        BY <2>1 DEF Own
    <3>2. QED  BY <1>3, <2>1, <2>3, <3>1
  <2>5. QED  BY <2>4 DEF t
<1>6. QED  BY <1>1, <1>2, <1>4, <1>5
-----------------------------------------------------------------------------
(* What the variables of a node lead to; what a variable means if the others'    *)
(* meanings are f; the function Meaning is defined by.                       *)
Reach == [n \in Node |-> Uses(n, DOMAIN given[n])]
KeyMeans(f, n, key) ==
    LET values == given[Owner(n, key)][key] IN Format([i \in DOMAIN values |-> Expanded(f, values[i])])
Solves(f, n, S) == f = [key \in S |-> KeyMeans(f, n, key)]
Of == [n \in Node |-> CHOOSE f : Solves(f, n, Reach[n])]

LEMMA MeaningIs == \A n \in Node : \A v : Meaning(n, v) = Expanded(Of[n], v)
BY DEF Meaning, Of, Solves, KeyMeans, Reach, given

LEMMA ReachFacts ==
    ASSUME forest \in Forests, NEW n \in Sound
    PROVE  /\ n \in Node /\ Reach[n] \in SUBSET Key /\ DOMAIN given[n] \subseteq Reach[n]
           /\ Reach[n] \subseteq Grounded[n] /\ Sufficient(n, Reach[n])
<1> DEFINE keys == DOMAIN given[n]
           U == Uses(n, keys)
           G == Grounded[n]
<1>1. n \in Node /\ keys \subseteq G /\ Reach[n] = U
    BY DEF Sound, Reach
<1>2. keys \subseteq U /\ U \in SUBSET Key /\ Closed(n, U)
    BY <1>1, Forest, UsesClosed
<1>3. G \in SUBSET Key /\ Sufficient(n, G)
    BY <1>1, GroundedSteady DEF Steady
<1> HIDE DEF U, G
<1>4. Closed(n, G)
    BY <1>3 DEF Closed, Sufficient, Fit, UsedBy
<1>5. U \subseteq G
    BY <1>1, <1>4, UsesLeast DEF U
<1>6. ASSUME NEW k \in U, NEW v \in ValuesOf(n, k) PROVE Fit(U, v)
  <2>1. Fit(G, v)
      BY <1>3, <1>5 DEF Sufficient
  <2>2. \A p \in Range(v) : p.op = "ref" => p.arg \in UsedBy(ValuesOf(n, k))
      BY DEF UsedBy
  <2>3. QED  BY <1>2, <2>1, <2>2 DEF Fit, Closed
<1>7. \A k \in U : Owner(n, k) # 0
    BY <1>3, <1>5 DEF Sufficient
<1>8. Sufficient(n, U)
    BY <1>6, <1>7 DEF Sufficient
<1>9. QED  BY <1>1, <1>2, <1>5, <1>8 DEF G

(* A value's meaning depends on the variables it has only.                   *)
LEMMA ExpandedSame ==
    ASSUME NEW S, NEW v, Fit(S, v), NEW f, NEW g, \A k \in S : f[k] = g[k]
    PROVE  Expanded(f, v) = Expanded(g, v)
<1>1. \A j \in DOMAIN v : v[j].op = "ref" => f[v[j].arg] = g[v[j].arg]
    BY DEF Fit, Range
<1>2. [j \in DOMAIN v |-> IF v[j].op = "ref" THEN f[v[j].arg] ELSE <<Marked(v, j)>>]
        = [j \in DOMAIN v |-> IF v[j].op = "ref" THEN g[v[j].arg] ELSE <<Marked(v, j)>>]
    BY <1>1
<1>3. QED  BY <1>2 DEF Expanded

LEMMA KeyMeansSame ==
    ASSUME forest \in Forests, NEW n \in Node, NEW k, Owner(n, k) # 0,
           NEW S, \A v \in ValuesOf(n, k) : Fit(S, v), NEW f, NEW g, \A a \in S : f[a] = g[a]
    PROVE  KeyMeans(f, n, k) = KeyMeans(g, n, k)
<1> DEFINE values == given[Owner(n, k)][k]
<1>1. \A i \in DOMAIN values : Fit(S, values[i])
    BY DEF ValuesOf, given, Range
<1> HIDE DEF values
<1>2. \A i \in DOMAIN values : Expanded(f, values[i]) = Expanded(g, values[i])
    BY <1>1, ExpandedSame
<1>3. [i \in DOMAIN values |-> Expanded(f, values[i])] = [i \in DOMAIN values |-> Expanded(g, values[i])]
    BY <1>2
<1>4. QED  BY <1>3 DEF KeyMeans, values

(* There is such a function for the nodes whose variables all end.            *)
LEMMA SolutionGrows ==
    ASSUME forest \in Forests, NEW n \in Node, NEW S \in SUBSET Key, Sufficient(n, S), NEW f, Solves(f, n, S),
           NEW k \in Key, k \notin S, Owner(n, k) # 0, \A v \in ValuesOf(n, k) : Fit(S, v)
    PROVE  Sufficient(n, S \cup {k}) /\ \E g : Solves(g, n, S \cup {k})
<1> DEFINE T == S \cup {k}
           g == [a \in T |-> KeyMeans(f, n, a)]
<1>1. \A v : Fit(S, v) => Fit(T, v)
    BY DEF Fit
<1>2. Sufficient(n, T)
    BY <1>1 DEF Sufficient
<1>3. \A a \in S : f[a] = g[a]
  <2> DEFINE h == [a \in S |-> KeyMeans(f, n, a)]
  <2>1. f = h
      BY DEF Solves
  <2>2. \A a \in S : h[a] = KeyMeans(f, n, a)
      OBVIOUS
  <2>3. \A a \in S : g[a] = KeyMeans(f, n, a)
      OBVIOUS
  <2> HIDE DEF g, h
  <2>4. QED  BY <2>1, <2>2, <2>3
<1>4. ASSUME NEW a \in T PROVE KeyMeans(f, n, a) = KeyMeans(g, n, a)
  <2>1. Owner(n, a) # 0 /\ \A v \in ValuesOf(n, a) : Fit(S, v)
      BY DEF Sufficient
  <2> HIDE DEF g
  <2>2. QED  BY <1>3, <2>1, KeyMeansSame
<1>5. g = [a \in T |-> KeyMeans(g, n, a)]
  <2> DEFINE h == [a \in T |-> KeyMeans(g, n, a)]
  <2>1. [a \in T |-> KeyMeans(f, n, a)] = h
    <3> HIDE DEF g
    <3>1. QED  BY <1>4 DEF h
  <2>2. QED  BY <2>1
<1>6. Solves(g, n, T)
    BY <1>5 DEF Solves
<1>7. QED  BY <1>2, <1>6

LEMMA OfExists ==
    ASSUME forest \in Forests, NEW n \in Sound
    PROVE  Solves(Of[n], n, Reach[n])
<1> DEFINE T == {S \in SUBSET Key : Sufficient(n, S) /\ \E f : Solves(f, n, S)}
           D == {Cardinality(Key \ S) : S \in T}
           U == Reach[n]
<1>1. n \in Node /\ U \in SUBSET Key /\ U \subseteq Grounded[n] /\ Sufficient(n, U)
    BY ReachFacts
<1>2. {} \in T
  <2> DEFINE g == [a \in {} |-> 0]
  <2>1. g = [a \in {} |-> KeyMeans(g, n, a)]
      OBVIOUS
  <2>2. Solves(g, n, {})
      BY <2>1 DEF Solves
  <2>3. QED  BY <2>2 DEF Sufficient
<1>3. \A S \in SUBSET Key : IsFiniteSet(Key \ S) /\ Cardinality(Key \ S) \in Nat
  <2> SUFFICES ASSUME NEW S \in SUBSET Key PROVE IsFiniteSet(Key \ S) /\ Cardinality(Key \ S) \in Nat
      OBVIOUS
  <2>1. Key \ S \in SUBSET Key /\ IsFiniteSet(Key)
      BY Forest
  <2>2. QED  BY <2>1, FS_Subset, FS_CardinalityType
<1>4. D \in SUBSET Nat /\ D # {}
    BY <1>2, <1>3
<1>5. PICK d \in D : \A e \in D : d <= e
    BY <1>4, LeastNumber
<1>6. PICK S \in T : d = Cardinality(Key \ S)
    BY <1>5
<1>7. PICK f : Solves(f, n, S)
    BY <1>6
<1>8. Inductive(n, S)
  <2> SUFFICES ASSUME NEW k \in Key, Owner(n, k) # 0, \A v \in ValuesOf(n, k) : Fit(S, v), k \notin S PROVE FALSE
      BY DEF Inductive
  <2>1. S \cup {k} \in T
    <3>1. S \in SUBSET Key /\ Sufficient(n, S)
        BY <1>6
    <3>2. Sufficient(n, S \cup {k}) /\ \E g : Solves(g, n, S \cup {k})
        BY <1>1, <1>7, <3>1, SolutionGrows
    <3>3. QED  BY <3>1, <3>2
  <2> DEFINE A == Key \ S
             B == Key \ (S \cup {k})
  <2>2. B \subseteq A /\ B # A
      OBVIOUS
  <2>3. IsFiniteSet(A) /\ Cardinality(A) \in Nat /\ Cardinality(B) \in Nat
    <3>1. S \in SUBSET Key /\ S \cup {k} \in SUBSET Key
        BY <2>1
    <3>2. QED  BY <1>3, <3>1
  <2>4. Cardinality(A) <= Cardinality(B)
      BY <1>5, <1>6, <2>1
  <2> HIDE DEF A, B
  <2>5. Cardinality(B) < Cardinality(A)
    <3>1. Cardinality(B) <= Cardinality(A) /\ (Cardinality(A) = Cardinality(B) => A = B)
        BY <2>2, <2>3, FS_Subset
    <3>2. QED  BY <2>2, <2>3, <3>1
  <2>6. QED  BY <2>3, <2>4, <2>5
<1>9. U \subseteq S
  <2>1. S \in SUBSET Key
      BY <1>6
  <2>2. Grounded[n] \subseteq S
      BY <1>1, <1>8, <2>1 DEF Grounded
  <2>3. QED  BY <1>1, <2>2
<1> DEFINE g == [a \in U |-> KeyMeans(f, n, a)]
<1>10. \A a \in U : f[a] = g[a]
  <2> DEFINE h == [a \in S |-> KeyMeans(f, n, a)]
  <2>1. f = h
      BY <1>7 DEF Solves
  <2>2. \A a \in S : h[a] = KeyMeans(f, n, a)
      OBVIOUS
  <2>3. \A a \in U : g[a] = KeyMeans(f, n, a)
      OBVIOUS
  <2> HIDE DEF g, h, U
  <2>4. QED  BY <1>9, <2>1, <2>2, <2>3
<1>11. ASSUME NEW a \in U PROVE KeyMeans(f, n, a) = KeyMeans(g, n, a)
  <2>1. Owner(n, a) # 0 /\ \A v \in ValuesOf(n, a) : Fit(U, v)
      BY <1>1 DEF Sufficient
  <2> HIDE DEF g, U
  <2>2. QED  BY <1>1, <1>10, <2>1, KeyMeansSame
<1>12. g = [a \in U |-> KeyMeans(g, n, a)]
  <2> DEFINE h == [a \in U |-> KeyMeans(g, n, a)]
  <2>1. [a \in U |-> KeyMeans(f, n, a)] = h
    <3> HIDE DEF g, U
    <3>1. QED  BY <1>11 DEF h
  <2>2. QED  BY <2>1
<1>13. Solves(g, n, U)
  <2> HIDE DEF g
  <2>1. QED  BY <1>12 DEF Solves
<1>14. Of[n] = CHOOSE h : Solves(h, n, U)
    BY <1>1 DEF Of
<1> HIDE DEF g, U
<1>15. Solves(CHOOSE h : Solves(h, n, U), n, U)
    BY <1>13
<1>16. QED  BY <1>14, <1>15 DEF U
-----------------------------------------------------------------------------
(* A value as it is taken apart to be expanded.                              *)
Parts(f, v) == [j \in DOMAIN v |-> IF v[j].op = "ref" THEN f[v[j].arg] ELSE <<Marked(v, j)>>]

LEMMA MarkedFacts ==
    ASSUME NEW v \in Value, NEW j \in DOMAIN v
    PROVE  /\ Marked(v, j) \in Mark
           /\ \/ Marked(v, j) = v[j]
              \/ /\ v[j].op = "getenv" /\ v[j].arg \in EnvVar /\ Marked(v, j) = Own(v[j].arg)
                 /\ \E i \in 1..(j - 1) : v[i] = Setenv(v[j].arg)
<1>1. v[j] \in Piece
    BY DEF Value
<1>2. CASE v[j].op = "getenv" /\ \E i \in 1..(j - 1) : v[i] = [v[j] EXCEPT !.op = "setenv"]
  <2> DEFINE a == v[j].arg
  <2>1. v[j] = Getenv(a) /\ a \in EnvVar
      BY <1>1, <1>2, Marks, Zenon
  <2> HIDE DEF a
  <2>2. [v[j] EXCEPT !.op = "setenv"] = Setenv(a) /\ [v[j] EXCEPT !.op = "own"] = Own(a)
      BY <2>1 DEF Getenv, Setenv, Own
  <2>3. Marked(v, j) = Own(a)
      BY <1>2, <2>2 DEF Marked
  <2>4. Own(a) \in Mark
      BY <2>1, Marks, Zenon
  <2>5. QED  BY <1>2, <2>1, <2>2, <2>3, <2>4 DEF a
<1>3. CASE ~(v[j].op = "getenv" /\ \E i \in 1..(j - 1) : v[i] = [v[j] EXCEPT !.op = "setenv"])
  <2>1. Marked(v, j) = v[j]
      BY <1>3 DEF Marked
  <2>2. v[j] \in Mark
      BY <1>1, Marks, Zenon
  <2>3. QED  BY ONLY <2>1, <2>2
<1>4. QED  BY <1>2, <1>3

LEMMA PartsFacts ==
    ASSUME NEW v \in Value, NEW S, Fit(S, v), NEW f, \A k \in S : f[k] \in Right
    PROVE  /\ Parts(f, v) \in Seq(Seq(Mark)) /\ Len(Parts(f, v)) = Len(v)
           /\ \A j \in 1..Len(v) : Parts(f, v)[j] = IF v[j].op = "ref" THEN f[v[j].arg] ELSE <<Marked(v, j)>>
           /\ \A j \in 1..Len(v) : v[j].op = "ref" => f[v[j].arg] \in Right
           /\ Expanded(f, v) = FlattenSeq(Parts(f, v))
<1>1. Len(v) \in Nat /\ DOMAIN v = 1..Len(v)
    BY DEF Value
<1>2. \A j \in 1..Len(v) : v[j].op = "ref" => f[v[j].arg] \in Right
    BY <1>1 DEF Fit, Range
<1>3. \A j \in 1..Len(v) : Parts(f, v)[j] = IF v[j].op = "ref" THEN f[v[j].arg] ELSE <<Marked(v, j)>>
    BY <1>1 DEF Parts
<1>4. \A j \in 1..Len(v) : <<Marked(v, j)>> \in Seq(Mark)
    BY <1>1, MarkedFacts, Single
<1>5. \A j \in 1..Len(v) : Parts(f, v)[j] \in Seq(Mark)
    BY <1>2, <1>3, <1>4 DEF Right
<1>6. Parts(f, v) = [j \in 1..Len(v) |-> Parts(f, v)[j]]
    BY <1>1 DEF Parts
<1>7. Parts(f, v) \in [1..Len(v) -> Seq(Mark)]
    BY <1>5, <1>6
<1>8. Parts(f, v) \in Seq(Seq(Mark)) /\ Len(Parts(f, v)) = Len(v)
    BY <1>1, <1>7, Listed
<1>9. QED  BY <1>2, <1>3, <1>8 DEF Expanded, Parts

(* A getenv is marked by what its value sets: there are always both.           *)
LEMMA ExpandedRight ==
    ASSUME NEW v \in Value, NEW S, Fit(S, v), NEW f, \A k \in S : f[k] \in Right
    PROVE  Expanded(f, v) \in Right
<1> DEFINE n == Len(v)
<1>1. n \in Nat /\ DOMAIN v = 1..n /\ \A j \in 1..n : v[j] \in Piece
    BY DEF Value
<1>2. PICK e : /\ e \in Seq(Seq(Mark)) /\ Len(e) = n /\ Expanded(f, v) = FlattenSeq(e)
               /\ \A j \in 1..n : e[j] = IF v[j].op = "ref" THEN f[v[j].arg] ELSE <<Marked(v, j)>>
               /\ \A j \in 1..n : v[j].op = "ref" => f[v[j].arg] \in Right
  <2> DEFINE e == Parts(f, v)
  <2>1. /\ e \in Seq(Seq(Mark)) /\ Len(e) = n /\ Expanded(f, v) = FlattenSeq(e)
        /\ \A j \in 1..n : e[j] = IF v[j].op = "ref" THEN f[v[j].arg] ELSE <<Marked(v, j)>>
        /\ \A j \in 1..n : v[j].op = "ref" => f[v[j].arg] \in Right
      BY PartsFacts
  <2> HIDE DEF e
  <2>2. QED  BY <2>1
<1>3. PICK F : /\ F[0] = <<>> /\ \A k \in 1..n : F[k] = F[k - 1] \o e[k]
               /\ FlattenSeq(e) = F[n]
  <2>1. \E F : /\ F[0] = <<>> /\ \A k \in 1..Len(e) : F[k] = F[k - 1] \o e[k]
               /\ FlattenSeq(e) = F[Len(e)]
      BY <1>2, FlattenParts
  <2>2. QED  BY <1>2, <2>1
<1> HIDE DEF n
<1> DEFINE Upto(k) == F[k] \in Right /\ \A j \in 1..k : v[j].op = "setenv" => v[j] \in Range(F[k])
           N == {k \in Nat : k <= n => Upto(k)}
<1>4. 0 \in N
    BY <1>3, RightFacts
<1>5. ASSUME NEW k \in N, k + 1 <= n PROVE Upto(k + 1)
  <2>1. k \in Nat /\ k <= n /\ k + 1 \in 1..n /\ (k + 1) - 1 = k
      BY <1>1, <1>5
  <2>2. Upto(k) /\ F[k + 1] = F[k] \o e[k + 1]
      BY <1>3, <2>1
  <2> DEFINE s == F[k]
             t == e[k + 1]
             p == v[k + 1]
  <2>3. /\ p \in Piece /\ s \in Right /\ t = (IF p.op = "ref" THEN f[p.arg] ELSE <<Marked(v, k + 1)>>)
        /\ p.op = "ref" => f[p.arg] \in Right
      BY <1>1, <1>2, <2>1, <2>2
  <2>4. \/ Marked(v, k + 1) = p
        \/ p.op = "getenv" /\ p.arg \in EnvVar /\ Marked(v, k + 1) = Own(p.arg) /\ \E i \in 1..((k + 1) - 1) : v[i] = Setenv(p.arg)
      BY <1>1, <2>1, MarkedFacts
  <2>5. s \in Seq(Mark)
      BY <2>3 DEF Right
  <2>6. \A j \in 1..k : v[j].op = "setenv" => v[j] \in Range(s)
      BY <2>2
  <2> HIDE DEF s, t, p
  <2>7. s \o t \in Right /\ t \in Seq(Mark) /\ (p.op = "setenv" => p \in Range(t))
    <3>1. CASE p.op = "ref"
      <4>1. t \in Right
          BY <2>3, <3>1
      <4>2. s \o t \in Right
          BY <2>3, <4>1, RightFacts
      <4>3. QED  BY <3>1, <4>1, <4>2 DEF Right
    <3>2. CASE p.op # "ref" /\ Marked(v, k + 1) = p
      <4>1. t = <<p>> /\ t \in Right
          BY <2>3, <3>2, RightFacts
      <4>2. s \o t \in Right
          BY <2>3, <4>1, RightFacts
      <4>3. Range(t) = {p}
          BY <4>1, RangeOfShort
      <4>4. QED  BY <4>1, <4>2, <4>3 DEF Right
    <3>3. CASE /\ p.op = "getenv" /\ p.arg \in EnvVar /\ Marked(v, k + 1) = Own(p.arg)
               /\ \E i \in 1..((k + 1) - 1) : v[i] = Setenv(p.arg)
      <4>1. PICK i \in 1..k : v[i] = Setenv(p.arg)
          BY <2>1, <3>3
      <4>2. Setenv(p.arg) \in Range(s)
        <5>1. v[i].op = "setenv"
            BY <4>1 DEF Setenv
        <5>2. QED  BY <2>6, <4>1, <5>1
      <4>3. t = <<Own(p.arg)>>
          BY <2>3, <3>3
      <4>4. s \o t \in Right
          BY <2>3, <3>3, <4>2, <4>3, RightFacts
      <4>5. Own(p.arg) \in Mark
          BY <3>3, Marks, Zenon
      <4>6. t \in Seq(Mark)
          BY <4>3, <4>5, Single
      <4>7. QED  BY <3>3, <4>4, <4>6
    <3>4. CASE p.op # "ref" /\ Marked(v, k + 1) # p
        BY <2>4, <3>3, <3>4
    <3>5. QED  BY <3>1, <3>2, <3>4
  <2>8. Range(s \o t) = Range(s) \cup Range(t)
      BY <2>5, <2>7, ConcatRange
  <2>9. ASSUME NEW j \in 1..(k + 1), v[j].op = "setenv" PROVE v[j] \in Range(s \o t)
    <3>1. CASE j = k + 1
        BY <2>7, <2>8, <2>9, <3>1 DEF p
    <3>2. CASE j # k + 1
      <4>1. j \in 1..k
          BY <2>1, <3>2
      <4>2. QED  BY <2>6, <2>8, <2>9, <4>1
    <3>3. QED  BY <3>1, <3>2
  <2>10. F[k + 1] = s \o t
      BY <2>2 DEF s, t
  <2>11. QED  BY <2>7, <2>9, <2>10
<1> HIDE DEF Upto
<1>6. \A k \in N : k + 1 \in N
    BY <1>5
<1>7. N = Nat
  <2> N \in SUBSET Nat
      OBVIOUS
  <2> HIDE DEF N
  <2>1. QED  BY <1>4, <1>6, Induction
<1>8. Upto(n)
    BY <1>1, <1>7
<1>9. QED  BY <1>2, <1>3, <1>8 DEF Upto

LEMMA FormatRight == ASSUME NEW a \in Seq(Right) PROVE Format(a) \in Right
<1> DEFINE C == {<<s, s>> : s \in Right}
<1>1. Right \subseteq Seq(Mark)
    BY DEF Right
<1>2. Joins(Mark, C)
  <2>1. <<<<>>, <<>>>> \in C
      BY RightFacts
  <2>2. ASSUME NEW s \in Seq(Mark), NEW t \in Seq(Mark), NEW u \in Seq(Mark), NEW v \in Seq(Mark), <<s, t>> \in C, <<u, v>> \in C
        PROVE  <<s \o u, t \o v>> \in C
    <3>1. s = t /\ u = v /\ s \in Right /\ u \in Right
        BY <2>2
    <3>2. s \o u \in Right
        BY <3>1, RightFacts
    <3>3. QED  BY <3>1, <3>2
  <2>3. QED  BY <2>1, <2>2 DEF Joins
<1>3. Brackets(C)
  <2>1. \A w \in {"[", "]", ","} : Text(w) \in Piece
      BY EvalAssumption, Pieces
  <2>2. \A w \in {"[", "]", ","} : <<Text(w)>> \in Right
      BY <2>1, RightFacts
  <2>3. QED  BY <2>2 DEF Brackets
<1>4. \A i \in 1..Len(a) : a[i] \in Right
    BY Elements
<1>5. \A i \in 1..Len(a) : <<a[i], a[i]>> \in C
    BY <1>4
<1>6. a \in Seq(Seq(Mark))
  <2>1. Len(a) \in Nat /\ a = [i \in 1..Len(a) |-> a[i]]
      OBVIOUS
  <2>2. a \in [1..Len(a) -> Seq(Mark)]
      BY <1>1, <1>4, <2>1
  <2>3. QED  BY <2>1, <2>2, Listed
<1> HIDE DEF C
<1>7. <<Format(a), Format(a)>> \in C
    BY <1>2, <1>3, <1>5, <1>6, FormatPairs
<1>8. QED  BY <1>7 DEF C

LEMMA OfRight ==
    ASSUME forest \in Forests, NEW n \in Sound
    PROVE  /\ \A k \in Reach[n] : Of[n][k] \in Right
           /\ \A k \in Reach[n] : Of[n][k] = KeyMeans(Of[n], n, k)
<1> DEFINE f == Of[n]
           U == Reach[n]
           T == {k \in Key : k \in U => f[k] \in Right}
<1>1. n \in Node /\ U \in SUBSET Key /\ U \subseteq Grounded[n] /\ Sufficient(n, U)
    BY ReachFacts
<1>2. \A k \in U : f[k] = KeyMeans(f, n, k)
  <2> DEFINE h == [k \in U |-> KeyMeans(f, n, k)]
  <2>1. f = h
      BY OfExists DEF Solves
  <2>2. \A k \in U : h[k] = KeyMeans(f, n, k)
      OBVIOUS
  <2> HIDE DEF h, f, U
  <2>3. QED  BY <2>1, <2>2
<1> HIDE DEF f, U
<1>3. Inductive(n, T)
  <2> SUFFICES ASSUME NEW k \in Key, Owner(n, k) # 0, \A v \in ValuesOf(n, k) : Fit(T, v), k \in U PROVE f[k] \in Right
      BY DEF Inductive
  <2> DEFINE values == given[Owner(n, k)][k]
             means == [i \in DOMAIN values |-> Expanded(f, values[i])]
  <2>1. values \in Seq(Value) /\ ValuesOf(n, k) = Range(values)
    <3>1. Owner(n, k) \in Node /\ k \in DOMAIN given[Owner(n, k)]
        BY <1>1, OwnerFacts
    <3>2. QED  BY <3>1, Forest DEF ValuesOf, given
  <2>2. f[k] = Format(means)
      BY <1>2 DEF KeyMeans
  <2> HIDE DEF values
  <2>3. Len(values) \in Nat /\ DOMAIN values = 1..Len(values) /\ \A i \in 1..Len(values) : values[i] \in Value
      BY <2>1, Elements
  <2>4. ASSUME NEW i \in 1..Len(values) PROVE Expanded(f, values[i]) \in Right
    <3> DEFINE S == T \cap U
    <3>1. Fit(T, values[i]) /\ Fit(U, values[i])
        BY <1>1, <2>1, <2>3 DEF Sufficient, Range
    <3>2. Fit(S, values[i])
        BY <3>1 DEF Fit
    <3>3. \A a \in S : f[a] \in Right
        OBVIOUS
    <3> HIDE DEF S
    <3>4. QED  BY <2>3, <3>2, <3>3, ExpandedRight
  <2>5. means = [i \in 1..Len(values) |-> Expanded(f, values[i])]
      BY <2>3
  <2> HIDE DEF means
  <2>6. means \in [1..Len(values) -> Right]
      BY <2>4, <2>5
  <2>7. means \in Seq(Right)
      BY <2>3, <2>6, Listed
  <2>8. QED  BY <2>2, <2>7, FormatRight
<1>4. T \in SUBSET Key
    OBVIOUS
<1>5. \A k \in U : k \in T
    BY <1>1, <1>3, <1>4 DEF Grounded
<1>6. \A k \in U : f[k] \in Right
    BY <1>5
<1>7. QED  BY <1>2, <1>6 DEF f, U
-----------------------------------------------------------------------------
(* What is left of a mark when the variables of set have been set: a setenv      *)
(* becomes empty text, a getenv its variable or empty text; but one that        *)
(* follows a setenv does not become empty text, unless it is together with one  *)
(* before it that follows none.                                             *)
May(y, m, set) ==
    \/ y = m
    \/ /\ m.op \in {"getenv", "own"} /\ y.op \in {"raw", "text"}
       /\ y.op = "raw" => y.arg = m.arg
       /\ y.op = "text" => y.arg \in {m.arg, ""}
    \/ m.op = "setenv" /\ y = Text("") /\ m.arg \in set
Late(s, m) ==
    \A i \in 1..Len(m) : m[i].op = "own" /\ s[i].op = "text" /\ s[i].arg # m[i].arg =>
        \E l \in 1..(i - 1) : m[l] = Getenv(m[i].arg)
Half(set) ==
    {c \in Seq(Mark) \X Seq(Mark) :
        /\ Len(c[1]) = Len(c[2]) /\ \A i \in 1..Len(c[2]) : May(c[1][i], c[2][i], set)
        /\ Late(c[1], c[2])}

LEMMA HalfIs ==
    \A set, s, m : <<s, m>> \in Half(set) <=>
        /\ s \in Seq(Mark) /\ m \in Seq(Mark) /\ Len(s) = Len(m)
        /\ \A i \in 1..Len(m) : May(s[i], m[i], set)
        /\ Late(s, m)
BY DEF Half

LEMMA HalfSame == \A set : \A s \in Seq(Mark) : <<s, s>> \in Half(set)
<1> SUFFICES ASSUME NEW set, NEW s \in Seq(Mark) PROVE <<s, s>> \in Half(set)
    OBVIOUS
<1>1. \A i \in 1..Len(s) : May(s[i], s[i], set)
    BY DEF May
<1>2. Late(s, s)
    BY DEF Late
<1>3. QED  BY <1>1, <1>2, HalfIs

LEMMA HalfMore ==
    ASSUME NEW set, NEW more, set \subseteq more
    PROVE  Half(set) \subseteq Half(more)
<1>1. \A y, m : May(y, m, set) => May(y, m, more)
    BY DEF May
<1>2. QED  BY <1>1 DEF Half

LEMMA HalfJoins == ASSUME NEW set PROVE Joins(Mark, Half(set)) /\ Brackets(Half(set))
<1>1. <<<<>>, <<>>>> \in Half(set)
  <2>1. <<>> \in Seq(Mark)
      OBVIOUS
  <2>2. QED  BY <2>1, HalfSame
<1>2. Brackets(Half(set))
  <2>1. \A w \in {"[", "]", ","} : Text(w) \in Mark
      BY Marks, Zenon
  <2>2. \A w \in {"[", "]", ","} : <<Text(w)>> \in Seq(Mark)
      BY <2>1, Single
  <2>3. QED  BY <2>2, HalfSame DEF Brackets
<1>3. ASSUME NEW s \in Seq(Mark), NEW t \in Seq(Mark), NEW u \in Seq(Mark), NEW v \in Seq(Mark),
             <<s, t>> \in Half(set), <<u, v>> \in Half(set)
      PROVE  <<s \o u, t \o v>> \in Half(set)
  <2> DEFINE y == s \o u
             m == t \o v
             n == Len(t)
             k == Len(v)
  <2>1. /\ Len(s) = n /\ Len(u) = k /\ n \in Nat /\ k \in Nat
        /\ \A i \in 1..n : May(s[i], t[i], set)
        /\ \A i \in 1..k : May(u[i], v[i], set)
        /\ Late(s, t) /\ Late(u, v)
      BY <1>3, HalfIs
  <2>2. /\ y \in Seq(Mark) /\ Len(y) = n + k
        /\ \A i \in 1..n : y[i] = s[i]
        /\ \A j \in 1..k : n + j \in 1..(n + k) /\ y[n + j] = u[j]
    <3> DEFINE la == Len(s)
               lb == Len(u)
    <3>1. /\ y \in Seq(Mark) /\ Len(y) = la + lb
          /\ \A i \in 1..la : y[i] = s[i]
          /\ \A j \in 1..lb : la + j \in 1..(la + lb) /\ y[la + j] = u[j]
        BY <1>3, ConcatFacts
    <3>2. la = n /\ lb = k
        BY <2>1
    <3> HIDE DEF la, lb, y, n, k
    <3>3. QED  BY <3>1, <3>2
  <2>3. /\ m \in Seq(Mark) /\ Len(m) = n + k
        /\ \A i \in 1..n : m[i] = t[i]
        /\ \A j \in 1..k : m[n + j] = v[j]
        /\ \A i \in 1..(n + k) : i \in 1..n \/ \E j \in 1..k : i = n + j
      BY <1>3, ConcatFacts
  <2> HIDE DEF y, m
  <2>4. \A i \in 1..(n + k) : May(y[i], m[i], set)
    <3> HIDE DEF n, k
    <3>1. \A i \in 1..n : May(y[i], m[i], set)
        BY <2>1, <2>2, <2>3
    <3>2. \A j \in 1..k : May(y[n + j], m[n + j], set)
        BY <2>1, <2>2, <2>3
    <3>3. QED  BY <2>3, <3>1, <3>2
  <2>5. ASSUME NEW i \in 1..(n + k), m[i].op = "own", y[i].op = "text", y[i].arg # m[i].arg
        PROVE  \E l \in 1..(i - 1) : m[l] = Getenv(m[i].arg)
    <3>1. CASE i \in 1..n
      <4>1. PICK l \in 1..(i - 1) : t[l] = Getenv(t[i].arg)
          BY <2>1, <2>2, <2>3, <2>5, <3>1 DEF Late, n
      <4>2. l \in 1..n
          BY <2>1, <3>1
      <4>3. QED  BY <2>3, <3>1, <4>1, <4>2
    <3>2. CASE i \notin 1..n
      <4>1. PICK j \in 1..k : i = n + j
          BY <2>3, <3>2
      <4>2. PICK l \in 1..(j - 1) : v[l] = Getenv(v[j].arg)
          BY <2>1, <2>2, <2>3, <2>5, <4>1 DEF Late, k
      <4>3. l \in 1..k /\ n + l \in 1..(i - 1)
          BY <2>1, <4>1
      <4>4. QED  BY <2>3, <4>1, <4>2, <4>3
    <3>3. QED  BY <3>1, <3>2
  <2>6. Late(y, m)
      BY <2>3, <2>5 DEF Late
  <2>7. <<y, m>> \in Half(set)
      BY <2>2, <2>3, <2>4, <2>6, HalfIs
  <2>8. QED  BY <2>7 DEF y, m
<1>4. QED  BY <1>1, <1>2, <1>3 DEF Joins

LEMMA HalfOfHalf ==
    ASSUME NEW set, NEW y, NEW x, NEW m, <<y, x>> \in Half(set), <<x, m>> \in Half(set)
    PROVE  <<y, m>> \in Half(set)
<1>1. /\ y \in Seq(Mark) /\ x \in Seq(Mark) /\ m \in Seq(Mark) /\ Len(y) = Len(x) /\ Len(x) = Len(m) /\ Len(m) \in Nat
      /\ \A i \in 1..Len(m) : May(y[i], x[i], set) /\ May(x[i], m[i], set)
      /\ Late(y, x) /\ Late(x, m)
    BY HalfIs
<1>2. \A w : Text(w).op = "text"
    BY DEF Text
<1>3. \A i \in 1..Len(m) : y[i] = x[i] \/ (x[i] = m[i] /\ x[i].op \in {"getenv", "own", "setenv"})
    BY <1>1, <1>2 DEF May
<1>4. \A i \in 1..Len(m) : May(y[i], m[i], set)
    BY <1>1, <1>3
<1>5. ASSUME NEW i \in 1..Len(m), m[i].op = "own", y[i].op = "text", y[i].arg # m[i].arg
      PROVE  \E l \in 1..(i - 1) : m[l] = Getenv(m[i].arg)
  <2>1. CASE y[i] = x[i]
      BY <1>1, <1>5, <2>1 DEF Late
  <2>2. CASE x[i] = m[i]
    <3>1. PICK l \in 1..(i - 1) : x[l] = Getenv(m[i].arg)
        BY <1>1, <1>5, <2>2 DEF Late
    <3>2. l \in 1..Len(m) /\ x[l].op = "getenv"
        BY <1>1, <3>1 DEF Getenv
    <3>3. x[l] = m[l]
        BY <1>1, <1>2, <3>2 DEF May
    <3>4. QED  BY <3>1, <3>3
  <2>3. QED  BY <1>3, <2>1, <2>2
<1>6. Late(y, m)
    BY <1>1, <1>5 DEF Late
<1>7. QED  BY <1>1, <1>4, <1>6, HalfIs
-----------------------------------------------------------------------------
(* What a value that is worked on stands for.                                *)
Ready(S) == {p \in Piece : p.op # "malformed" /\ (p.op = "ref" => p.arg \in S)}
Unmarked(p) == IF p.op = "getenv" THEN Raw(p.arg) ELSE p
Opened(f, p) == IF p.op = "ref" THEN f[p.arg] ELSE <<Unmarked(p)>>
Open(f, w) == FlattenSeq([j \in DOMAIN w |-> Opened(f, w[j])])

LEMMA ReadyIs == \A S : \A w \in Value : Fit(S, w) <=> w \in Seq(Ready(S))
<1> SUFFICES ASSUME NEW S, NEW w \in Value PROVE Fit(S, w) <=> w \in Seq(Ready(S))
    OBVIOUS
<1>1. Len(w) \in Nat /\ DOMAIN w = 1..Len(w) /\ w = [i \in 1..Len(w) |-> w[i]] /\ \A i \in 1..Len(w) : w[i] \in Piece
    BY DEF Value
<1>2. Fit(S, w) <=> \A i \in 1..Len(w) : w[i] \in Ready(S)
    BY <1>1 DEF Fit, Ready, Range
<1>3. (\A i \in 1..Len(w) : w[i] \in Ready(S)) => w \in [1..Len(w) -> Ready(S)]
    BY <1>1
<1>4. w \in [1..Len(w) -> Ready(S)] => w \in Seq(Ready(S))
    BY <1>1, Listed
<1>5. w \in Seq(Ready(S)) => \A i \in 1..Len(w) : w[i] \in Ready(S)
    BY Elements
<1>6. QED  BY <1>2, <1>3, <1>4, <1>5

LEMMA OpenedFacts ==
    ASSUME NEW S, NEW f, \A k \in S : f[k] \in Right, NEW p \in Ready(S)
    PROVE  Opened(f, p) \in Seq(Mark)
<1>1. CASE p.op = "ref"
    BY <1>1 DEF Opened, Ready, Right
<1>2. CASE p.op # "ref"
  <2>1. p \in Mark
      BY Marks DEF Ready
  <2>2. Unmarked(p) \in Mark
    <3>1. p.op = "getenv" => p.arg \in EnvVar
        BY <2>1, Marks, Zenon
    <3>2. \A a \in EnvVar : Raw(a) \in Mark
        BY Marks, Zenon
    <3>3. QED  BY <2>1, <3>1, <3>2 DEF Unmarked
  <2>3. QED  BY <1>2, <2>2, Single DEF Opened
<1>3. QED  BY <1>1, <1>2

LEMMA OpenFacts ==
    ASSUME NEW S, NEW f, \A k \in S : f[k] \in Right, NEW w \in Seq(Ready(S))
    PROVE  LET e == [j \in DOMAIN w |-> Opened(f, w[j])]
           IN  /\ e \in Seq(Seq(Mark)) /\ Len(e) = Len(w) /\ \A j \in 1..Len(w) : e[j] = Opened(f, w[j])
               /\ Open(f, w) = FlattenSeq(e) /\ Open(f, w) \in Seq(Mark)
<1> DEFINE e == [j \in DOMAIN w |-> Opened(f, w[j])]
<1>1. Len(w) \in Nat /\ DOMAIN w = 1..Len(w) /\ \A j \in 1..Len(w) : w[j] \in Ready(S)
    BY Elements
<1>2. \A j \in 1..Len(w) : Opened(f, w[j]) \in Seq(Mark)
    BY <1>1, OpenedFacts
<1>3. e = [j \in 1..Len(w) |-> Opened(f, w[j])] /\ \A j \in 1..Len(w) : e[j] = Opened(f, w[j])
    BY <1>1
<1>4. Open(f, w) = FlattenSeq(e)
    BY DEF Open
<1> HIDE DEF e
<1>5. e \in [1..Len(w) -> Seq(Mark)]
    BY <1>2, <1>3
<1>6. e \in Seq(Seq(Mark)) /\ Len(e) = Len(w)
    BY <1>1, <1>5, Listed
<1>7. Open(f, w) \in Seq(Mark)
    BY <1>4, <1>6, FlattenSeqRange
<1>8. QED  BY <1>3, <1>4, <1>6, <1>7 DEF e

LEMMA OpenTaken ==
    ASSUME NEW S, NEW f, \A k \in S : f[k] \in Right, NEW w \in Seq(Ready(S))
    PROVE  \E e \in Seq(Seq(Mark)) : /\ Len(e) = Len(w) /\ Open(f, w) = FlattenSeq(e)
                                    /\ \A j \in 1..Len(w) : e[j] = Opened(f, w[j])
<1> DEFINE e == [j \in DOMAIN w |-> Opened(f, w[j])]
<1>1. e \in Seq(Seq(Mark)) /\ Len(e) = Len(w) /\ (\A j \in 1..Len(w) : e[j] = Opened(f, w[j])) /\ Open(f, w) = FlattenSeq(e)
    BY OpenFacts
<1> HIDE DEF e
<1>2. QED  BY <1>1

LEMMA OpenJoins ==
    ASSUME NEW S, NEW f, \A k \in S : f[k] \in Right
    PROVE  /\ Open(f, <<>>) = <<>> /\ <<>> \in Seq(Ready(S))
           /\ \A p \in Ready(S) : <<p>> \in Seq(Ready(S)) /\ Open(f, <<p>>) = Opened(f, p)
<1>1. Open(f, <<>>) = <<>> /\ <<>> \in Seq(Ready(S))
  <2>1. [j \in DOMAIN <<>> |-> Opened(f, <<>>[j])] = <<>>
      OBVIOUS
  <2>2. <<>> \in Seq(Seq(Mark))
      OBVIOUS
  <2>3. FlattenSeq(<<>>) = <<>>
      BY DEF FlattenSeq
  <2>4. QED  BY <2>1, <2>3 DEF Open
<1>2. ASSUME NEW p \in Ready(S) PROVE <<p>> \in Seq(Ready(S)) /\ Open(f, <<p>>) = Opened(f, p)
  <2> DEFINE w == <<p>>
  <2>1. w \in Seq(Ready(S)) /\ Len(w) = 1 /\ w[1] = p
      BY Single
  <2> HIDE DEF w
  <2>2. PICK e : /\ e \in Seq(Seq(Mark)) /\ Len(e) = 1 /\ e[1] = Opened(f, w[1]) /\ Open(f, w) = FlattenSeq(e)
    <3> DEFINE e == [j \in DOMAIN w |-> Opened(f, w[j])]
    <3>1. e \in Seq(Seq(Mark)) /\ Len(e) = Len(w) /\ (\A j \in 1..Len(w) : e[j] = Opened(f, w[j])) /\ Open(f, w) = FlattenSeq(e)
        BY <2>1, OpenFacts
    <3> HIDE DEF e
    <3>2. 1 \in 1..Len(w)
        BY <2>1
    <3>3. QED  BY <2>1, <3>1, <3>2
  <2>3. e = <<Opened(f, p)>> /\ Opened(f, p) \in Seq(Mark)
      BY <2>1, <2>2, OpenedFacts
  <2>4. FlattenSeq(e) = Opened(f, p)
      BY <2>3, FlattenShort
  <2>5. QED  BY <2>1, <2>2, <2>4 DEF w
<1>3. QED  BY <1>1, <1>2

LEMMA OpenConcat ==
    ASSUME NEW S, NEW f, \A k \in S : f[k] \in Right, NEW v \in Seq(Ready(S)), NEW w \in Seq(Ready(S))
    PROVE  v \o w \in Seq(Ready(S)) /\ Open(f, v \o w) = Open(f, v) \o Open(f, w)
<1> DEFINE u == v \o w
           n == Len(v)
           k == Len(w)
           Opens(e, x) == /\ e \in Seq(Seq(Mark)) /\ Len(e) = Len(x) /\ Open(f, x) = FlattenSeq(e)
                          /\ \A j \in 1..Len(x) : e[j] = Opened(f, x[j])
<1>1. \A x \in Seq(Ready(S)) : \E e : Opens(e, x)
    BY OpenTaken
<1>2. /\ n \in Nat /\ k \in Nat /\ u \in Seq(Ready(S)) /\ Len(u) = n + k
      /\ \A i \in 1..n : i \in 1..(n + k) /\ u[i] = v[i]
      /\ \A j \in 1..k : n + j \in 1..(n + k) /\ u[n + j] = w[j]
      /\ \A i \in 1..(n + k) : i \in 1..n \/ \E j \in 1..k : i = n + j
  <2> DEFINE R == Ready(S)
  <2>1. v \in Seq(R) /\ w \in Seq(R)
      OBVIOUS
  <2> HIDE DEF R
  <2>2. /\ n \in Nat /\ k \in Nat /\ u \in Seq(R) /\ Len(u) = n + k
        /\ \A i \in 1..n : i \in 1..(n + k) /\ u[i] = v[i]
        /\ \A j \in 1..k : n + j \in 1..(n + k) /\ u[n + j] = w[j]
        /\ \A i \in 1..(n + k) : i \in 1..n \/ \E j \in 1..k : i = n + j
      BY ONLY <2>1, ConcatFacts
  <2>3. QED  BY <2>2 DEF R
<1>3. PICK a : Opens(a, v)
    BY <1>1
<1>4. PICK b : Opens(b, w)
    BY <1>1
<1> HIDE DEF u
<1>5. PICK c : Opens(c, u)
    BY <1>1, <1>2
<1> DEFINE d == a \o b
<1>6. a \in Seq(Seq(Mark)) /\ b \in Seq(Seq(Mark)) /\ Len(a) = n /\ Len(b) = k
    BY <1>3, <1>4
<1>7. /\ d \in Seq(Seq(Mark)) /\ Len(d) = n + k
      /\ \A i \in 1..n : d[i] = a[i]
      /\ \A j \in 1..k : d[n + j] = b[j]
  <2> DEFINE la == Len(a)
             lb == Len(b)
  <2>1. /\ d \in Seq(Seq(Mark)) /\ Len(d) = la + lb
        /\ \A i \in 1..la : d[i] = a[i]
        /\ \A j \in 1..lb : d[la + j] = b[j]
    <3> DEFINE R == Seq(Mark)
    <3>1. a \in Seq(R) /\ b \in Seq(R)
        BY <1>6
    <3> HIDE DEF R
    <3>2. /\ d \in Seq(R) /\ Len(d) = la + lb
          /\ \A i \in 1..la : d[i] = a[i]
          /\ \A j \in 1..lb : d[la + j] = b[j]
        BY ONLY <3>1, ConcatFacts
    <3>3. QED  BY <3>2 DEF R
  <2>2. la = n /\ lb = k
      BY <1>6
  <2> HIDE DEF la, lb, d, n, k
  <2>3. QED  BY <2>1, <2>2
<1>8. /\ c \in Seq(Seq(Mark)) /\ Len(c) = n + k
      /\ \A i \in 1..(n + k) : c[i] = Opened(f, u[i])
    BY <1>2, <1>5
<1>9. \A i \in 1..n : a[i] = Opened(f, v[i])
    BY <1>3
<1>10. \A j \in 1..k : b[j] = Opened(f, w[j])
    BY <1>4
<1>11. Open(f, v) = FlattenSeq(a) /\ Open(f, w) = FlattenSeq(b) /\ Open(f, u) = FlattenSeq(c)
    BY <1>3, <1>4, <1>5
<1> HIDE DEF d, n, k, Opens
<1>12. ASSUME NEW i \in 1..n PROVE c[i] = d[i]
  <2>1. i \in 1..(n + k) /\ u[i] = v[i]
      BY <1>2
  <2>2. d[i] = Opened(f, v[i])
      BY <1>7, <1>9
  <2>3. c[i] = Opened(f, u[i])
      BY <1>8, <2>1
  <2>4. QED  BY <2>1, <2>2, <2>3
<1>13. ASSUME NEW j \in 1..k PROVE c[n + j] = d[n + j]
  <2>1. n + j \in 1..(n + k) /\ u[n + j] = w[j]
      BY <1>2
  <2>2. d[n + j] = Opened(f, w[j])
      BY <1>7, <1>10
  <2>3. c[n + j] = Opened(f, u[n + j])
      BY <1>8, <2>1
  <2>4. QED  BY <2>1, <2>2, <2>3
<1>14. ASSUME NEW i \in 1..Len(c) PROVE c[i] = d[i]
  <2>1. i \in 1..n \/ \E j \in 1..k : i = n + j
      BY <1>2, <1>8
  <2>2. QED  BY <1>12, <1>13, <2>1
<1>15. c = d
    BY <1>7, <1>8, <1>14, SameSequence
<1>16. FlattenSeq(d) = FlattenSeq(a) \o FlattenSeq(b)
    BY <1>6, FlattenConcat DEF d
<1>17. QED  BY <1>2, <1>11, <1>15, <1>16 DEF u

(* The same with names for the sets, which the provers then leave alone.        *)
Cat(v, w) == v \o w
Clean(S) == Seq(Ready(S))
AllRight(S, f) == \A k \in S : f[k] \in Right

LEMMA OpenCat ==
    ASSUME NEW S, NEW f, AllRight(S, f), NEW v \in Clean(S), NEW w \in Clean(S)
    PROVE  Cat(v, w) \in Clean(S) /\ Open(f, Cat(v, w)) = Cat(Open(f, v), Open(f, w))
BY OpenConcat DEF Cat, Clean, AllRight

LEMMA OpenOne ==
    ASSUME NEW S, NEW f, AllRight(S, f)
    PROVE  /\ <<>> \in Clean(S) /\ Open(f, <<>>) = <<>>
           /\ \A p \in Ready(S) : <<p>> \in Clean(S) /\ Open(f, <<p>>) = Opened(f, p)
BY OpenJoins DEF Clean, AllRight

LEMMA OpenType ==
    ASSUME NEW S, NEW f, AllRight(S, f), NEW w \in Clean(S)
    PROVE  /\ Open(f, w) \in Seq(Mark)
           /\ \E e \in Seq(Seq(Mark)) : /\ Len(e) = Len(w) /\ Open(f, w) = FlattenSeq(e)
                                        /\ \A j \in 1..Len(w) : e[j] = Opened(f, w[j])
<1>1. Open(f, w) \in Seq(Mark)
    BY OpenFacts DEF Clean, AllRight
<1>2. QED  BY <1>1, OpenTaken DEF Clean, AllRight
-----------------------------------------------------------------------------
(* Values without a reference that cannot be resolved, when S is what can be.    *)
LEMMA CleanFacts ==
    \A S : /\ Ready(S) \subseteq Mark /\ Ready(S) \subseteq Piece /\ Clean(S) \subseteq Seq(Mark) /\ Clean(S) \subseteq Value
          /\ \A T : S \subseteq T => Ready(S) \subseteq Ready(T) /\ Clean(S) \subseteq Clean(T)
<1>1. \A S : Ready(S) \subseteq Piece
    BY DEF Ready
<1>2. Piece \subseteq Mark
    BY DEF Mark
<1>3. ASSUME NEW A, NEW B, A \subseteq B PROVE Seq(A) \subseteq Seq(B)
    BY <1>3
<1>4. \A S : Clean(S) \subseteq Seq(Mark) /\ Clean(S) \subseteq Value
    BY <1>1, <1>2, <1>3 DEF Value, Clean
<1>5. \A S, T : S \subseteq T => Ready(S) \subseteq Ready(T)
    BY DEF Ready
<1>6. \A S, T : S \subseteq T => Clean(S) \subseteq Clean(T)
    BY <1>3, <1>5 DEF Clean
<1>7. QED  BY <1>1, <1>2, <1>4, <1>5, <1>6

LEMMA WordsReady ==
    ASSUME NEW S, NEW w, Text(w) \in Piece
    PROVE  /\ Text(w) \in Ready(S) /\ Text(w) \in Mark
           /\ \A f : Opened(f, Text(w)) = <<Text(w)>>
<1>1. Text(w).op = "text" /\ Text(w) \in Mark
    BY Marks DEF Text
<1>2. Text(w) \in Ready(S)
    BY <1>1 DEF Ready
<1>3. \A f : Opened(f, Text(w)) = <<Text(w)>>
    BY <1>1 DEF Opened, Unmarked
<1>4. QED  BY <1>1, <1>2, <1>3

(* Pairs of a value and what it stands for.                                  *)
Stands(S, f) == {c \in Seq(Mark) \X Seq(Mark) : c[1] \in Clean(S) /\ c[2] = Open(f, c[1])}

LEMMA StandsFacts ==
    ASSUME NEW S, NEW f, AllRight(S, f)
    PROVE  /\ Joins(Mark, Stands(S, f)) /\ Brackets(Stands(S, f))
           /\ \A s \in Clean(S) : <<s, Open(f, s)>> \in Stands(S, f)
           /\ \A s, t : <<s, t>> \in Stands(S, f) => s \in Clean(S) /\ t = Open(f, s)
<1> DEFINE C == Stands(S, f)
<1>1. \A s, t : <<s, t>> \in C <=> s \in Seq(Mark) /\ t \in Seq(Mark) /\ s \in Clean(S) /\ t = Open(f, s)
    BY DEF Stands
<1>2. \A s \in Clean(S) : s \in Seq(Mark) /\ Open(f, s) \in Seq(Mark)
  <2>1. \A s \in Clean(S) : Open(f, s) \in Seq(Mark)
      BY OpenType
  <2>2. QED  BY <2>1, CleanFacts
<1> HIDE DEF C
<1>3. \A s \in Clean(S) : <<s, Open(f, s)>> \in C
    BY <1>1, <1>2
<1>4. <<<<>>, <<>>>> \in C
    BY <1>3, OpenOne
<1>5. ASSUME NEW s \in Seq(Mark), NEW t \in Seq(Mark), NEW u \in Seq(Mark), NEW v \in Seq(Mark), <<s, t>> \in C, <<u, v>> \in C
      PROVE  <<s \o u, t \o v>> \in C
  <2>1. s \in Clean(S) /\ u \in Clean(S) /\ t = Open(f, s) /\ v = Open(f, u)
      BY <1>1, <1>5
  <2>2. Cat(s, u) \in Clean(S) /\ Open(f, Cat(s, u)) = Cat(t, v)
      BY <2>1, OpenCat
  <2>3. <<Cat(s, u), Cat(t, v)>> \in C
      BY <1>3, <2>2
  <2>4. QED  BY <2>3 DEF Cat
<1>6. Brackets(C)
  <2>1. ASSUME NEW w \in {"[", "]", ","} PROVE <<<<Text(w)>>, <<Text(w)>>>> \in C
    <3>1. Text(w) \in Piece
        BY EvalAssumption, Pieces
    <3>2. Text(w) \in Ready(S) /\ Opened(f, Text(w)) = <<Text(w)>>
        BY <3>1, WordsReady
    <3>3. <<Text(w)>> \in Clean(S) /\ Open(f, <<Text(w)>>) = <<Text(w)>>
        BY <3>2, OpenOne
    <3>4. QED  BY <1>3, <3>3
  <2>2. QED  BY <2>1 DEF Brackets
<1>7. Joins(Mark, C)
    BY <1>4, <1>5 DEF Joins
<1>8. QED  BY <1>1, <1>3, <1>6, <1>7 DEF C

LEMMA OpenFormat ==
    ASSUME NEW S, NEW f, AllRight(S, f), NEW a \in Seq(Clean(S)), NEW b \in Seq(Seq(Mark)), Len(b) = Len(a),
           \A i \in 1..Len(a) : b[i] = Open(f, a[i])
    PROVE  Format(a) \in Clean(S) /\ Open(f, Format(a)) = Format(b)
<1> DEFINE C == Stands(S, f)
           T == Clean(S)
<1>1. Joins(Mark, C) /\ Brackets(C)
    BY StandsFacts
<1>2. T \subseteq Seq(Mark)
    BY CleanFacts
<1>3. \A s \in T : <<s, Open(f, s)>> \in C
    BY StandsFacts
<1>4. \A s, t : <<s, t>> \in C => s \in T /\ t = Open(f, s)
    BY StandsFacts
<1>5. a \in Seq(T)
    OBVIOUS
<1> HIDE DEF C, T
<1>6. \A i \in 1..Len(a) : a[i] \in T
    BY <1>5, Elements
<1>7. a \in Seq(Seq(Mark))
    BY <1>2, <1>5
<1>8. \A i \in 1..Len(a) : <<a[i], b[i]>> \in C
    BY <1>3, <1>6
<1>9. <<Format(a), Format(b)>> \in C
    BY <1>1, <1>7, <1>8, FormatPairs
<1>10. QED  BY <1>4, <1>9 DEF T

LEMMA OpenFlat ==
    ASSUME NEW S, NEW f, AllRight(S, f), NEW a \in Seq(Clean(S)), NEW b \in Seq(Seq(Mark)), Len(b) = Len(a),
           \A i \in 1..Len(a) : b[i] = Open(f, a[i])
    PROVE  FlattenSeq(a) \in Clean(S) /\ Open(f, FlattenSeq(a)) = FlattenSeq(b)
<1> DEFINE C == Stands(S, f)
           T == Clean(S)
<1>1. Joins(Mark, C)
    BY StandsFacts
<1>2. T \subseteq Seq(Mark)
    BY CleanFacts
<1>3. \A s \in T : <<s, Open(f, s)>> \in C
    BY StandsFacts
<1>4. \A s, t : <<s, t>> \in C => s \in T /\ t = Open(f, s)
    BY StandsFacts
<1>5. a \in Seq(T)
    OBVIOUS
<1> HIDE DEF C, T
<1>6. \A i \in 1..Len(a) : a[i] \in T
    BY <1>5, Elements
<1>7. a \in Seq(Seq(Mark))
    BY <1>2, <1>5
<1>8. \A i \in 1..Len(a) : <<a[i], b[i]>> \in C
    BY <1>3, <1>6
<1>9. <<FlattenSeq(a), FlattenSeq(b)>> \in C
    BY <1>1, <1>7, <1>8, FlattenPairs
<1>10. QED  BY <1>4, <1>9 DEF T
-----------------------------------------------------------------------------
(* Text stands for itself.                                                  *)
Words == {p \in Piece : p.op = "text"}

LEMMA OpenText == \A f : \A w \in Seq(Words) : Open(f, w) = w /\ w \in Clean({})
<1> SUFFICES ASSUME NEW f PROVE \A w \in Seq(Words) : Open(f, w) = w /\ w \in Clean({})
    OBVIOUS
<1> DEFINE Same(w) == Open(f, w) = w /\ w \in Clean({})
           N == {n \in Nat : \A w \in Seq(Words) : Len(w) = n => Same(w)}
<1>1. AllRight({}, f)
    BY DEF AllRight
<1>2. \A p \in Words : p \in Ready({}) /\ Opened(f, p) = <<p>>
    BY DEF Words, Ready, Opened, Unmarked
<1>3. 0 \in N
  <2>1. \A w \in Seq(Words) : Len(w) = 0 => w = <<>>
      BY Elements
  <2>2. Open(f, <<>>) = <<>> /\ <<>> \in Clean({})
      BY <1>1, OpenOne
  <2>3. \A w \in Seq(Words) : Len(w) = 0 => Same(w)
      BY <2>1, <2>2
  <2>4. QED  BY <2>3
<1>4. ASSUME NEW n \in N PROVE n + 1 \in N
  <2> SUFFICES ASSUME NEW w \in Seq(Words), Len(w) = n + 1 PROVE Same(w)
      OBVIOUS
  <2>1. n \in Nat /\ w # <<>>
      OBVIOUS
  <2>2. PICK s \in Seq(Words) : w = s \o <<w[Len(w)]>> /\ Len(s) + 1 = Len(w) /\ w[Len(w)] \in Words
      BY <2>1, SplitLast
  <2> DEFINE p == w[Len(w)]
  <2>3. Len(s) = n
      BY <2>1, <2>2
  <2>4. Open(f, s) = s /\ s \in Clean({})
      BY <2>3
  <2>5. w = s \o <<p>> /\ p \in Words
      BY <2>2
  <2> HIDE DEF p, N
  <2>6. p \in Ready({}) /\ Opened(f, p) = <<p>>
      BY <1>2, <2>5
  <2>7. <<p>> \in Clean({}) /\ Open(f, <<p>>) = <<p>>
      BY <1>1, <2>6, OpenOne
  <2> DEFINE t == <<p>>
  <2>8. t \in Clean({}) /\ Open(f, t) = t
      BY <2>7
  <2> HIDE DEF t
  <2>9. Cat(s, t) \in Clean({}) /\ Open(f, Cat(s, t)) = Cat(s, t)
      BY <1>1, <2>4, <2>8, OpenCat
  <2>10. w = Cat(s, t)
      BY <2>5 DEF Cat, t
  <2>11. QED  BY <2>9, <2>10
<1>5. N = Nat
  <2> N \in SUBSET Nat
      OBVIOUS
  <2> HIDE DEF N
  <2>1. QED  BY <1>3, <1>4, Induction
<1>6. QED
  <2> SUFFICES ASSUME NEW w \in Seq(Words) PROVE Same(w)
      OBVIOUS
  <2>1. Len(w) \in N
      BY <1>5, Elements
  <2>2. QED  BY <2>1
-----------------------------------------------------------------------------
(* A mark of its own; a value as it was read.                                *)
LEMMA HalfOne ==
    ASSUME NEW set, NEW x \in Mark, NEW m \in Mark, May(x, m, set), m.op = "own" /\ x.op = "text" => x.arg = m.arg
    PROVE  <<<<x>>, <<m>>>> \in Half(set)
<1> DEFINE s == <<x>>
           t == <<m>>
<1>1. /\ s \in Seq(Mark) /\ Len(s) = 1 /\ s[1] = x
      /\ t \in Seq(Mark) /\ Len(t) = 1 /\ t[1] = m
    BY Single
<1> HIDE DEF s, t
<1>2. \A i \in 1..Len(t) : May(s[i], t[i], set)
    BY <1>1
<1>3. Late(s, t)
    BY <1>1 DEF Late
<1>4. <<s, t>> \in Half(set)
    BY <1>1, <1>2, <1>3, HalfIs
<1>5. QED  BY <1>4 DEF s, t

(* A value as it was read stands for what it means.                          *)
LEMMA HalfGiven ==
    ASSUME NEW v \in Value, NEW S, Fit(S, v), NEW f, AllRight(S, f), NEW set
    PROVE  v \in Clean(S) /\ <<Open(f, v), Expanded(f, v)>> \in Half(set)
<1>1. v \in Clean(S)
    BY ReadyIs DEF Clean
<1>2. PICK e \in Seq(Seq(Mark)) : /\ Len(e) = Len(v) /\ Open(f, v) = FlattenSeq(e)
                                  /\ \A j \in 1..Len(v) : e[j] = Opened(f, v[j])
    BY <1>1, OpenType
<1> DEFINE p == Parts(f, v)
<1>3. /\ p \in Seq(Seq(Mark)) /\ Len(p) = Len(v)
      /\ \A j \in 1..Len(v) : p[j] = IF v[j].op = "ref" THEN f[v[j].arg] ELSE <<Marked(v, j)>>
      /\ \A j \in 1..Len(v) : v[j].op = "ref" => f[v[j].arg] \in Right
      /\ Expanded(f, v) = FlattenSeq(p)
    BY PartsFacts DEF AllRight
<1>4. DOMAIN v = 1..Len(v) /\ \A j \in 1..Len(v) : v[j] \in Piece
    BY DEF Value
<1> HIDE DEF p
<1>5. ASSUME NEW j \in 1..Len(v) PROVE <<e[j], p[j]>> \in Half(set)
  <2>1. CASE v[j].op = "ref"
    <3>1. e[j] = f[v[j].arg] /\ p[j] = f[v[j].arg] /\ f[v[j].arg] \in Seq(Mark)
        BY <1>2, <1>3, <2>1 DEF Opened, Right
    <3>2. QED  BY <3>1, HalfSame
  <2>2. CASE v[j].op # "ref"
    <3> DEFINE x == Unmarked(v[j])
               m == Marked(v, j)
    <3>1. e[j] = <<x>> /\ p[j] = <<m>>
        BY <1>2, <1>3, <2>2 DEF Opened
    <3>2. /\ m \in Mark
          /\ \/ m = v[j]
             \/ v[j].op = "getenv" /\ v[j].arg \in EnvVar /\ m = Own(v[j].arg)
        BY <1>4, MarkedFacts
    <3>3. v[j] \in Mark
        BY <1>4, Marks, Zenon
    <3>4. CASE v[j].op = "getenv"
      <4> DEFINE a == v[j].arg
      <4>1. a \in EnvVar /\ v[j] = Getenv(a)
          BY <3>3, <3>4, Marks, Zenon
      <4>2. x = Raw(a)
          BY <3>4 DEF Unmarked
      <4> HIDE DEF a, x, m
      <4>3. m = Getenv(a) \/ m = Own(a)
          BY <3>2, <4>1 DEF a
      <4>4. Raw(a) \in Mark
          BY <4>1, Marks, Zenon
      <4>5. May(x, m, set) /\ x.op # "text"
        <5>1. x.op = "raw" /\ x.arg = a
            BY <4>2 DEF Raw
        <5>2. m.op \in {"getenv", "own"} /\ m.arg = a
            BY <4>3 DEF Getenv, Own
        <5>3. QED  BY <5>1, <5>2 DEF May
      <4>6. <<<<x>>, <<m>>>> \in Half(set)
          BY <3>2, <4>2, <4>4, <4>5, HalfOne
      <4>7. QED  BY <3>1, <4>6 DEF x, m
    <3>5. CASE v[j].op # "getenv"
      <4>1. x = v[j] /\ m = v[j]
          BY <3>2, <3>5 DEF Unmarked
      <4>2. <<x>> \in Seq(Mark)
          BY <3>3, <4>1, Single
      <4>3. QED  BY <3>1, <4>1, <4>2, HalfSame
    <3>6. QED  BY <3>4, <3>5
  <2>3. QED  BY <2>1, <2>2
<1>6. <<FlattenSeq(e), FlattenSeq(p)>> \in Half(set)
    BY <1>2, <1>3, <1>5, HalfJoins, FlattenPairs
<1>7. QED  BY <1>1, <1>2, <1>3, <1>6
-----------------------------------------------------------------------------
(* A reference is replaced: what holds of what it stands for and of what comes  *)
(* in for it holds of what the values stand for.                             *)
LEMMA PutPairs ==
    ASSUME NEW S, NEW f, AllRight(S, f), NEW w \in Clean(S), HasReference(w), NEW by \in Clean(S),
           NEW C, Joins(Mark, C), \A s \in Seq(Mark) : <<s, s>> \in C,
           <<Open(f, by), Opened(f, NextReference(w))>> \in C,
           NEW v \in Substituted(w, NextReference(w), by)
    PROVE  v \in Clean(S) /\ <<Open(f, v), Open(f, w)>> \in C
<1> DEFINE piece == NextReference(w)
           put(places) == FlattenSeq([i \in DOMAIN w |-> IF i \in places THEN by ELSE <<w[i]>>])
<1>1. w \in Value
    BY CleanFacts
<1>2. PICK first \in DOMAIN w : first = SelectInSeq(w, IsReference) /\ piece = w[first]
    BY <1>1, NextPiece
<1>3. PICK places \in {{first}, {i \in DOMAIN w : w[i] = piece}} : v = put(places)
    BY <1>2 DEF Substituted
<1>4. \A i \in places : w[i] = piece
    BY <1>2, <1>3
<1> DEFINE each == [i \in DOMAIN w |-> IF i \in places THEN by ELSE <<w[i]>>]
<1>5. v = FlattenSeq(each)
    BY <1>3
<1>6. Len(w) \in Nat /\ DOMAIN w = 1..Len(w) /\ \A i \in 1..Len(w) : w[i] \in Ready(S)
    BY Elements DEF Clean
<1>7. each = [i \in 1..Len(w) |-> each[i]] /\ \A i \in 1..Len(w) : each[i] = IF i \in places THEN by ELSE <<w[i]>>
    BY <1>6
<1> HIDE DEF each, put, piece
<1>8. \A i \in 1..Len(w) : <<w[i]>> \in Clean(S) /\ Open(f, <<w[i]>>) = Opened(f, w[i])
    BY <1>6, OpenOne
<1>9. \A i \in 1..Len(w) : each[i] \in Clean(S)
    BY <1>7, <1>8
<1>10. each \in Seq(Clean(S)) /\ Len(each) = Len(w)
  <2>1. each \in [1..Len(w) -> Clean(S)]
      BY <1>7, <1>9
  <2>2. QED  BY <1>6, <2>1, Listed
<1> DEFINE b == [i \in 1..Len(w) |-> Open(f, each[i])]
<1>11. \A i \in 1..Len(w) : b[i] = Open(f, each[i]) /\ Open(f, each[i]) \in Seq(Mark)
    BY <1>9, OpenType
<1>12. b \in Seq(Seq(Mark)) /\ Len(b) = Len(w)
  <2>1. b \in [1..Len(w) -> Seq(Mark)]
      BY <1>11
  <2> HIDE DEF b
  <2>2. QED  BY <1>6, <2>1, Listed
<1> HIDE DEF b
<1>13. v \in Clean(S) /\ Open(f, v) = FlattenSeq(b)
    BY <1>5, <1>10, <1>11, <1>12, OpenFlat
<1>14. PICK e \in Seq(Seq(Mark)) : /\ Len(e) = Len(w) /\ Open(f, w) = FlattenSeq(e)
                                   /\ \A j \in 1..Len(w) : e[j] = Opened(f, w[j])
    BY OpenType
<1>15. ASSUME NEW i \in 1..Len(w) PROVE <<b[i], e[i]>> \in C
  <2>1. CASE i \in places
    <3>1. b[i] = Open(f, by) /\ e[i] = Opened(f, piece)
        BY <1>4, <1>7, <1>11, <1>14, <2>1
    <3>2. QED  BY <3>1 DEF piece
  <2>2. CASE i \notin places
    <3>1. b[i] = e[i] /\ b[i] \in Seq(Mark)
        BY <1>7, <1>8, <1>11, <1>14, <2>2
    <3>2. QED  BY <3>1
  <2>3. QED  BY <2>1, <2>2
<1>16. <<FlattenSeq(b), FlattenSeq(e)>> \in C
    BY <1>12, <1>14, <1>15, FlattenPairs
<1>17. QED  BY <1>13, <1>14, <1>16
-----------------------------------------------------------------------------
(* What a value of node n has become stands for what it meant as it was read.   *)
Stays(n, w, v) == w \in Clean(Reach[n]) /\ <<Open(Of[n], w), Expanded(Of[n], v)>> \in Half(env)
Scoped ==
    \A n \in Sound : \A k \in DOMAIN given[n] : \A i \in DOMAIN given[n][k] : Stays(n, symtab[n][k][i], given[n][k][i])
ScopedCurrent ==
    current # NoValue /\ Here \in Sound =>
        Stays(Here, current.value, given[Here][current.key][current.index])

(* The meanings of a node's variables solve the equations between them.         *)
LEMMA OfFacts ==
    ASSUME forest \in Forests, NEW n \in Sound
    PROVE  /\ AllRight(Reach[n], Of[n])
           /\ \A k \in Reach[n] : Of[n][k] = KeyMeans(Of[n], n, k) /\ Of[n][k] \in Right
BY OfRight DEF AllRight

(* What comes in for a variable stands for what the variable means: its own     *)
(* node's values may be replaced by then, a caller's are as they were read.      *)
LEMMA ReferenceStays ==
    ASSUME Inv, Scoped, stack # <<>>, Here \in Sound,
           NEW piece \in Ready(Reach[Here]), piece.op = "ref", Resolves(Here, piece)
    PROVE  /\ Resolved(Here, piece) \in Clean(Reach[Here])
           /\ <<Open(Of[Here], Resolved(Here, piece)), Opened(Of[Here], piece)>> \in Half(env)
<1> DEFINE U == Reach[Here]
           f == Of[Here]
           k == piece.arg
           m == Owner(Here, k)
           a == symtab[m][k]
           v == given[m][k]
           by == Resolved(Here, piece)
           n == Len(a)
<1>1. TypeOK /\ forest \in Forests /\ Here \in Node
    BY OnTop DEF Inv, TypeOK
<1>2. AllRight(U, f) /\ \A j \in U : f[j] = KeyMeans(f, Here, j)
    BY <1>1, OfFacts
<1>3. U \in SUBSET Key /\ Sufficient(Here, U) /\ k \in U /\ piece \in Piece /\ IsReference(piece)
    BY <1>1, ReachFacts DEF Ready, IsReference
<1>4. m # 0 /\ m \in Node /\ k \in DOMAIN given[m] /\ by = Format(a)
    BY <1>1, <1>3, ResolvedFit
<1>5. m \in Callers[Here]
    BY <1>1, <1>3, <1>4, OwnerFacts
<1>6. ValuesOf(Here, k) = Range(v)
    BY <1>4 DEF ValuesOf, given
<1>7. Opened(f, piece) = f[k] /\ f[k] = KeyMeans(f, Here, k)
    BY <1>2, <1>3 DEF Opened
<1>8. KeyMeans(f, Here, k) = Format([i \in DOMAIN v |-> Expanded(f, v[i])])
    BY DEF KeyMeans
<1>9. a \in Seq(Value) /\ v \in Seq(Value) /\ Len(v) = n /\ n \in Nat /\ DOMAIN v = 1..n
  <2>1. /\ symtab[m] \in [DOMAIN given[m] -> Seq(Value)]
        /\ \A j \in DOMAIN symtab[m] : Len(symtab[m][j]) = Len(given[m][j])
      BY <1>1, <1>4 DEF TypeOK, given
  <2>2. v \in Seq(Value)
      BY <1>1, <1>4, OwnValues
  <2>3. a \in Seq(Value) /\ n = Len(v)
      BY <1>4, <2>1
  <2>4. QED  BY <2>2, <2>3
<1> HIDE DEF U, f, k, by
<1>10. ASSUME NEW i \in 1..n PROVE a[i] \in Clean(U) /\ <<Open(f, a[i]), Expanded(f, v[i])>> \in Half(env)
  <2>1. CASE m = Here
    <3>1. Stays(Here, symtab[Here][k][i], given[Here][k][i])
        BY <1>4, <1>9, <2>1 DEF Scoped
    <3>2. QED  BY <2>1, <3>1 DEF Stays, U, f
  <2>2. CASE m # Here
    <3>1. PICK p \in DOMAIN stack : m = stack[p].node
        BY <1>1, <1>5, ChainCallers
    <3>2. p \in 1..(Len(stack) - 1)
        BY <2>2, <3>1, OnTop
    <3>3. symtab[m] = given[m]
        BY <3>1, <3>2, FreshNodes
    <3>4. a[i] = v[i] /\ v[i] \in Value /\ v[i] \in Range(v)
        BY <1>9, <3>3 DEF Range
    <3>5. Fit(U, v[i])
        BY <1>3, <1>6, <3>4 DEF Sufficient
    <3>6. QED  BY <1>2, <3>4, <3>5, HalfGiven
  <2>3. QED  BY <2>1, <2>2
<1> HIDE DEF m, a, v, n
<1> DEFINE b == [i \in 1..n |-> Open(f, a[i])]
           c == [i \in 1..n |-> Expanded(f, v[i])]
<1>11. \A i \in 1..n : Open(f, a[i]) \in Seq(Mark) /\ Expanded(f, v[i]) \in Seq(Mark)
    BY <1>10, HalfIs
<1>12. b \in Seq(Seq(Mark)) /\ c \in Seq(Seq(Mark)) /\ Len(b) = n /\ Len(c) = n
  <2>1. b \in [1..n -> Seq(Mark)] /\ c \in [1..n -> Seq(Mark)]
      BY <1>11
  <2> HIDE DEF b, c
  <2>2. QED  BY <1>9, <2>1, Listed
<1>13. \A i \in 1..n : b[i] = Open(f, a[i]) /\ c[i] = Expanded(f, v[i])
    OBVIOUS
<1>14. c = [i \in DOMAIN v |-> Expanded(f, v[i])]
    BY <1>9
<1> HIDE DEF b, c
<1>15. a \in Seq(Clean(U)) /\ Len(a) = n
  <2>1. Len(a) = n /\ a = [i \in 1..n |-> a[i]]
      BY <1>9 DEF n
  <2>2. a \in [1..n -> Clean(U)]
      BY <1>10, <2>1
  <2>3. QED  BY <1>9, <2>1, <2>2, Listed
<1>16. Format(a) \in Clean(U) /\ Open(f, Format(a)) = Format(b)
  <2>1. AllRight(U, f) /\ Len(b) = Len(a) /\ \A i \in 1..Len(a) : b[i] = Open(f, a[i])
      BY <1>2, <1>12, <1>13, <1>15
  <2>2. a \in Seq(Clean(U)) /\ b \in Seq(Seq(Mark))
      BY <1>12, <1>15
  <2>3. QED  BY <2>1, <2>2, OpenFormat
<1>17. <<Format(b), Format(c)>> \in Half(env)
  <2>1. \A i \in 1..n : <<b[i], c[i]>> \in Half(env)
      BY <1>10, <1>13
  <2>2. QED  BY <1>12, <2>1, HalfJoins, FormatPairs
<1>18. QED  BY <1>4, <1>7, <1>8, <1>14, <1>16, <1>17 DEF U, f, by
-----------------------------------------------------------------------------
(* The first reference has text before it only.                              *)
LEMMA FirstPiece ==
    ASSUME NEW w \in Value, HasReference(w)
    PROVE  \E i \in 1..Len(w) : NextReference(w) = w[i] /\ \A j \in 1..(i - 1) : w[j].op = "text"
<1> DEFINE I == {i \in 1..Len(w) : IsReference(w[i])}
<1>1. DOMAIN w = 1..Len(w) /\ Len(w) \in Nat
    BY DEF Value
<1>2. I # {} /\ I \in SUBSET Nat
    BY <1>1 DEF HasReference
<1>3. PICK m \in I : \A j \in I : m <= j
    BY <1>2, LeastNumber
<1> DEFINE i == SelectInSeq(w, IsReference)
<1>4. i \in I /\ \A j \in I : i <= j
  <2>1. i = CHOOSE h \in I : \A j \in I : h <= j
      BY <1>2 DEF SelectInSeq, Min
  <2>2. QED  BY <1>3, <2>1
<1>5. NextReference(w) = w[i]
    BY DEF NextReference
<1> HIDE DEF i
<1>6. \A j \in 1..(i - 1) : j \in 1..Len(w) /\ ~(i <= j)
    BY <1>1, <1>4
<1>7. \A j \in 1..(i - 1) : w[j].op = "text"
    BY <1>4, <1>6 DEF IsReference
<1>8. QED  BY <1>4, <1>5, <1>7

(* What is put in for a getenv.                                              *)
Answer(set, a) == IF a \in set THEN a ELSE ""

(* The first getenv and others of the same variable are answered.              *)
LEMMA AnsweredHalf ==
    ASSUME NEW set, NEW M \in Right, NEW o, <<o, M>> \in Half(set),
           NEW p \in 1..Len(o), NEW a \in EnvVar, o[p] = Raw(a), \A j \in 1..(p - 1) : o[j].op = "text",
           NEW y \in Seq(Mark), Len(y) = Len(o),
           \A i \in 1..Len(o) : y[i] = o[i] \/ (o[i] = Raw(a) /\ y[i] = Text(Answer(set, a)))
    PROVE  <<y, M>> \in Half(set)
<1> DEFINE n == Len(M)
           x == Answer(set, a)
<1>1. /\ M \in Seq(Mark) /\ Len(o) = n /\ n \in Nat /\ Len(y) = n
      /\ \A i \in 1..n : May(o[i], M[i], set)
      /\ Late(o, M)
  <2>1. /\ M \in Seq(Mark) /\ Len(o) = Len(M) /\ Late(o, M)
        /\ \A i \in 1..Len(M) : May(o[i], M[i], set)
      BY HalfIs
  <2>2. Len(M) \in Nat
      BY <2>1, Elements
  <2>3. QED  BY <2>1, <2>2
<1>2. \A i \in 1..n : /\ M[i] \in Mark /\ M[i].op # "raw"
                      /\ \A b \in EnvVar : M[i] = Own(b) => \E l \in 1..(i - 1) : M[l] = Setenv(b)
    BY <1>1, Elements DEF Right
<1> HIDE DEF n, x
<1>20. \A i \in 1..n : y[i] = o[i] \/ (o[i] = Raw(a) /\ y[i] = Text(x))
    BY <1>1 DEF x
<1>3. Raw(a).op = "raw" /\ Raw(a).arg = a /\ \A w : Text(w).op = "text" /\ Text(w).arg = w
    BY DEF Raw, Text
<1>4. ASSUME NEW i \in 1..n, o[i] = Raw(a) PROVE M[i] \in {Getenv(a), Own(a)}
  <2>1. M[i].op \in {"getenv", "own"} /\ M[i].arg = a
    <3>1. May(Raw(a), M[i], set) /\ M[i].op # "raw"
        BY <1>1, <1>2, <1>4
    <3>2. QED  BY <1>3, <3>1 DEF May
  <2>2. M[i] \in Mark
      BY <1>2
  <2>3. (M[i].op = "getenv" => M[i] = Getenv(M[i].arg)) /\ (M[i].op = "own" => M[i] = Own(M[i].arg))
      BY <2>2, Marks, Zenon
  <2>4. QED  BY <2>1, <2>3
<1>5. Getenv(a).op = "getenv" /\ Getenv(a).arg = a /\ Own(a).op = "own" /\ Own(a).arg = a
      /\ Setenv(a).op = "setenv" /\ Setenv(a).arg = a
    BY DEF Getenv, Own, Setenv
<1>6. ASSUME NEW i \in 1..n PROVE May(y[i], M[i], set)
  <2>1. CASE y[i] = o[i]
      BY <1>1, <2>1
  <2>2. CASE o[i] = Raw(a) /\ y[i] = Text(x)
    <3>1. M[i] \in {Getenv(a), Own(a)}
        BY <1>4, <2>2
    <3>2. M[i].op \in {"getenv", "own"} /\ M[i].arg = a /\ y[i].op = "text" /\ y[i].arg = x
        BY <1>3, <1>5, <2>2, <3>1
    <3>3. x = a \/ x = ""
        BY DEF x, Answer
    <3>4. QED  BY <3>2, <3>3 DEF May
  <2>3. QED  BY <1>1, <2>1, <2>2, <1>20
<1>7. ASSUME NEW i \in 1..n, M[i] = Own(a), a \notin set
      PROVE  \E l \in 1..(i - 1) : l \in 1..n /\ o[l] = Setenv(a)
  <2>1. PICK l \in 1..(i - 1) : M[l] = Setenv(a)
      BY <1>2, <1>7
  <2>2. l \in 1..n
      BY <1>1, Before
  <2>3. May(o[l], Setenv(a), set)
      BY <1>1, <2>1, <2>2
  <2>4. o[l] = Setenv(a)
      BY <1>5, <1>7, <2>3 DEF May
  <2>5. QED  BY <2>1, <2>2, <2>4
<1>8. ASSUME NEW i \in 1..n, M[i].op = "own", y[i].op = "text", y[i].arg # M[i].arg
      PROVE  \E l \in 1..(i - 1) : M[l] = Getenv(M[i].arg)
  <2>1. CASE y[i] = o[i]
      BY <1>1, <1>8, <2>1 DEF Late, n
  <2>2. CASE o[i] = Raw(a) /\ y[i] = Text(x)
    <3>1. M[i] = Own(a) /\ M[i].arg = a /\ x # a
        BY <1>3, <1>4, <1>5, <1>8, <2>2
    <3>2. a \notin set
        BY <3>1 DEF x, Answer
    <3>3. PICK l \in 1..(i - 1) : l \in 1..n /\ o[l] = Setenv(a)
        BY <1>7, <3>1, <3>2
    <3>4. \A j \in 1..n : o[j] = Setenv(a) => ~(j \in 1..(p - 1)) /\ j # p
        BY <1>3, <1>5
    <3>5. p < l /\ p \in 1..n /\ p \in 1..(i - 1)
      <4>1. p \in 1..n
          BY <1>1
      <4>2. l \notin 1..(p - 1) /\ l # p
          BY <3>3, <3>4
      <4>3. QED  BY <1>1, <4>1, <4>2, Before
    <3>6. M[p] # Own(a)
      <4>1. ASSUME M[p] = Own(a) PROVE FALSE
        <5>1. PICK j \in 1..(p - 1) : j \in 1..n /\ o[j] = Setenv(a)
            BY <1>7, <3>2, <3>5, <4>1
        <5>2. QED  BY <3>4, <5>1
      <4>2. QED  BY <4>1
    <3>7. M[p] = Getenv(a)
        BY <1>4, <3>5, <3>6
    <3>8. QED  BY <3>1, <3>5, <3>7
  <2>3. QED  BY <1>1, <2>1, <2>2, <1>20
<1>9. Late(y, M)
    BY <1>8 DEF Late, n
<1>10. QED  BY <1>1, <1>6, <1>9, HalfIs DEF n

(* A value whose first reference is a getenv stands for text up to it.         *)
LEMMA OpenFirst ==
    ASSUME NEW S, NEW f, AllRight(S, f), NEW w \in Clean(S), HasReference(w), NextReference(w).op = "getenv"
    PROVE  \E p \in 1..Len(Open(f, w)) : /\ Open(f, w)[p] = Raw(NextReference(w).arg)
                                         /\ \A j \in 1..(p - 1) : Open(f, w)[j].op = "text"
<1>1. w \in Value /\ w \in Seq(Ready(S))
    BY CleanFacts DEF Clean
<1>2. PICK i \in 1..Len(w) : NextReference(w) = w[i] /\ \A j \in 1..(i - 1) : w[j].op = "text"
    BY <1>1, FirstPiece
<1> DEFINE R == Ready(S)
           x == w[i]
           a == x.arg
<1>3. PICK s \in Seq(R), t \in Seq(R) : w = s \o (<<x>> \o t) /\ Len(s) = i - 1 /\ \A j \in 1..(i - 1) : s[j] = w[j]
    BY <1>1, SplitAt
<1>4. x \in R /\ x.op = "getenv" /\ NextReference(w).arg = a
    BY <1>1, <1>2, Elements
<1>5. s \in Clean(S) /\ t \in Clean(S) /\ <<x>> \in Clean(S) /\ Open(f, <<x>>) = <<Raw(a)>>
  <2>1. Opened(f, x) = <<Raw(a)>>
      BY <1>4 DEF Opened, Unmarked
  <2>2. <<x>> \in Clean(S) /\ Open(f, <<x>>) = Opened(f, x)
      BY <1>4, OpenOne
  <2>3. QED  BY <1>3, <2>1, <2>2 DEF Clean
<1>6. Open(f, s) = s
  <2>1. i - 1 \in Nat /\ s = [j \in 1..(i - 1) |-> s[j]] /\ \A j \in 1..(i - 1) : s[j] \in R
      BY <1>3, Elements
  <2>2. \A j \in 1..(i - 1) : s[j] \in Words
      BY <1>2, <1>3, <2>1 DEF Ready, Words
  <2>3. s \in [1..(i - 1) -> Words]
      BY <2>1, <2>2
  <2>4. s \in Seq(Words)
      BY <2>1, <2>3, Listed
  <2>5. QED  BY <2>4, OpenText
<1> DEFINE u == Open(f, t)
           r == <<Raw(a)>>
<1>7. Open(f, w) = s \o (r \o u)
  <2>1. Cat(<<x>>, t) \in Clean(S) /\ Open(f, Cat(<<x>>, t)) = Cat(r, u)
      BY <1>5, OpenCat
  <2>2. Open(f, Cat(s, Cat(<<x>>, t))) = Cat(s, Cat(r, u))
      BY <1>5, <1>6, <2>1, OpenCat
  <2>3. QED  BY <1>3, <2>2 DEF Cat
<1>8. r \in Seq(Mark) /\ u \in Seq(Mark) /\ s \in Seq(Mark) /\ Len(r) = 1 /\ r[1] = Raw(a)
  <2>1. x \in Mark
      BY <1>4, CleanFacts
  <2>2. Raw(a) \in Mark
    <3>1. a \in EnvVar
        BY <1>4, <2>1, Marks, Zenon
    <3>2. QED  BY <3>1, Marks, Zenon
  <2>3. u \in Seq(Mark)
      BY <1>5, OpenType
  <2>4. s \in Seq(Mark)
      BY <1>5, CleanFacts
  <2>5. QED  BY <2>2, <2>3, <2>4, Single
<1> HIDE DEF u, r, x, a
<1> DEFINE v == r \o u
           o == s \o v
           lr == Len(r)
           lu == Len(u)
           ls == Len(s)
           lv == Len(v)
<1>9. r \in Seq(Mark) /\ u \in Seq(Mark)
    BY <1>8
<1>10. /\ v \in Seq(Mark) /\ lv = lr + lu /\ lr \in Nat /\ lu \in Nat
       /\ \A j \in 1..lr : v[j] = r[j]
    BY ONLY <1>9, ConcatFacts
<1> HIDE DEF v
<1>11. s \in Seq(Mark) /\ v \in Seq(Mark)
    BY <1>8, <1>10
<1>12. /\ o \in Seq(Mark) /\ Len(o) = ls + lv /\ ls \in Nat /\ lv \in Nat
       /\ \A j \in 1..ls : o[j] = s[j]
       /\ \A j \in 1..lv : o[ls + j] = v[j]
    BY ONLY <1>11, ConcatFacts
<1>13. lr = 1 /\ ls = i - 1
    BY <1>3, <1>8
<1>14. o = Open(f, w)
    BY <1>7 DEF v
<1> HIDE DEF o, lr, lu, ls, lv
<1>15. 1 \in 1..lr /\ 1 \in 1..lv /\ ls + 1 = i /\ i \in 1..Len(o)
    BY <1>10, <1>12, <1>13
<1>16. o[i] = Raw(a)
    BY <1>8, <1>10, <1>12, <1>15
<1>17. \A j \in 1..(i - 1) : o[j].op = "text"
  <2>1. \A j \in 1..(i - 1) : o[j] = s[j]
      BY ONLY <1>12, <1>13
  <2>2. \A j \in 1..(i - 1) : s[j].op = "text"
      BY <1>2, <1>3
  <2>3. QED  BY ONLY <2>1, <2>2
<1>18. QED  BY <1>4, <1>14, <1>15, <1>16, <1>17
-----------------------------------------------------------------------------
(* A variable or a setenv is replaced; a getenv is.                           *)
LEMMA PutHalf ==
    ASSUME NEW S, NEW f, AllRight(S, f), NEW w \in Clean(S), HasReference(w), NEW by \in Clean(S),
           NEW set, NEW M, <<Open(f, w), M>> \in Half(set),
           <<Open(f, by), Opened(f, NextReference(w))>> \in Half(set),
           NEW v \in Substituted(w, NextReference(w), by)
    PROVE  v \in Clean(S) /\ <<Open(f, v), M>> \in Half(set)
<1> DEFINE C == Half(set)
<1>1. Joins(Mark, C) /\ \A s \in Seq(Mark) : <<s, s>> \in C
    BY HalfJoins, HalfSame
<1> HIDE DEF C
<1>2. <<Open(f, by), Opened(f, NextReference(w))>> \in C
    BY DEF C
<1>3. v \in Clean(S) /\ <<Open(f, v), Open(f, w)>> \in C
    BY <1>1, <1>2, PutPairs
<1>4. QED  BY <1>3, HalfOfHalf DEF C

LEMMA PutAnswer ==
    ASSUME NEW S, NEW f, AllRight(S, f), NEW w \in Clean(S), HasReference(w),
           NEW set, NEW M \in Right, <<Open(f, w), M>> \in Half(set),
           NextReference(w).op = "getenv", NEW a \in EnvVar, NextReference(w).arg = a,
           NEW v \in Substituted(w, NextReference(w), <<Text(Answer(set, a))>>)
    PROVE  v \in Clean(S) /\ <<Open(f, v), M>> \in Half(set)
<1> DEFINE x == Answer(set, a)
           R == {<<q, q>> : q \in Mark} \cup {<<Text(x), Raw(a)>>}
           C == Together(Mark, R)
           by == <<Text(x)>>
           r == <<Raw(a)>>
           o == Open(f, w)
           y == Open(f, v)
<1>1. Text(x) \in Piece
    BY EvalAssumption, Pieces DEF Answer
<1> HIDE DEF x
<1>2. by \in Clean(S) /\ Open(f, by) = by /\ Text(x) \in Mark
  <2>1. Text(x) \in Ready(S) /\ Text(x) \in Mark /\ Opened(f, Text(x)) = by
      BY <1>1, WordsReady
  <2>2. QED  BY <2>1, OpenOne
<1>3. Opened(f, NextReference(w)) = r
    BY DEF Opened, Unmarked
<1> HIDE DEF R
<1>4. \A s, t : <<s, t>> \in C <=>
          /\ s \in Seq(Mark) /\ t \in Seq(Mark) /\ Len(s) = Len(t)
          /\ \A i \in 1..Len(s) : <<s[i], t[i]>> \in R
    BY TogetherJoins
<1>5. Joins(Mark, C)
    BY TogetherJoins
<1>6. \A p, q : <<p, q>> \in R => p = q \/ (p = Text(x) /\ q = Raw(a))
    BY DEF R
<1>7. <<Text(x), Raw(a)>> \in R /\ \A q \in Mark : <<q, q>> \in R
    BY DEF R
<1>8. /\ by \in Seq(Mark) /\ Len(by) = 1 /\ by[1] = Text(x)
      /\ r \in Seq(Mark) /\ Len(r) = 1 /\ r[1] = Raw(a)
  <2>1. Raw(a) \in Mark
      BY Marks, Zenon
  <2>2. QED  BY <1>2, <2>1, Single
<1> HIDE DEF C, by, r
<1>9. <<by, r>> \in C
    BY <1>7, <1>8, TogetherOne DEF C, by, r
<1>10. \A s \in Seq(Mark) : <<s, s>> \in C
  <2>1. \A s \in Seq(Mark) : \A i \in 1..Len(s) : s[i] \in Mark
      BY Elements
  <2>2. QED  BY <1>4, <1>7, <2>1
<1>11. v \in Clean(S) /\ <<y, o>> \in C
  <2>1. <<Open(f, by), Opened(f, NextReference(w))>> \in C
      BY <1>2, <1>3, <1>9
  <2>2. v \in Substituted(w, NextReference(w), by)
      BY DEF by, x
  <2>3. QED  BY <1>2, <1>5, <1>10, <2>1, <2>2, PutPairs
<1>12. \E p \in 1..Len(o) : o[p] = Raw(a) /\ \A j \in 1..(p - 1) : o[j].op = "text"
    BY OpenFirst
<1> HIDE DEF o, y
<1>13. /\ y \in Seq(Mark) /\ Len(y) = Len(o)
       /\ \A i \in 1..Len(o) : y[i] = o[i] \/ (o[i] = Raw(a) /\ y[i] = Text(x))
  <2>1. y \in Seq(Mark) /\ Len(y) = Len(o) /\ \A i \in 1..Len(y) : <<y[i], o[i]>> \in R
      BY <1>4, <1>11
  <2>2. \A i \in 1..Len(o) : y[i] = o[i] \/ (y[i] = Text(x) /\ o[i] = Raw(a))
      BY <1>6, <2>1
  <2>3. QED  BY <2>1, <2>2
<1>14. <<o, M>> \in Half(set)
    BY DEF o
<1>15. <<y, M>> \in Half(set)
    BY <1>12, <1>13, <1>14, AnsweredHalf DEF x
<1>16. QED  BY <1>11, <1>15 DEF y

(* What a value means that was read.                                         *)
LEMMA GivenRight ==
    ASSUME forest \in Forests, NEW n \in Sound, NEW k \in DOMAIN given[n], NEW i \in DOMAIN given[n][k]
    PROVE  /\ given[n][k][i] \in Value /\ Fit(Reach[n], given[n][k][i])
           /\ Expanded(Of[n], given[n][k][i]) \in Right
<1> DEFINE U == Reach[n]
           f == Of[n]
           g == given[n][k][i]
<1>1. n \in Node /\ Sufficient(n, U) /\ k \in U
    BY ReachFacts
<1>2. given[n][k] \in Seq(Value) /\ ValuesOf(n, k) = Range(given[n][k])
    BY <1>1, OwnValues
<1>3. g \in Value /\ g \in Range(given[n][k])
    BY <1>2 DEF Range
<1>4. Fit(U, g)
    BY <1>1, <1>2, <1>3 DEF Sufficient
<1>5. \A j \in U : f[j] \in Right
    BY OfFacts
<1> HIDE DEF U, f, g
<1>6. Expanded(f, g) \in Right
    BY <1>3, <1>4, <1>5, ExpandedRight
<1>7. QED  BY <1>3, <1>4, <1>6 DEF U, f, g

(* Whatever the order, a step of the work on a value leaves what it stands for.  *)
LEMMA SubstituteStays ==
    ASSUME Inv, Scoped, ScopedCurrent, Substitute, Here \in Sound
    PROVE  /\ env \subseteq env' /\ current'.value \in Clean(Reach[Here])
           /\ <<Open(Of[Here], current'.value), Expanded(Of[Here], given[Here][current.key][current.index])>>
                \in Half(env')
<1> DEFINE U == Reach[Here]
           f == Of[Here]
           w == current.value
           g == given[Here][current.key][current.index]
           M == Expanded(f, g)
           piece == NextReference(w)
           by == Resolved(Here, piece)
           v == current'.value
           a == piece.arg
<1>1. /\ stack # <<>> /\ current # NoValue /\ HasReference(w) /\ w \in Value
      /\ IsReference(piece) /\ Resolves(Here, piece) /\ v \in Substituted(w, piece, by)
    BY SubstituteFacts
<1>2. env' = IF piece.op = "setenv" THEN env \cup {a} ELSE env
    BY DEF Substitute
<1>3. forest \in Forests /\ Here \in Node
    BY <1>1, Facts
<1>4. AllRight(U, f)
    BY <1>3, OfFacts
<1>5. w \in Clean(U) /\ <<Open(f, w), M>> \in Half(env)
    BY <1>1 DEF ScopedCurrent, Stays
<1>6. M \in Right
  <2>1. /\ current.key \in DOMAIN given[Here] /\ given[Here][current.key] \in Seq(Value)
        /\ current.index \in DOMAIN given[Here][current.key]
    <3>1. /\ current.key \in DOMAIN given[Here] /\ current.index \in DOMAIN symtab[Here][current.key]
          /\ symtab[Here][current.key] \in Seq(Value)
          /\ Len(symtab[Here][current.key]) = Len(given[Here][current.key])
        BY <1>1, Facts
    <3>2. given[Here][current.key] \in Seq(Value)
        BY <1>3, <3>1, OwnValues
    <3>3. QED  BY <3>1, <3>2
  <2>2. QED  BY <1>3, <2>1, GivenRight
<1>7. piece \in Ready(U) /\ piece \in Piece /\ piece \in Mark
  <2>1. PICK i \in 1..Len(w) : piece = w[i]
      BY <1>1, FirstPiece
  <2>2. piece \in Ready(U)
      BY <1>5, <2>1, Elements DEF Clean
  <2>3. QED  BY <2>2, CleanFacts
<1> HIDE DEF U, f, w, g, M, piece, by, v
<1>8. CASE piece.op = "ref"
  <2>1. env' = env
      BY <1>2, <1>8
  <2>2. by \in Clean(U) /\ <<Open(f, by), Opened(f, piece)>> \in Half(env)
      BY <1>1, <1>7, <1>8, ReferenceStays DEF U, f, by
  <2>3. v \in Clean(U) /\ <<Open(f, v), M>> \in Half(env)
      BY <1>1, <1>4, <1>5, <2>2, PutHalf DEF piece
  <2>4. QED  BY <2>1, <2>3 DEF U, f, g, M, v
<1>9. CASE piece.op = "setenv"
  <2>1. env' = env \cup {a} /\ piece = Setenv(a) /\ a \in EnvVar
    <3>1. piece = Setenv(a) /\ a \in EnvVar
        BY <1>7, <1>9, Marks, Zenon
    <3>2. QED  BY <1>2, <1>9, <3>1
  <2>2. by = <<Text("")>>
      BY <1>9 DEF Resolved, by
  <2>3. Text("") \in Piece
      BY EvalAssumption, Pieces
  <2>4. Text("") \in Ready(U) /\ Text("") \in Mark /\ Opened(f, Text("")) = <<Text("")>>
      BY <2>3, WordsReady
  <2>5. by \in Clean(U) /\ Open(f, by) = <<Text("")>>
      BY <1>4, <2>2, <2>4, OpenOne
  <2>6. Opened(f, piece) = <<piece>>
      BY <1>9 DEF Opened, Unmarked
  <2>7. May(Text(""), piece, env')
      BY <1>9, <2>1 DEF May
  <2>8. <<<<Text("")>>, <<piece>>>> \in Half(env')
      BY <1>7, <1>9, <2>4, <2>7, HalfOne
  <2>9. <<Open(f, w), M>> \in Half(env')
      BY <1>5, <2>1, HalfMore
  <2>10. v \in Clean(U) /\ <<Open(f, v), M>> \in Half(env')
      BY <1>1, <1>4, <1>5, <2>5, <2>6, <2>8, <2>9, PutHalf DEF piece
  <2>11. QED  BY <2>1, <2>10 DEF U, f, g, M, v
<1>10. CASE piece.op = "getenv"
  <2> DEFINE x == Answer(env, a)
  <2>1. env' = env /\ piece = Getenv(a) /\ a \in EnvVar
    <3>1. piece = Getenv(a) /\ a \in EnvVar
        BY <1>7, <1>10, Marks, Zenon
    <3>2. QED  BY <1>2, <1>10, <3>1
  <2>2. by = <<Text(x)>>
      BY <1>10 DEF Resolved, by, Answer
  <2>3. v \in Clean(U) /\ <<Open(f, v), M>> \in Half(env)
    <3>1. HasReference(w) /\ NextReference(w).op = "getenv" /\ NextReference(w).arg = a /\ v \in Substituted(w, NextReference(w), <<Text(x)>>)
        BY <1>1, <1>10, <2>2 DEF piece
    <3> HIDE DEF a
    <3>2. QED  BY <1>4, <1>5, <1>6, <2>1, <2>2, <3>1, PutAnswer
  <2>4. QED  BY <2>1, <2>3 DEF U, f, g, M, v
<1>11. QED  BY <1>1, <1>8, <1>9, <1>10 DEF Resolves
-----------------------------------------------------------------------------
LEMMA SameScope == ASSUME UNCHANGED forest PROVE UNCHANGED <<given, Sound, Reach, Of>>
<1>1. UNCHANGED <<given, Sound>>
    BY SameForest
<1>2. UNCHANGED Reach
    BY DEF Reach, Uses, Owner, ValuesOf, CallersOf, given
<1>3. UNCHANGED Of
    BY <1>2 DEF Of, Solves, KeyMeans, Owner, CallersOf, given
<1>4. QED  BY <1>1, <1>2, <1>3

LEMMA GivenStays ==
    ASSUME forest \in Forests, NEW n \in Sound, NEW k \in DOMAIN given[n], NEW i \in DOMAIN given[n][k]
    PROVE  Stays(n, given[n][k][i], given[n][k][i])
BY GivenRight, OfFacts, HalfGiven DEF Stays

(* No step of any node's evaluation takes a value away from its meaning.        *)
LEMMA ScopedStep == ASSUME Inv, Scoped, ScopedCurrent, Next PROVE Scoped' /\ ScopedCurrent'
<1>1. UNCHANGED forest
    BY TypeStep
<1>2. given' = given /\ Sound' = Sound /\ Reach' = Reach /\ Of' = Of
    BY <1>1, SameScope
<1> DEFINE Stayed(n, w, v) == w \in Clean(Reach[n]) /\ <<Open(Of[n], w), Expanded(Of[n], v)>> \in Half(env')
<1>3. Scoped' <=> \A n \in Sound : \A k \in DOMAIN given[n] : \A i \in DOMAIN given[n][k] :
                    Stayed(n, symtab'[n][k][i], given[n][k][i])
    BY <1>2 DEF Scoped, Stays
<1>4. ScopedCurrent' <=> (current' # NoValue /\ Here' \in Sound =>
                            Stayed(Here', current'.value, given[Here'][current'.key][current'.index]))
    BY <1>2 DEF ScopedCurrent, Stays
<1>5. ASSUME env \subseteq env' PROVE \A n, w, v : Stays(n, w, v) => Stayed(n, w, v)
  <2>1. Half(env) \subseteq Half(env')
      BY <1>5, HalfMore
  <2>2. QED  BY <2>1 DEF Stays
<1>6. Scoped => \A n \in Sound : \A k \in DOMAIN given[n] : \A i \in DOMAIN given[n][k] :
                    Stays(n, symtab[n][k][i], given[n][k][i])
    BY DEF Scoped
<1>7. ScopedCurrent => (current # NoValue /\ Here \in Sound =>
                          Stays(Here, current.value, given[Here][current.key][current.index]))
    BY DEF ScopedCurrent
<1> HIDE DEF Stayed
<1>8. symtab' = symtab /\ env \subseteq env' => Scoped'
    BY <1>3, <1>5, <1>6
<1>9. symtab' = symtab /\ env' = env /\ current' = NoValue => Scoped' /\ ScopedCurrent'
    BY <1>4, <1>8
<1>10. CASE StartTree
    BY <1>9, <1>10, StartShape, StartFacts DEF Enter
<1>11. CASE CallChild
    BY <1>9, <1>11, CallShape, CallFacts DEF Enter
<1>12. ASSUME NEW key \in Key, PickKey(key) PROVE Scoped' /\ ScopedCurrent'
  <2>1. /\ symtab' = symtab /\ env' = env /\ stack # <<>> /\ Here' = Here /\ key \in DOMAIN given[Here]
        /\ \/ current' = NoValue
           \/ /\ symtab[Here][key] # <<>>
              /\ current' = [key |-> key, index |-> 1, value |-> symtab[Here][key][1]]
      BY <1>12, PickFacts, PickShape
  <2>2. CASE symtab[Here][key] # <<>> /\ current' = [key |-> key, index |-> 1, value |-> symtab[Here][key][1]]
    <3>1. symtab[Here][key] \in Seq(Value) /\ Len(symtab[Here][key]) = Len(given[Here][key]) /\ given[Here][key] \in Seq(Value)
      <4>1. forest \in Forests /\ Here \in Node
          BY <2>1, Facts
      <4>2. QED  BY <2>1, <4>1, Facts, OwnValues
    <3>2. 1 \in DOMAIN given[Here][key]
        BY <2>2, <3>1
    <3>3. current'.key = key /\ current'.index = 1 /\ current'.value = symtab[Here][key][1]
        BY <2>2
    <3>4. Here \in Sound => Stayed(Here, symtab[Here][key][1], given[Here][key][1])
        BY <1>5, <1>6, <2>1, <3>2
    <3>5. ScopedCurrent'
        BY <1>4, <2>1, <3>3, <3>4
    <3>6. QED  BY <1>8, <2>1, <3>5
  <2>3. QED  BY <1>9, <2>1, <2>2
<1>13. CASE Substitute
  <2>1. /\ stack # <<>> /\ current # NoValue /\ UNCHANGED <<symtab, stack>>
        /\ current' = [key |-> current.key, index |-> current.index, value |-> current'.value]
      BY <1>13, SubstituteFacts
  <2>2. Here' = Here
      BY <2>1 DEF Here, Top
  <2>3. current'.key = current.key /\ current'.index = current.index
      BY <2>1
  <2>4. env \subseteq env'
      BY <1>13 DEF Substitute
  <2>5. Here \in Sound => Stayed(Here, current'.value, given[Here][current.key][current.index])
      BY <1>13, SubstituteStays DEF Stayed
  <2>6. ScopedCurrent'
      BY <1>4, <2>2, <2>3, <2>5
  <2>7. QED  BY <1>8, <2>1, <2>4, <2>6
<1>14. CASE Abandon
    BY <1>9, <1>14, AbandonFacts
<1>15. CASE Store
  <2> DEFINE k == current.key
             i == current.index
  <2>1. /\ stack # <<>> /\ current # NoValue /\ stack' = stack /\ env' = env /\ i \in 1..Len(symtab[Here][k])
        /\ symtab[Here][k] \in Seq(Value)
        /\ \/ current' = NoValue
           \/ i < Len(symtab[Here][k]) /\ current' = [key |-> k, index |-> i + 1, value |-> symtab[Here][k][i + 1]]
      BY <1>15, StoreFacts
  <2>2. /\ k \in DOMAIN given[Here] /\ \A n \in Node : n # Here => symtab'[n] = symtab[n]
        /\ \A j \in DOMAIN given[Here] : j # k => symtab'[Here][j] = symtab[Here][j]
        /\ symtab'[Here][k][i] = current.value
        /\ \A j \in DOMAIN symtab[Here][k] : j # i => symtab'[Here][k][j] = symtab[Here][k][j]
      BY <1>15, StoreShape
  <2>3. Here' = Here
      BY <2>1 DEF Here, Top
  <2>4. given[Here][k] \in Seq(Value) /\ Len(symtab[Here][k]) = Len(given[Here][k]) /\ DOMAIN symtab[Here][k] = DOMAIN given[Here][k]
    <3>1. forest \in Forests /\ Here \in Node /\ Len(symtab[Here][k]) = Len(given[Here][k])
        BY <2>1, <2>2, Facts
    <3>2. given[Here][k] \in Seq(Value)
        BY <2>2, <3>1, OwnValues
    <3>3. QED  BY <2>1, <3>1, <3>2
  <2>5. Here \in Sound => Stayed(Here, current.value, given[Here][k][i])
      BY <1>5, <1>7, <2>1
  <2>6. \A n \in Sound : \A a \in DOMAIN given[n] : \A j \in DOMAIN given[n][a] : Stayed(n, symtab[n][a][j], given[n][a][j])
      BY <1>5, <1>6, <2>1
  <2> HIDE DEF k, i
  <2>7. ASSUME NEW n \in Sound, NEW a \in DOMAIN given[n], NEW j \in DOMAIN given[n][a]
        PROVE  Stayed(n, symtab'[n][a][j], given[n][a][j])
    <3>1. CASE n # Here \/ a # k
      <4>1. n \in Node
          BY DEF Sound
      <4>2. symtab'[n][a] = symtab[n][a]
          BY <2>2, <3>1, <4>1
      <4>3. QED  BY <2>6, <4>2
    <3>2. CASE n = Here /\ a = k /\ j # i
        BY <2>2, <2>4, <2>6, <3>2
    <3>3. CASE n = Here /\ a = k /\ j = i
        BY <2>2, <2>5, <3>3
    <3>4. QED  BY <3>1, <3>2, <3>3
  <2>8. Scoped'
      BY <1>3, <2>7
  <2>9. CASE i < Len(symtab[Here][k]) /\ current' = [key |-> k, index |-> i + 1, value |-> symtab[Here][k][i + 1]]
    <3>1. i + 1 \in DOMAIN given[Here][k]
        BY <2>1, <2>4, <2>9
    <3>2. Here \in Sound => Stayed(Here, symtab[Here][k][i + 1], given[Here][k][i + 1])
        BY <2>2, <2>6, <3>1
    <3>3. current'.key = k /\ current'.index = i + 1 /\ current'.value = symtab[Here][k][i + 1]
        BY <2>9
    <3>4. ScopedCurrent'
        BY <1>4, <2>3, <3>2, <3>3
    <3>5. QED  BY <2>8, <3>4
  <2>10. current' = NoValue => ScopedCurrent'
      BY <1>4
  <2>11. QED  BY <2>1, <2>8, <2>9, <2>10 DEF k, i
<1>16. CASE Return
    BY <1>9, <1>16, ReturnFacts
<1>17. QED  BY <1>10, <1>11, <1>12, <1>13, <1>14, <1>15, <1>16 DEF Next

LEMMA ScopedInvariance == Spec => [](Inv /\ Scoped /\ ScopedCurrent)
<1>1. Init => Inv /\ Scoped /\ ScopedCurrent
  <2>1. ASSUME Init PROVE Scoped
    <3>1. forest \in Forests /\ symtab = given
        BY <2>1 DEF Init, given
    <3>2. QED  BY <3>1, GivenStays DEF Scoped
  <2>2. Init => ScopedCurrent
      BY DEF Init, ScopedCurrent
  <2>3. QED  BY <2>1, <2>2, InvInit
<1>2. ASSUME Inv, Scoped, ScopedCurrent, [Next]_vars PROVE Scoped' /\ ScopedCurrent'
  <2>1. CASE Next
      BY <1>2, <2>1, ScopedStep
  <2>2. CASE UNCHANGED vars
    <3>1. UNCHANGED <<forest, symtab, stack, current, env>>
        BY <2>2 DEF vars
    <3>2. UNCHANGED <<given, Sound, Reach, Of, Here>>
        BY <3>1, SameScope DEF Here, Top
    <3>3. QED  BY <1>2, <3>1, <3>2 DEF Scoped, ScopedCurrent, Stays
  <2>3. QED  BY <1>2, <2>1, <2>2
<1>3. Inv /\ Scoped /\ ScopedCurrent /\ [Next]_vars => (Inv /\ Scoped /\ ScopedCurrent)'
    BY <1>2, InvStep
<1>4. QED  BY <1>1, <1>3, PTL DEF Spec
-----------------------------------------------------------------------------
(* What is only text and stands for a meaning is what is left of it.            *)
LEMMA AgreesAtEnd ==
    ASSUME NEW set, NEW w \in Seq(Words), NEW M \in Right, <<w, M>> \in Half(set)
    PROVE  Agrees(w, M)
<1> DEFINE n == Len(M)
<1>1. /\ M \in Seq(Mark) /\ Len(w) = n /\ n \in Nat /\ DOMAIN M = 1..n
      /\ \A i \in 1..n : May(w[i], M[i], set)
      /\ Late(w, M)
  <2>1. /\ M \in Seq(Mark) /\ Len(w) = Len(M) /\ Late(w, M)
        /\ \A i \in 1..Len(M) : May(w[i], M[i], set)
      BY HalfIs
  <2>2. Len(M) \in Nat /\ DOMAIN M = 1..Len(M)
      BY <2>1, Elements
  <2>3. QED  BY <2>1, <2>2
<1>2. \A i \in 1..n : w[i] \in Words /\ M[i] \in Mark
    BY <1>1, Elements
<1>3. \A i \in 1..n : w[i].op = "text" /\ w[i] = Text(w[i].arg)
  <2>1. \A i \in 1..n : w[i].op = "text" /\ w[i] \in Mark
      BY <1>2, CleanFacts, Marks DEF Words
  <2>2. \A m \in Mark : m.op = "text" => m = Text(m.arg)
      BY Marks, Zenon
  <2>3. QED  BY <2>1, <2>2
<1>4. Late(w, M) <=> \A i \in 1..n : M[i].op = "own" /\ w[i].op = "text" /\ w[i].arg # M[i].arg =>
                        \E l \in 1..(i - 1) : M[l] = Getenv(M[i].arg)
    BY DEF Late
<1> HIDE DEF n
<1>5. ASSUME NEW i \in 1..n PROVE w[i] \in Left(M[i], SubSeq(M, 1, i - 1))
  <2> DEFINE before == SubSeq(M, 1, i - 1)
             m == M[i]
             y == w[i]
  <2>1. May(y, m, set) /\ y.op = "text" /\ y = Text(y.arg)
      BY <1>1, <1>3
  <2>2. m.op = "own" /\ y.arg # m.arg => [op |-> "getenv", arg |-> m.arg] \in Range(before)
    <3>1. SUFFICES ASSUME m.op = "own" /\ y.arg # m.arg PROVE Getenv(m.arg) \in Range(before)
        BY DEF Getenv
    <3>2. PICK l \in 1..(i - 1) : M[l] = Getenv(m.arg)
        BY <1>1, <1>4, <2>1, <3>1
    <3>3. i \in 1..Len(M)
        BY DEF n
    <3>4. M[l] \in Range(before)
        BY <1>1, <3>3, Prefix
    <3>5. QED  BY <3>2, <3>4
  <2> HIDE DEF before, m, y
  <2>3. CASE y = m
    <3>1. m.op = "text"
        BY <2>1, <2>3
    <3>2. Left(m, before) = {m}
        BY <3>1 DEF Left
    <3>3. QED  BY <2>3, <3>2 DEF m, y, before
  <2>4. CASE m.op = "setenv" /\ y = Text("")
    <3>1. Left(m, before) = {Text("")}
        BY <2>4 DEF Left
    <3>2. QED  BY <2>4, <3>1 DEF m, y, before
  <2>5. CASE m.op = "getenv" /\ (y.arg = m.arg \/ y.arg = "")
    <3>1. Left(m, before) = {Text(m.arg), Text("")}
        BY <2>5 DEF Left
    <3>2. QED  BY <2>1, <2>5, <3>1 DEF m, y, before
  <2>6. CASE m.op = "own" /\ (y.arg = m.arg \/ y.arg = "")
    <3>1. Left(m, before) = IF [op |-> "getenv", arg |-> m.arg] \in Range(before)
                            THEN {Text(m.arg), Text("")} ELSE {Text(m.arg)}
        BY <2>6 DEF Left
    <3>2. QED  BY <2>1, <2>2, <2>6, <3>1 DEF m, y, before
  <2>7. QED  BY <2>1, <2>3, <2>4, <2>5, <2>6 DEF May
<1>6. QED  BY <1>1, <1>5 DEF Agrees, n

(* The values that kbtree_eval leaves when it has come to its end without       *)
(* errors are what their variables mean by the scopes of the trees, for any     *)
(* trees and values and whatever the order of the variables; and a getenv has   *)
(* found what its own value sets before it, unless it was replaced together     *)
(* with an earlier one.                                                     *)
THEOREM ValuesExact == Spec => []ValuesAsScoped
<1>1. ASSUME Inv, Scoped, Done, nerrors = 0, NEW n \in InForest, NEW k \in DOMAIN symtab[n], NEW i \in DOMAIN symtab[n][k]
      PROVE  Agrees(symtab[n][k][i], Meaning(n, forest.given[n][k][i]))
  <2> DEFINE w == symtab[n][k][i]
             g == given[n][k][i]
             M == Expanded(Of[n], g)
  <2>1. n \in Sound /\ n \in Node /\ forest \in Forests /\ SymtabOK
      BY <1>1, AllFinished, TypeParts DEF Finished, InForest, Inv, TypeOK
  <2>2. ~HasReference(w)
      BY <1>1, NothingLeftAtEnd DEF NothingLeft
  <2>3. k \in DOMAIN given[n] /\ i \in DOMAIN given[n][k]
    <3>1. /\ symtab[n] \in [DOMAIN given[n] -> Seq(Value)]
          /\ \A j \in DOMAIN symtab[n] : Len(symtab[n][j]) = Len(given[n][j])
        BY <2>1 DEF SymtabOK
    <3>2. k \in DOMAIN given[n] /\ symtab[n][k] \in Seq(Value) /\ Len(symtab[n][k]) = Len(given[n][k])
        BY <3>1
    <3>3. given[n][k] \in Seq(Value)
        BY <2>1, <3>2, OwnValues
    <3>4. QED  BY <3>2, <3>3
  <2>4. w \in Clean(Reach[n]) /\ <<Open(Of[n], w), M>> \in Half(env)
      BY <1>1, <2>1, <2>3 DEF Scoped, Stays
  <2>5. M \in Right
      BY <2>1, <2>3, GivenRight
  <2>6. Meaning(n, forest.given[n][k][i]) = M
      BY <2>1, MeaningIs DEF given
  <2> HIDE DEF w, M
  <2>7. w \in Seq(Words)
    <3>1. w \in Seq(Piece) /\ Len(w) \in Nat /\ DOMAIN w = 1..Len(w)
        BY <2>4, CleanFacts, Elements DEF Value
    <3>2. \A j \in 1..Len(w) : w[j] \in Words
        BY <2>2, <3>1, Elements DEF HasReference, IsReference, Words
    <3>3. w = [j \in 1..Len(w) |-> w[j]]
        BY <3>1
    <3>4. w \in [1..Len(w) -> Words]
        BY <3>2, <3>3
    <3>5. QED  BY <3>1, <3>4, Listed
  <2>8. <<w, M>> \in Half(env)
      BY <2>4, <2>7, OpenText
  <2>9. QED  BY <2>5, <2>6, <2>7, <2>8, AgreesAtEnd DEF w
<1>2. ASSUME Inv, Scoped PROVE ValuesAsScoped
  <2>1. Done /\ nerrors = 0 => \A n \in InForest : Resolvable(n) /\ ~Circular(n)
      BY <1>2, NothingLeftAtEnd DEF NothingLeft
  <2>2. QED  BY <1>1, <1>2, <2>1 DEF ValuesAsScoped
<1>3. Inv /\ Scoped /\ ScopedCurrent => ValuesAsScoped
    BY <1>2
<1>4. QED  BY <1>3, ScopedInvariance, PTL
=============================================================================
