---------------------------- MODULE KbLintProofs ----------------------------
(***************************************************************************)
(* The decision of the lint, for every list of files: main goes on to run    *)
(* something if and only if every line is well formed where it stands and     *)
(* every node is complete, whatever the order in which errors are found,      *)
(* counted and added up.                                                    *)
(***************************************************************************)
EXTENDS KbLint, KbSequences

-----------------------------------------------------------------------------
(* Tables: what a line that is accepted makes of one.                         *)
Writable == {key \in Key : ~IsReadOnly(key)}
Table == UNION {[K -> Seq(Text)] : K \in SUBSET Writable}

LEMMA EmptyTable == <<>> \in Table
<1>1. <<>> = [k \in {} |-> <<>>]
    OBVIOUS
<1>2. <<>> \in [{} -> Seq(Text)]
    BY <1>1
<1>3. QED  BY <1>2 DEF Table

LEMMA TableIs ==
    ASSUME NEW table \in Table
    PROVE  /\ DOMAIN table \subseteq Writable
           /\ table \in [DOMAIN table -> Seq(Text)]
<1>1. PICK K \in SUBSET Writable : table \in [K -> Seq(Text)]
    BY DEF Table
<1>2. QED  BY <1>1

LEMMA HashMapSet ==
    ASSUME NEW table \in Table, NEW key \in Writable, NEW list \in Seq(Text)
    PROVE  ds_hmap_set(table, key, list) \in Table
<1> DEFINE K == DOMAIN table \cup {key}
<1>1. K \in SUBSET Writable
    BY TableIs
<1>2. ds_hmap_set(table, key, list) \in [K -> Seq(Text)]
    BY TableIs DEF ds_hmap_set
<1>3. QED  BY <1>1, <1>2 DEF Table

LEMMA Singleton ==
    ASSUME NEW S, NEW x \in S
    PROVE  <<x>> \in Seq(S) /\ DOMAIN <<x>> = {1} /\ <<x>>[1] = x
OBVIOUS

LEMMA Texts == <<>> \in Text /\ <<" ">> \in Text /\ \A s, t \in Text : s \o t \in Text
<1>1. <<" ">> \in Text
    BY TableAssumption, Singleton DEF Text
<1>2. <<>> \in Text
    BY DEF Text
<1>3. ASSUME NEW s \in Text, NEW t \in Text PROVE s \o t \in Text
    BY <1>3 DEF Text
<1>4. QED  BY <1>1, <1>2, <1>3

LEMMA GetType ==
    ASSUME NEW table \in Table, NEW key
    PROVE  kbsymtab_get(table, key) \in Seq(Text)
BY TableIs DEF kbsymtab_get

LEMMA SetType ==
    ASSUME NEW table \in Table, NEW line \in Line, line.op = "set", SetAccepts(table, line)
    PROVE  kbsymtab_set(table, line) \in Table
<1>1. line.key \in Writable /\ line.values \in Seq(Text)
    BY DEF Line, SetAccepts, Writable
<1>2. CASE ~SetsExisting(table, line)
    BY <1>1, <1>2, HashMapSet DEF kbsymtab_set
<1>3. CASE SetsExisting(table, line)
  <2> DEFINE value == IF line.values = <<>> THEN <<>> ELSE line.values[1]
             old == table[line.key]
  <2>1. old \in Seq(Text) /\ old # <<>>
      BY <1>3, TableIs DEF SetsExisting, SetAccepts
  <2>2. value \in Text
    <3>1. CASE line.values = <<>>
        BY <3>1, Texts
    <3>2. CASE line.values # <<>>
      <4>1. line.values[1] \in Text
          BY <1>1, <3>2
      <4>2. QED  BY <3>2, <4>1
    <3>3. QED  BY <3>1, <3>2
  <2>3. [old EXCEPT ![1] = value] \in Seq(Text)
      BY <2>1, <2>2
  <2>4. kbsymtab_set(table, line) = [table EXCEPT ![line.key] = [old EXCEPT ![1] = value]]
      BY <1>3 DEF kbsymtab_set
  <2> HIDE DEF value, old
  <2>5. kbsymtab_set(table, line) \in [DOMAIN table -> Seq(Text)]
      BY <2>3, <2>4, TableIs
  <2>6. QED  BY <2>5, TableIs DEF Table
<1>4. QED  BY <1>2, <1>3

LEMMA AppendType ==
    ASSUME NEW table \in Table, NEW line \in Line, line.op = "append",
           AppendAccepts(table, line), ~AppendReadsBeyond(table, line)
    PROVE  kbsymtab_append(table, line) \in Table
<1> DEFINE existing == kbsymtab_get(table, line.key)
           target == IF existing = <<>> THEN <<<<>>>> ELSE existing
           longer == [target EXCEPT ![line.at + 1] = @ \o <<" ">> \o line.value]
<1>1. line.key \in Writable /\ line.value \in Text /\ line.at \in Nat
    BY DEF Line, AppendAccepts, Writable
<1>2. existing \in Seq(Text)
    BY GetType
<1>3. CASE line.form = "array"
  <2>1. Append(existing, line.value) \in Seq(Text)
      BY <1>1, <1>2
  <2>2. QED  BY <1>1, <1>3, <2>1, HashMapSet DEF kbsymtab_append
<1>4. CASE line.form # "array"
  <2>1. target \in Seq(Text) /\ line.at + 1 \in DOMAIN target
    <3>1. line.form = "index"
        BY <1>4 DEF AppendAccepts
    <3>2. CASE existing = <<>>
      <4>1. line.at = 0
          BY <1>1, <3>1, <3>2 DEF AppendReadsBeyond
      <4>2. target = <<<<>>>>
          BY <3>2
      <4>3. <<<<>>>> \in Seq(Text) /\ DOMAIN <<<<>>>> = {1}
          BY Texts, Singleton
      <4> HIDE DEF target
      <4>4. line.at + 1 = 1
          BY <4>1
      <4>5. QED  BY <4>2, <4>3, <4>4
    <3>3. CASE existing # <<>>
        BY <1>1, <1>2, <3>1, <3>3 DEF AppendAccepts
    <3>4. QED  BY <3>2, <3>3
  <2>2. target[line.at + 1] \o <<" ">> \o line.value \in Text
    <3> HIDE DEF target
    <3>1. target[line.at + 1] \in Text
        BY <2>1
    <3>2. QED  BY <1>1, <3>1, Texts
  <2>3. longer \in Seq(Text)
    <3> DEFINE value == target[line.at + 1] \o <<" ">> \o line.value
    <3>1. longer = [target EXCEPT ![line.at + 1] = value]
        OBVIOUS
    <3>2. value \in Text
        BY <2>2
    <3> HIDE DEF target, value, longer
    <3>3. QED  BY <2>1, <3>1, <3>2
  <2>4. kbsymtab_append(table, line) = ds_hmap_set(table, line.key, longer)
      BY <1>4 DEF kbsymtab_append
  <2> HIDE DEF longer
  <2>5. QED  BY <1>1, <2>3, <2>4, HashMapSet
<1>5. QED  BY <1>3, <1>4

LEMMA AssignedType ==
    ASSUME NEW table \in Table, NEW line \in Line, Assigns(line),
           Accepts(table, line), ~ReadsBeyond(table, line)
    PROVE  Assigned(table, line) \in Table
<1>1. CASE line.op = "set"
    BY <1>1, SetType DEF Accepts, Assigned
<1>2. CASE line.op = "append"
    BY <1>2, AppendType DEF Accepts, Assigned, ReadsBeyond
<1>3. QED  BY <1>1, <1>2 DEF Assigns
-----------------------------------------------------------------------------
(* The function TablesOf is defined by exists, and goes on line by line.         *)
Grows(f, lines, n) ==
    f = [i \in 0..n |->
           IF i = 0 \/ lines[i].op = "node" THEN <<>>
           ELSE IF Assigns(lines[i]) THEN Assigned(f[i - 1], lines[i])
           ELSE f[i - 1]]

Next1(table, line) ==
    IF line.op = "node" THEN <<>>
    ELSE IF Assigns(line) THEN Assigned(table, line)
    ELSE table

LEMMA GrowsIs ==
    ASSUME NEW f, NEW lines, NEW n \in Nat
    PROVE  Grows(f, lines, n) <=> f = [i \in 0..n |-> IF i = 0 THEN <<>> ELSE Next1(f[i - 1], lines[i])]
BY DEF Grows, Next1

LEMMA GrowsExists ==
    ASSUME NEW lines, NEW n \in Nat
    PROVE  \E f : Grows(f, lines, n)
<1> DEFINE N == {k \in Nat : \E f : Grows(f, lines, k)}
<1>1. 0 \in N
  <2> DEFINE f == [i \in 0..0 |-> <<>>]
  <2>1. f = [i \in 0..0 |-> IF i = 0 THEN <<>> ELSE Next1(f[i - 1], lines[i])]
      OBVIOUS
  <2> HIDE DEF f
  <2>2. Grows(f, lines, 0)
      BY <2>1, GrowsIs
  <2>3. QED  BY <2>2
<1>2. ASSUME NEW k \in N PROVE k + 1 \in N
  <2>1. PICK f : Grows(f, lines, k)
      OBVIOUS
  <2> DEFINE g == [i \in 0..(k + 1) |-> IF i = 0 THEN <<>> ELSE Next1(f[i - 1], lines[i])]
  <2>2. k \in Nat
      OBVIOUS
  <2>3. f = [i \in 0..k |-> IF i = 0 THEN <<>> ELSE Next1(f[i - 1], lines[i])]
      BY <2>1, <2>2, GrowsIs
  <2>4. \A i \in 0..k : f[i] = IF i = 0 THEN <<>> ELSE Next1(f[i - 1], lines[i])
    <3> DEFINE h == [i \in 0..k |-> IF i = 0 THEN <<>> ELSE Next1(f[i - 1], lines[i])]
    <3>1. \A i \in 0..k : h[i] = IF i = 0 THEN <<>> ELSE Next1(f[i - 1], lines[i])
        OBVIOUS
    <3>2. f = h
        BY <2>3
    <3> HIDE DEF h
    <3>3. QED  BY <3>1, <3>2
  <2>5. \A i \in 0..k : f[i] = g[i]
      BY <2>2, <2>4
  <2> HIDE DEF g
  <2>6. \A i \in 0..(k + 1) : i # 0 => f[i - 1] = g[i - 1]
      BY <2>2, <2>5
  <2>7. g = [i \in 0..(k + 1) |-> IF i = 0 THEN <<>> ELSE Next1(g[i - 1], lines[i])]
      BY <2>2, <2>6 DEF g
  <2>8. Grows(g, lines, k + 1)
    <3>1. k + 1 \in Nat
        BY <2>2
    <3>2. QED  BY <2>7, <3>1, GrowsIs
  <2>9. QED  BY <2>2, <2>8
<1>3. N = Nat
  <2> N \in SUBSET Nat
      OBVIOUS
  <2> HIDE DEF N
  <2>1. QED  BY <1>1, <1>2, Induction
<1>4. QED  BY <1>3

LEMMA TablesGrow ==
    ASSUME NEW lines \in Seq(Line)
    PROVE  /\ TablesOf(lines)[0] = <<>>
           /\ \A i \in 1..Len(lines) :
                TablesOf(lines)[i] = Next1(TablesOf(lines)[i - 1], lines[i])
<1> DEFINE T == TablesOf(lines)
           n == Len(lines)
<1>1. n \in Nat
    OBVIOUS
<1>2. T = CHOOSE f : Grows(f, lines, n)
    BY DEF TablesOf, Grows
<1>3. Grows(T, lines, n)
    BY <1>1, <1>2, GrowsExists
<1> HIDE DEF T
<1>4. T = [i \in 0..n |-> IF i = 0 THEN <<>> ELSE Next1(T[i - 1], lines[i])]
    BY <1>1, <1>3, GrowsIs
<1> DEFINE h == [i \in 0..n |-> IF i = 0 THEN <<>> ELSE Next1(T[i - 1], lines[i])]
<1>5. \A i \in 0..n : h[i] = IF i = 0 THEN <<>> ELSE Next1(T[i - 1], lines[i])
    OBVIOUS
<1>6. T = h
    BY <1>4
<1> HIDE DEF h
<1>7. \A i \in 0..n : T[i] = IF i = 0 THEN <<>> ELSE Next1(T[i - 1], lines[i])
    BY <1>5, <1>6
<1>8. QED  BY <1>1, <1>7 DEF T
-----------------------------------------------------------------------------
(* Checking a node counts no error if and only if it is complete.             *)
LEMMA CountType ==
    ASSUME NEW S, NEW conditions \in Seq(S)
    PROVE  Count(conditions) \in Nat
<1>1. IsFiniteSet(1..Len(conditions))
    BY FS_Interval
<1>2. {i \in DOMAIN conditions : conditions[i]} \subseteq 1..Len(conditions)
    OBVIOUS
<1>3. QED  BY <1>1, <1>2, FS_Subset, FS_CardinalityType DEF Count

LEMMA CountNone ==
    ASSUME NEW conditions \in Seq(BOOLEAN)
    PROVE  Count(conditions) = 0 <=> \A i \in DOMAIN conditions : ~conditions[i]
<1> DEFINE C == {i \in DOMAIN conditions : conditions[i]}
<1>1. IsFiniteSet(1..Len(conditions))
    BY FS_Interval
<1>2. C \subseteq 1..Len(conditions)
    OBVIOUS
<1>3. IsFiniteSet(C)
    BY <1>1, <1>2, FS_Subset
<1>4. Cardinality(C) = 0 <=> C = {}
    BY <1>3, FS_EmptySet
<1>5. QED  BY <1>4 DEF Count

LEMMA CountThree ==
    ASSUME NEW a \in BOOLEAN, NEW b \in BOOLEAN, NEW c \in BOOLEAN
    PROVE  /\ Count(<<a, b, c>>) \in Nat
           /\ Count(<<a, b, c>>) = 0 <=> ~a /\ ~b /\ ~c
<1>1. <<a, b, c>> \in Seq(BOOLEAN) /\ DOMAIN <<a, b, c>> = 1..3
    OBVIOUS
<1>2. (\A i \in 1..3 : ~<<a, b, c>>[i]) <=> ~a /\ ~b /\ ~c
  <2>1. 1..3 = {1, 2, 3}
      OBVIOUS
  <2>2. QED  BY <2>1
<1>3. QED  BY <1>1, <1>2, CountNone, CountType

LEMMA CountFour ==
    ASSUME NEW a \in BOOLEAN, NEW b \in BOOLEAN, NEW c \in BOOLEAN, NEW d \in BOOLEAN
    PROVE  /\ Count(<<a, b, c, d>>) \in Nat
           /\ Count(<<a, b, c, d>>) = 0 <=> ~a /\ ~b /\ ~c /\ ~d
<1>1. <<a, b, c, d>> \in Seq(BOOLEAN) /\ DOMAIN <<a, b, c, d>> = 1..4
    OBVIOUS
<1>2. (\A i \in 1..4 : ~<<a, b, c, d>>[i]) <=> ~a /\ ~b /\ ~c /\ ~d
  <2>1. 1..4 = {1, 2, 3, 4}
      OBVIOUS
  <2>2. QED  BY <2>1
<1>3. QED  BY <1>1, <1>2, CountNone, CountType

CompleteAs(type, table) ==
    LET valid(key, values) == \/ key \notin DOMAIN table
                              \/ table[key] = <<>>
                              \/ Len(table[key]) = 1 /\ table[key][1] \in values
    IN  /\ {"ID", "MESSAGE"} \subseteq DOMAIN table
        /\ \E key \in DOMAIN table : Actions(table) = {key}
        /\ type = "periodic" =>
             /\ kbsymtab_get(table, "PERIOD") # <<>>
             /\ valid("PERIOD", ValidPeriods) /\ valid("COUNTER", ValidCounters)

LEMMA PeriodicChecked ==
    ASSUME NEW table \in Table
    PROVE  /\ nc_periodic(table) \in Nat
           /\ nc_periodic(table) = 0 <=>
                LET periods == kbsymtab_get(table, "PERIOD")
                    counters == kbsymtab_get(table, "COUNTER")
                IN  /\ Len(periods) = 1 /\ periods[1] \in ValidPeriods
                    /\ counters = <<>> \/ (Len(counters) = 1 /\ counters[1] \in ValidCounters)
<1> DEFINE periods == kbsymtab_get(table, "PERIOD")
           counters == kbsymtab_get(table, "COUNTER")
           found == Count(<<Len(periods) > 1, periods[1] \notin ValidPeriods, Len(counters) > 1,
                            counters # <<>> /\ counters[1] \notin ValidCounters>>)
<1>1. periods \in Seq(Text) /\ counters \in Seq(Text)
    BY GetType
<1>2. nc_periodic(table) = IF periods = <<>> THEN 1 ELSE found
    BY DEF nc_periodic
<1> HIDE DEF periods, counters
<1>3. /\ found \in Nat
      /\ found = 0 <=> /\ ~(Len(periods) > 1) /\ periods[1] \in ValidPeriods
                       /\ ~(Len(counters) > 1) /\ ~(counters # <<>> /\ counters[1] \notin ValidCounters)
  <2> DEFINE a == Len(periods) > 1
             b == periods[1] \notin ValidPeriods
             c == Len(counters) > 1
             d == counters # <<>> /\ counters[1] \notin ValidCounters
  <2>1. a \in BOOLEAN /\ b \in BOOLEAN /\ c \in BOOLEAN /\ d \in BOOLEAN
      OBVIOUS
  <2>2. found = Count(<<a, b, c, d>>)
      OBVIOUS
  <2> HIDE DEF a, b, c, d, found
  <2>3. found \in Nat /\ (found = 0 <=> ~a /\ ~b /\ ~c /\ ~d)
      BY <2>1, <2>2, CountFour
  <2>4. QED  BY <2>3 DEF a, b, c, d
<1> HIDE DEF found
<1>4. nc_periodic(table) \in Nat
    BY <1>2, <1>3
<1>5. ASSUME NEW list \in Seq(Text), list # <<>>
      PROVE  ~(Len(list) > 1) <=> Len(list) = 1
  <2> DEFINE n == Len(list)
  <2>1. n \in Nat /\ n # 0
      BY <1>5
  <2> HIDE DEF n
  <2>2. ~(n > 1) <=> n = 1
      BY <2>1
  <2>3. QED  BY <2>2 DEF n
<1>6. Len(<<>>) = 0
    OBVIOUS
<1>7. nc_periodic(table) = 0 <=>
        /\ Len(periods) = 1 /\ periods[1] \in ValidPeriods
        /\ counters = <<>> \/ (Len(counters) = 1 /\ counters[1] \in ValidCounters)
    BY <1>1, <1>2, <1>3, <1>5, <1>6
<1>8. QED  BY <1>4, <1>7 DEF periods, counters

LEMMA OneAction ==
    ASSUME NEW table \in Table
    PROVE  Cardinality(Actions(table)) = 1 <=> \E key \in DOMAIN table : Actions(table) = {key}
<1>1. Actions(table) \subseteq DOMAIN table /\ Actions(table) \subseteq {"EXEC", "EMITS", "JOBS"}
    BY DEF Actions
<1>2. IsFiniteSet({"EXEC", "EMITS", "JOBS"})
  <2>1. IsFiniteSet({"JOBS"})
      BY FS_Singleton
  <2>2. IsFiniteSet({"JOBS"} \cup {"EMITS"})
      BY <2>1, FS_AddElement
  <2>3. IsFiniteSet({"JOBS"} \cup {"EMITS"} \cup {"EXEC"})
      BY <2>2, FS_AddElement
  <2>4. {"JOBS"} \cup {"EMITS"} \cup {"EXEC"} = {"EXEC", "EMITS", "JOBS"}
      OBVIOUS
  <2>5. QED  BY <2>3, <2>4
<1>3. IsFiniteSet(Actions(table))
    BY <1>1, <1>2, FS_Subset
<1>4. Cardinality(Actions(table)) = 1 => \E key : Actions(table) = {key}
    BY <1>3, FS_Singleton
<1>5. \A key : Actions(table) = {key} => key \in DOMAIN table /\ Cardinality(Actions(table)) = 1
    BY <1>1, FS_Singleton
<1>6. QED  BY <1>4, <1>5

LEMMA CheckIsCompleteness ==
    ASSUME NEW node, node.vars \in Table
    PROVE  /\ kbnode_check(node) \in Nat
           /\ kbnode_check(node) = 0 <=> CompleteAs(node.type, node.vars)
<1> DEFINE table == node.vars
           a == "ID" \notin DOMAIN table
           b == "MESSAGE" \notin DOMAIN table
           c == Cardinality(Actions(table)) # 1
           periodic == IF node.type = "periodic" THEN nc_periodic(table) ELSE 0
           periods == kbsymtab_get(table, "PERIOD")
           counters == kbsymtab_get(table, "COUNTER")
<1>1. kbnode_check(node) = periodic + Count(<<a, b, c>>)
    BY DEF kbnode_check
<1>2. Count(<<a, b, c>>) \in Nat /\ (Count(<<a, b, c>>) = 0 <=> ~a /\ ~b /\ ~c)
    BY CountThree
<1>3. periodic \in Nat
    BY PeriodicChecked
<1>4. periodic = 0 <=> (node.type = "periodic" =>
        /\ Len(periods) = 1 /\ periods[1] \in ValidPeriods
        /\ counters = <<>> \/ (Len(counters) = 1 /\ counters[1] \in ValidCounters))
    BY PeriodicChecked
<1>5. ~c <=> \E key \in DOMAIN table : Actions(table) = {key}
    BY OneAction
<1>6. CompleteAs(node.type, table) <=> ~a /\ ~b /\ ~c /\ periodic = 0
  <2> DEFINE valid(key, values) == \/ key \notin DOMAIN table
                                   \/ table[key] = <<>>
                                   \/ Len(table[key]) = 1 /\ table[key][1] \in values
  <2>1. /\ periods # <<>> /\ valid("PERIOD", ValidPeriods) <=>
             Len(periods) = 1 /\ periods[1] \in ValidPeriods
    <3>1. periods = IF "PERIOD" \in DOMAIN table THEN table["PERIOD"] ELSE <<>>
        BY DEF kbsymtab_get
    <3>2. Len(<<>>) # 1
        OBVIOUS
    <3> HIDE DEF periods, table
    <3>3. QED  BY <3>1, <3>2
  <2>2. valid("COUNTER", ValidCounters) <=>
             counters = <<>> \/ (Len(counters) = 1 /\ counters[1] \in ValidCounters)
    <3>1. counters = IF "COUNTER" \in DOMAIN table THEN table["COUNTER"] ELSE <<>>
        BY DEF kbsymtab_get
    <3>2. Len(<<>>) # 1
        OBVIOUS
    <3> HIDE DEF counters, table
    <3>3. QED  BY <3>1, <3>2
  <2>3. CompleteAs(node.type, table) <=>
          /\ ~a /\ ~b /\ ~c
          /\ node.type = "periodic" =>
               /\ periods # <<>>
               /\ valid("PERIOD", ValidPeriods) /\ valid("COUNTER", ValidCounters)
    <3> HIDE DEF c
    <3>1. QED  BY <1>5 DEF CompleteAs
  <2> HIDE DEF valid, periods, counters, a, b, c, periodic
  <2>4. QED  BY <1>4, <2>1, <2>2, <2>3
<1> HIDE DEF a, b, c, periodic, periods, counters
<1>7. kbnode_check(node) = 0 <=> periodic = 0 /\ Count(<<a, b, c>>) = 0
    BY <1>1, <1>2, <1>3
<1>8. kbnode_check(node) \in Nat
    BY <1>1, <1>2, <1>3
<1>9. QED  BY <1>2, <1>6, <1>7, <1>8
-----------------------------------------------------------------------------
(* The invariant.  What was read, and which files were closed.                *)
Behind ==
    IF phase = "read"
    THEN {p \in Places : p[1] < nfile \/ (p[1] = nfile /\ p[2] <= nline)}
    ELSE Places

ClosedFiles == IF phase = "read" THEN 1..(nfile - 1) ELSE DOMAIN files

Node == [type : NodeType, vars : Table]

Typed ==
    /\ TypeOK
    /\ nodes \in Seq(Node)
    /\ phase = "read" => files # <<>>
    /\ phase # "read" /\ phase # "undefined" => current = 0 /\ first = Len(nodes)

(* A header no further one follows, so far.                                   *)
Open(h) ==
    /\ h[1] = nfile /\ h[2] <= nline
    /\ \A i \in (h[2] + 1)..nline : At(<<nfile, i>>).op # "node"

(* The headers the nodes in the list were begun by.                           *)
Begun(where) ==
    /\ where \in [DOMAIN nodes -> Headers]
    /\ \A i, j \in DOMAIN nodes : where[i] = where[j] => i = j
    /\ \A h \in Headers : h \in Behind <=> \E i \in DOMAIN nodes : where[i] = h
    /\ \A i \in DOMAIN nodes : nodes[i].type = At(where[i]).type
    /\ \A i \in DOMAIN nodes : i > first <=> phase = "read" /\ where[i][1] = nfile
    /\ \A i \in DOMAIN nodes :
         IF i = current THEN Open(where[i]) /\ nodes[i].vars = TablesOf(Lines)[nline]
         ELSE nodes[i].vars = NodeAt(where[i])
    /\ current = 0 => first = Len(nodes)

Checked == DOMAIN nodes \ unchecked
BeforeCheck == phase \in {"read", "coalesce"}

Odd ==
    \/ \E p \in Behind : At(p).op = "junk"
    \/ \E f \in ClosedFiles : \A h \in Headers : h[1] # f
    \/ ~BeforeCheck /\ \E i \in Checked : ID(i) = <<>>

(* As long as no error was counted: all that was read is well formed, the nodes  *)
(* are what the files say, those that were checked are complete, and there was  *)
(* a warning if there was a reason.                                          *)
NoneCounted ==
    /\ \A p \in Behind : WellFormed(p)
    /\ \E where : Begun(where)
    /\ ~BeforeCheck =>
         /\ Duplicates = {}
         /\ \A i \in Checked : kbnode_check(nodes[i]) = 0
    /\ nwarnings > 0 <=> Odd
    /\ elaborated = 0

(* From the first error on, there is one to be found.                         *)
OneCounted == ~Sound \/ elaborated = 1

Counted == IF nerrors = 0 THEN NoneCounted ELSE OneCounted

Decided ==
    /\ phase \in {"read", "coalesce", "check"} => elaborated = 0
    /\ phase \in {"decide"} \cup Ends => unchecked = {}
    /\ phase \in Ends =>
         phase = IF nerrors > 0 \/ (nwarnings > 0 /\ options.werror) THEN "aborted"
                 ELSE IF options.lint THEN "linted" ELSE "launched"

Inv ==
    /\ Typed
    /\ phase # "undefined" =>
         /\ Counted
         /\ Decided
-----------------------------------------------------------------------------
(* Type correctness.                                                         *)
LEMMA NodesAre ==
    ASSUME NEW list \in Seq(Node)
    PROVE  \A i \in DOMAIN list :
              /\ list[i].type \in NodeType
              /\ DOMAIN list[i].vars \subseteq {key \in Key : ~IsReadOnly(key)}
              /\ \A k \in DOMAIN list[i].vars : list[i].vars[k] \in Seq(Text)
<1> TAKE i \in DOMAIN list
<1>1. list[i] \in Node
    OBVIOUS
<1>2. list[i].type \in NodeType /\ list[i].vars \in Table
    BY <1>1 DEF Node
<1>3. QED  BY <1>2, TableIs DEF Writable

LEMMA FilesAre == Typed => files \in Seq(Seq(Line))
BY LintAssumption DEF Typed, TypeOK

LEMMA NextLineIs ==
    ASSUME Typed, More
    PROVE  /\ nfile \in DOMAIN files /\ Lines \in Seq(Line)
           /\ nline \in Nat /\ nline + 1 \in 1..Len(Lines)
           /\ NextLine \in Line
           /\ nodes \in Seq(Node)
           /\ phase = "read"
<1>1. files \in Seq(Seq(Line)) /\ nfile \in DOMAIN files
    BY FilesAre DEF Typed, TypeOK, More
<1>2. Lines \in Seq(Line)
    BY <1>1 DEF Lines
<1>3. nline \in 0..Len(Lines) /\ nline < Len(Lines)
    BY DEF Typed, TypeOK, More, Lines
<1>4. nline \in Nat /\ nline + 1 \in 1..Len(Lines)
    BY <1>2, <1>3
<1>5. NextLine \in Line
    BY <1>2, <1>4 DEF NextLine
<1>6. QED  BY <1>1, <1>2, <1>4, <1>5 DEF Typed, More

LEMMA InitTyped == Init => Typed
<1> SUFFICES ASSUME Init PROVE Typed
    OBVIOUS
<1>1. files \in Seq(Seq(Line))
    BY LintAssumption DEF Init
<1>2. files # <<>> => nfile \in DOMAIN files /\ nline \in 0..Len(files[nfile])
  <2> SUFFICES ASSUME files # <<>> PROVE nfile \in DOMAIN files /\ nline \in 0..Len(files[nfile])
      OBVIOUS
  <2>1. 1 \in DOMAIN files
      BY <1>1
  <2>2. files[1] \in Seq(Line)
      BY <1>1, <2>1
  <2>3. QED  BY <2>1, <2>2 DEF Init
<1>3. nodes \in Seq(Node) /\ DOMAIN nodes = {} /\ Len(nodes) = 0
    BY DEF Init
<1>4. QED  BY <1>2, <1>3 DEF Init, Typed, TypeOK, Ends

LEMMA ReadNodeTyped == Typed /\ ReadNode => Typed'
<1> SUFFICES ASSUME Typed, ReadNode PROVE Typed'
    OBVIOUS
<1> DEFINE node == [type |-> NextLine.type, vars |-> <<>>]
<1>1. More
    BY DEF ReadNode
<1>2. NextLine.type \in NodeType
    BY <1>1, NextLineIs DEF ReadNode, Line
<1>3. node \in Node
    BY <1>2, EmptyTable DEF Node
<1> HIDE DEF node
<1>4. nodes' = Append(nodes, node) /\ current' = Len(nodes') /\ nline' = nline + 1
    BY DEF ReadNode, node
<1>5. nodes' \in Seq(Node) /\ Len(nodes') = Len(nodes) + 1 /\ DOMAIN nodes \subseteq DOMAIN nodes'
    BY <1>1, <1>3, <1>4, NextLineIs
<1>6. nline' \in 0..Len(files[nfile])
    BY <1>1, <1>4, NextLineIs DEF Lines
<1>7. first' \in 0..Len(nodes') /\ current' > first'
    BY <1>4, <1>5 DEF Typed, TypeOK, ReadNode
<1>8. QED  BY <1>1, <1>4, <1>5, <1>6, <1>7, NodesAre DEF Typed, TypeOK, ReadNode, More

LEMMA ReadAssignmentTyped == Typed /\ ReadAssignment => Typed'
<1> SUFFICES ASSUME Typed, ReadAssignment PROVE Typed'
    OBVIOUS
<1> DEFINE table == Assigned(nodes[current].vars, NextLine)
           node == [nodes[current] EXCEPT !.vars = table]
<1>1. More
    BY DEF ReadAssignment
<1>2. current \in DOMAIN nodes
    BY NextLineIs, <1>1 DEF Typed, TypeOK, ReadAssignment
<1>3. nodes[current] \in Node
    BY <1>2 DEF Typed
<1>4. table \in Table
  <2>1. nodes[current].vars \in Table
      BY <1>3 DEF Node
  <2>2. QED  BY <1>1, <2>1, NextLineIs, AssignedType DEF ReadAssignment
<1>5. nodes' = [nodes EXCEPT ![current] = node]
    BY DEF ReadAssignment
<1> HIDE DEF table
<1>6. node \in Node
    BY <1>3, <1>4 DEF Node
<1> HIDE DEF node
<1>7. nodes' \in Seq(Node) /\ Len(nodes') = Len(nodes) /\ DOMAIN nodes' = DOMAIN nodes
    BY <1>1, <1>2, <1>5, <1>6, NextLineIs
<1>8. nline' \in 0..Len(files[nfile])
    BY <1>1, NextLineIs DEF Lines, ReadAssignment
<1>9. QED  BY <1>1, <1>7, <1>8, NodesAre DEF Typed, TypeOK, ReadAssignment, More

LEMMA ReadOnTyped == Typed /\ (ReadJunk \/ ReadBlank) => Typed'
<1> SUFFICES ASSUME Typed, ReadJunk \/ ReadBlank PROVE Typed'
    OBVIOUS
<1>1. More
    BY DEF ReadJunk, ReadBlank
<1>2. nline' \in 0..Len(files[nfile])
    BY <1>1, NextLineIs DEF Lines, ReadJunk, ReadBlank
<1>3. QED  BY <1>1, <1>2 DEF Typed, TypeOK, ReadJunk, ReadBlank, More

LEMMA CloseFileTyped ==
    ASSUME Typed, phase = "read", CloseFile, nerrors' \in Nat, freed' \subseteq DOMAIN nodes
    PROVE  Typed'
<1>1. files \in Seq(Seq(Line)) /\ nfile \in DOMAIN files
    BY FilesAre DEF Typed, TypeOK
<1>2. CASE nfile < Len(files)
  <2>1. nfile' = nfile + 1 /\ nline' = 0 /\ phase' = phase
      BY <1>2 DEF CloseFile
  <2>2. nfile' \in DOMAIN files
      BY <1>1, <1>2, <2>1
  <2>3. 0 \in 0..Len(files[nfile'])
      BY <1>1, <2>2
  <2>4. nodes \in Seq(Node) /\ Len(nodes) \in 0..Len(nodes)
      BY DEF Typed
  <2>5. QED  BY <2>1, <2>2, <2>3, <2>4 DEF Typed, TypeOK, CloseFile
<1>3. CASE ~(nfile < Len(files))
  <2>1. phase' = "coalesce" /\ UNCHANGED <<nfile, nline>>
      BY <1>3 DEF CloseFile
  <2>2. nodes \in Seq(Node) /\ Len(nodes) \in 0..Len(nodes)
      BY DEF Typed
  <2>3. QED  BY <2>1, <2>2 DEF Typed, TypeOK, CloseFile
<1>4. QED  BY <1>2, <1>3

LEMMA ReadEndsTyped == Typed /\ (ReadBeyond \/ RefuseLine \/ EndOfFile) => Typed'
<1> SUFFICES ASSUME Typed PROVE ReadBeyond \/ RefuseLine \/ EndOfFile => Typed'
    OBVIOUS
<1>1. ASSUME ReadBeyond PROVE Typed'
    BY <1>1 DEF Typed, TypeOK, ReadBeyond, reading, Ends, More
<1>2. ASSUME RefuseLine PROVE Typed'
  <2>1. freed' \subseteq DOMAIN nodes
      BY <1>2 DEF Typed, TypeOK, RefuseLine, More
  <2>2. QED  BY <1>2, <2>1, CloseFileTyped DEF RefuseLine, More, Typed, TypeOK
<1>3. ASSUME EndOfFile PROVE Typed'
    BY <1>3, CloseFileTyped DEF EndOfFile, Typed, TypeOK
<1>4. QED  BY <1>1, <1>2, <1>3

LEMMA DuplicatesCounted ==
    ASSUME Typed
    PROVE  /\ Duplicates \subseteq DOMAIN nodes
           /\ Cardinality(Duplicates) \in Nat
           /\ Cardinality(Duplicates) = 0 <=> Duplicates = {}
<1>1. Duplicates \subseteq DOMAIN nodes
    BY DEF Duplicates
<1>2. DOMAIN nodes = 1..Len(nodes) /\ IsFiniteSet(1..Len(nodes))
    BY FS_Interval DEF Typed
<1>3. IsFiniteSet(Duplicates)
    BY <1>1, <1>2, FS_Subset
<1>4. QED  BY <1>1, <1>3, FS_CardinalityType, FS_EmptySet

LEMMA CheckedTyped ==
    ASSUME Typed, NEW i \in DOMAIN nodes
    PROVE  nodes[i].vars \in Table /\ kbnode_check(nodes[i]) \in Nat
<1>1. nodes[i] \in Node
    BY DEF Typed
<1>2. nodes[i].vars \in Table
    BY <1>1 DEF Node
<1>3. QED  BY <1>2, CheckIsCompleteness

LEMMA DecideTyped ==
    ASSUME Typed,
           Coalesce \/ CoalesceFreed \/ (\E i \in DOMAIN nodes : CheckNode(i)) \/ Elaborate \/ Decide
    PROVE  Typed'
<1>1. CASE Coalesce
  <2>1. UNCHANGED <<files, options, nfile, nline, nodes, first, current, freed, elaborated>> /\ phase' = "check"
      BY <1>1 DEF Coalesce, reading
  <2>2. unchecked' \subseteq DOMAIN nodes
      BY <1>1 DEF Coalesce
  <2>3. nerrors' \in Nat /\ nwarnings' \in Nat
      BY <1>1, DuplicatesCounted DEF Coalesce, Typed, TypeOK
  <2>4. QED  BY <1>1, <2>1, <2>2, <2>3 DEF Typed, TypeOK, Coalesce
<1>2. CASE CoalesceFreed
    BY <1>2 DEF Typed, TypeOK, CoalesceFreed, reading, Ends
<1>3. ASSUME NEW i \in DOMAIN nodes, CheckNode(i) PROVE Typed'
  <2>1. UNCHANGED <<files, options, nfile, nline, nodes, first, current, freed, elaborated, phase>>
      BY <1>3 DEF CheckNode, reading
  <2>2. unchecked' \subseteq DOMAIN nodes
      BY <1>3 DEF CheckNode, Typed, TypeOK
  <2>3. nerrors' \in Nat
      BY <1>3, CheckedTyped DEF CheckNode, Typed, TypeOK
  <2>4. nwarnings' \in Nat
      BY <1>3 DEF CheckNode, Typed, TypeOK
  <2>5. QED  BY <2>1, <2>2, <2>3, <2>4 DEF Typed, TypeOK
<1>4. CASE Elaborate
  <2>1. UNCHANGED <<files, options, nfile, nline, nodes, first, current, freed, unchecked, nwarnings>>
      BY <1>4 DEF Elaborate, reading
  <2>2. phase' = "decide" /\ elaborated' \in 0..1 /\ nerrors' \in Nat
    <3>1. phase' = "decide" /\ elaborated' \in 0..1 /\ nerrors' = nerrors + elaborated'
        BY <1>4 DEF Elaborate
    <3>2. nerrors \in Nat
        BY DEF Typed, TypeOK
    <3>3. \A m \in Nat : \A n \in 0..1 : m + n \in Nat
        OBVIOUS
    <3>4. QED  BY <3>1, <3>2, <3>3
  <2>3. phase = "check"
      BY <1>4 DEF Elaborate
  <2>4. QED  BY <2>1, <2>2, <2>3 DEF Typed, TypeOK
<1>5. CASE Decide
    BY <1>5 DEF Typed, TypeOK, Decide, reading, Ends
<1>6. QED  BY <1>1, <1>2, <1>3, <1>4, <1>5

LEMMA TypedKept == Typed /\ [Next]_vars => Typed'
<1>1. CASE UNCHANGED vars
    BY <1>1 DEF Typed, TypeOK, vars
<1>2. QED
    BY <1>1, ReadNodeTyped, ReadAssignmentTyped, ReadOnTyped, ReadEndsTyped, DecideTyped DEF Next

(* All variables stay in their types, whatever is in the files: in particular  *)
(* no line gives a node a read-only variable, or a value that is not a list     *)
(* of texts, and the current node is the last one of this file.               *)
THEOREM TypeCorrect == Spec => []TypeOK
<1>1. Typed => TypeOK
    BY DEF Typed
<1>2. QED  BY <1>1, InitTyped, TypedKept, PTL DEF Spec
-----------------------------------------------------------------------------
(* What is said of the files stays so while they do.                          *)
LEMMA SameFiles ==
    ASSUME UNCHANGED files
    PROVE  /\ Places' = Places /\ Headers' = Headers
           /\ \A p : At(p)' = At(p)
           /\ \A p : WellFormed(p)' <=> WellFormed(p)
           /\ \A h : NodeAt(h)' = NodeAt(h)
<1>1. Places' = Places
    BY DEF Places
<1>2. \A p : At(p)' = At(p)
    BY DEF At
<1>3. Headers' = Headers
    BY <1>1, <1>2 DEF Headers
<1>4. \A p : WellFormed(p)' <=> WellFormed(p)
  <2> TAKE p
  <2>1. At(p)' = At(p)
      BY <1>2
  <2>2. BelowHeader(p)' <=> BelowHeader(p)
      BY <1>2 DEF BelowHeader
  <2>3. Defined(p)' = Defined(p)
      BY DEF Defined
  <2>4. QED  BY <2>1, <2>2, <2>3 DEF WellFormed
<1>5. \A h : NodeAt(h)' = NodeAt(h)
    BY DEF NodeAt
<1>6. QED  BY <1>1, <1>2, <1>3, <1>4, <1>5

LEMMA SameVerdict ==
    ASSUME UNCHANGED files
    PROVE  (Sound' <=> Sound) /\ (Spotless' <=> Spotless)
<1>1. \A h : Complete(h)' <=> Complete(h)
    BY SameFiles DEF Complete
<1>2. Sound' <=> Sound
    BY <1>1, SameFiles DEF Sound
<1>3. Spotless' <=> Spotless
    BY SameFiles DEF Spotless
<1>4. QED  BY <1>2, <1>3

LEMMA PlacesAre ==
    ASSUME NEW f, NEW i
    PROVE  <<f, i>> \in Places <=> f \in DOMAIN files /\ i \in DOMAIN files[f]
BY DEF Places

LEMMA PlaceIs ==
    ASSUME NEW p \in Places
    PROVE  p = <<p[1], p[2]>> /\ p[1] \in DOMAIN files /\ p[2] \in DOMAIN files[p[1]]
BY DEF Places
-----------------------------------------------------------------------------
(* How reading goes on.                                                      *)
NextPlace == <<nfile, nline + 1>>

LEMMA NextPlaceIs ==
    ASSUME Typed, More
    PROVE  /\ NextPlace \in Places /\ At(NextPlace) = NextLine
           /\ NextPlace \notin Behind
           /\ Defined(NextPlace) = TablesOf(Lines)[nline]
<1>1. nfile \in DOMAIN files /\ Lines \in Seq(Line) /\ nline \in Nat /\ nline + 1 \in 1..Len(Lines) /\ phase = "read"
    BY NextLineIs
<1>2. nline + 1 \in DOMAIN files[nfile] /\ (nline + 1) - 1 = nline
    BY <1>1 DEF Lines
<1>3. NextPlace \in Places /\ At(NextPlace) = NextLine
    BY <1>1, <1>2, PlacesAre DEF NextPlace, At, NextLine, Lines
<1>4. ~(nfile < nfile) /\ ~(nline + 1 <= nline)
  <2>1. nfile \in Nat
      BY <1>1, FilesAre
  <2>2. QED  BY <1>1, <2>1
<1>5. NextPlace \notin Behind
    BY <1>1, <1>4 DEF NextPlace, Behind
<1>6. Defined(NextPlace) = TablesOf(Lines)[nline]
    BY <1>2 DEF Defined, NextPlace, Lines
<1>7. QED  BY <1>3, <1>5, <1>6

LEMMA BehindGrows ==
    ASSUME Typed, More, UNCHANGED <<files, nfile, phase>>, nline' = nline + 1
    PROVE  /\ Behind' = Behind \cup {NextPlace}
           /\ ClosedFiles' = ClosedFiles
<1>1. nline \in Nat /\ phase = "read"
    BY NextLineIs
<1>2. Places' = Places
    BY SameFiles
<1>3. NextPlace \in Places
    BY NextPlaceIs
<1>4. ASSUME NEW p \in Places
      PROVE  p[1] = nfile /\ p[2] <= nline + 1 <=> (p[1] = nfile /\ p[2] <= nline) \/ p = NextPlace
  <2>1. p = <<p[1], p[2]>>
      BY PlaceIs
  <2>2. CASE p[1] = nfile
    <3>1. p[2] \in DOMAIN Lines
        BY <2>2, PlaceIs DEF Lines
    <3>2. p[2] \in Nat
        BY <3>1, NextLineIs
    <3>3. p[2] <= nline + 1 <=> p[2] <= nline \/ p[2] = nline + 1
        BY <1>1, <3>2
    <3>4. p = NextPlace <=> p[2] = nline + 1
        BY <2>1, <2>2 DEF NextPlace
    <3>5. QED  BY <2>2, <3>3, <3>4
  <2>3. CASE p[1] # nfile
      BY <2>3 DEF NextPlace
  <2>4. QED  BY <2>2, <2>3
<1>5. Behind = {p \in Places : p[1] < nfile \/ (p[1] = nfile /\ p[2] <= nline)}
    BY <1>1 DEF Behind
<1>6. Behind' = {p \in Places : p[1] < nfile \/ (p[1] = nfile /\ p[2] <= nline + 1)}
    BY <1>1, <1>2 DEF Behind
<1>7. Behind' = Behind \cup {NextPlace}
    BY <1>3, <1>4, <1>5, <1>6
<1>8. QED  BY <1>7 DEF ClosedFiles

LEMMA BehindCloses ==
    ASSUME Typed, phase = "read", nline = Len(Lines), CloseFile
    PROVE  /\ Behind' = Behind
           /\ ClosedFiles' = ClosedFiles \cup {nfile}
           /\ \A p \in Places : p[1] <= nfile <=> p \in Behind
<1>1. files \in Seq(Seq(Line)) /\ nfile \in DOMAIN files /\ UNCHANGED files
    BY FilesAre DEF Typed, TypeOK, CloseFile
<1>2. nfile \in Nat /\ nfile <= Len(files) /\ Len(files) \in Nat /\ DOMAIN files = 1..Len(files)
    BY <1>1
<1>3. Lines \in Seq(Line)
    BY <1>1 DEF Lines
<1>4. ASSUME NEW p \in Places
      PROVE  /\ p[1] \in 1..Len(files) /\ p[2] \in Nat \ {0}
             /\ p[1] = nfile => p[2] <= nline
  <2>1. p[1] \in DOMAIN files /\ p[2] \in DOMAIN files[p[1]]
      BY PlaceIs
  <2>2. files[p[1]] \in Seq(Line)
      BY <1>1, <2>1
  <2>3. p[2] \in 1..Len(files[p[1]])
      BY <2>1, <2>2
  <2>4. Len(files[p[1]]) \in Nat
      BY <2>2
  <2>5. p[1] = nfile => p[2] <= nline
      BY <2>3 DEF Lines
  <2>6. QED  BY <1>2, <2>1, <2>3, <2>4, <2>5
<1>5. Behind = {p \in Places : p[1] < nfile \/ (p[1] = nfile /\ p[2] <= nline)}
    BY DEF Behind
<1>6. \A p \in Places : p[1] <= nfile <=> p \in Behind
    BY <1>2, <1>4, <1>5
<1>7. Places' = Places
    BY <1>1, SameFiles
<1>8. CASE nfile < Len(files)
  <2>1. nfile' = nfile + 1 /\ nline' = 0 /\ phase' = "read"
      BY <1>8 DEF CloseFile
  <2>2. Behind' = {p \in Places : p[1] < nfile + 1 \/ (p[1] = nfile + 1 /\ p[2] <= 0)}
      BY <1>7, <2>1 DEF Behind
  <2>3. \A p \in Places : p[1] < nfile + 1 \/ (p[1] = nfile + 1 /\ p[2] <= 0) <=> p[1] <= nfile
      BY <1>2, <1>4
  <2>4. Behind' = Behind
      BY <1>5, <1>6, <2>2, <2>3
  <2>5. 1..((nfile + 1) - 1) = (1..(nfile - 1)) \cup {nfile}
      BY <1>1, <1>2
  <2>6. QED  BY <1>6, <2>1, <2>4, <2>5 DEF ClosedFiles
<1>9. CASE ~(nfile < Len(files))
  <2>1. phase' = "coalesce" /\ nfile = Len(files)
    <3>1. phase' = "coalesce"
        BY <1>9 DEF CloseFile
    <3>2. nfile = Len(files)
      <4>1. \A m, n \in Nat : m <= n /\ ~(m < n) => m = n
          OBVIOUS
      <4>2. QED  BY <1>2, <1>9, <4>1
    <3>3. QED  BY <3>1, <3>2
  <2>2. Behind' = Places
      BY <1>7, <2>1 DEF Behind
  <2>3. \A p \in Places : p[1] <= nfile
      BY <1>4, <2>1
  <2>4. Behind' = Behind
      BY <1>5, <1>6, <2>2, <2>3
  <2>5. 1..Len(files) = (1..(nfile - 1)) \cup {nfile}
      BY <1>1, <1>2, <2>1
  <2>6. QED  BY <1>1, <1>2, <1>6, <2>1, <2>4, <2>5 DEF ClosedFiles
<1>10. QED  BY <1>8, <1>9
-----------------------------------------------------------------------------
(* The node a header begins has the variables at its last line.               *)
LEMMA NodeAtLast ==
    ASSUME files \in Seq(Seq(Line)), NEW h \in Places, NEW last \in h[2]..Len(files[h[1]]),
           \A i \in (h[2] + 1)..last : At(<<h[1], i>>).op # "node",
           last < Len(files[h[1]]) => At(<<h[1], last + 1>>).op = "node"
    PROVE  NodeAt(h) = TablesOf(files[h[1]])[last]
<1> DEFINE lines == files[h[1]]
           n == Len(lines)
           ends == {i \in h[2]..n : i < n => lines[i + 1].op = "node"}
<1>1. h[1] \in DOMAIN files /\ h[2] \in DOMAIN lines /\ lines \in Seq(Line)
  <2>1. h[1] \in DOMAIN files /\ h[2] \in DOMAIN files[h[1]]
      BY PlaceIs
  <2>2. QED  BY <2>1
<1>2. n \in Nat /\ h[2] \in 1..n
    BY <1>1
<1>3. last \in ends
    BY DEF At
<1>4. ASSUME NEW i \in ends PROVE last <= i
  <2>1. SUFFICES ASSUME i < last PROVE FALSE
      BY <1>2, <1>4
  <2>2. i + 1 \in (h[2] + 1)..last /\ i < n
      BY <1>2, <1>4, <2>1
  <2>3. lines[i + 1].op = "node"
      BY <1>4, <2>2
  <2>4. QED  BY <2>2, <2>3 DEF At
<1>5. Min(ends) = last
  <2>1. \A i \in ends : (\A j \in ends : i <= j) => i = last
    <3> SUFFICES ASSUME NEW i \in ends, \A j \in ends : i <= j PROVE i = last
        OBVIOUS
    <3>1. i <= last /\ last <= i
        BY <1>3, <1>4
    <3>2. i \in Nat /\ last \in Nat
        BY <1>2
    <3> HIDE DEF ends
    <3>3. QED  BY <3>1, <3>2
  <2>2. Min(ends) = CHOOSE i \in ends : \A j \in ends : i <= j
      BY DEF Min
  <2> HIDE DEF ends
  <2>3. QED  BY <1>3, <1>4, <2>1, <2>2
<1>6. QED  BY <1>5 DEF NodeAt

LEMMA BegunAre ==
    ASSUME NEW where, Begun(where), NEW i \in DOMAIN nodes
    PROVE  /\ where[i] \in Headers /\ where[i] \in Places /\ where[i] \in Behind
           /\ At(where[i]).op = "node"
           /\ i # current => nodes[i].vars = NodeAt(where[i])
           /\ i = current => Open(where[i]) /\ nodes[i].vars = TablesOf(Lines)[nline]
<1>1. where[i] \in Headers
    BY DEF Begun
<1>2. where[i] \in Behind
    BY <1>1 DEF Begun
<1>3. QED  BY <1>1, <1>2 DEF Begun, Headers

(* A header of this file that was read is the one of a node after the first.     *)
LEMMA HeaderOfThisFile ==
    ASSUME Typed, phase = "read", NEW where, Begun(where),
           NEW h \in Headers, h[1] = nfile, h \in Behind
    PROVE  current # 0
<1>1. PICK i \in DOMAIN nodes : where[i] = h
    BY DEF Begun
<1>2. i > first
    BY <1>1 DEF Begun
<1>3. i <= Len(nodes) /\ i \in Nat /\ Len(nodes) \in Nat
    BY <1>1 DEF Typed
<1>4. first # Len(nodes)
    BY <1>2, <1>3
<1>5. QED  BY <1>4 DEF Begun

LEMMA CurrentIs ==
    ASSUME Typed, phase = "read", NEW where, Begun(where), current # 0
    PROVE  /\ current \in DOMAIN nodes /\ current = Len(nodes)
           /\ Open(where[current]) /\ where[current] \in Headers /\ where[current] \in Places
           /\ nodes[current].vars = TablesOf(Lines)[nline]
<1>1. current \in DOMAIN nodes /\ current = Len(nodes)
  <2>1. current = Len(nodes) /\ nodes \in Seq(Node) /\ first \in Nat /\ current > first
      BY DEF Typed, TypeOK
  <2>2. QED  BY <2>1
<1>2. QED  BY <1>1, BegunAre

(* The line is below a header if and only if there is a current node, and the    *)
(* variables it meets there are those of that node.                           *)
LEMMA LineBelow ==
    ASSUME Typed, More, NEW where, Begun(where)
    PROVE  /\ BelowHeader(NextPlace) <=> current # 0
           /\ current # 0 => nodes[current].vars = Defined(NextPlace)
<1>1. nfile \in DOMAIN files /\ Lines \in Seq(Line) /\ nline \in Nat /\ nline + 1 \in 1..Len(Lines) /\ phase = "read"
    BY NextLineIs
<1>2. ASSUME current # 0 PROVE BelowHeader(NextPlace)
  <2>1. Open(where[current]) /\ where[current] \in Headers /\ where[current] \in Places
      BY <1>1, <1>2, CurrentIs
  <2> DEFINE h == where[current]
  <2>2. h = <<nfile, h[2]>> /\ h[2] \in DOMAIN Lines /\ h[2] <= nline /\ At(h).op = "node"
      BY <2>1, PlaceIs DEF Open, Headers, Lines
  <2>3. h[2] \in 1..((nline + 1) - 1)
      BY <1>1, <2>2
  <2>4. QED  BY <2>2, <2>3 DEF BelowHeader, NextPlace
<1>3. ASSUME BelowHeader(NextPlace) PROVE current # 0
  <2>1. PICK i \in 1..((nline + 1) - 1) : At(<<nfile, i>>).op = "node"
      BY <1>3 DEF BelowHeader, NextPlace
  <2>2. i \in DOMAIN files[nfile] /\ i <= nline
      BY <1>1, <2>1 DEF Lines
  <2>3. <<nfile, i>> \in Headers
      BY <1>1, <2>1, <2>2, PlacesAre DEF Headers
  <2>4. <<nfile, i>> \in Behind
      BY <1>1, <2>2, <2>3 DEF Behind, Headers
  <2>5. QED  BY <1>1, <2>3, <2>4, HeaderOfThisFile
<1>4. current # 0 => nodes[current].vars = Defined(NextPlace)
    BY <1>1, CurrentIs, NextPlaceIs
<1>5. QED  BY <1>2, <1>3, <1>4
-----------------------------------------------------------------------------
(* Lines other than headers leave the nodes where they began.                 *)
LEMMA BegunOn ==
    ASSUME Typed, More, NEW where, Begun(where),
           UNCHANGED <<files, nfile, phase, first, current>>, nline' = nline + 1,
           NextLine.op # "node",
           DOMAIN nodes' = DOMAIN nodes, Len(nodes') = Len(nodes),
           \A i \in DOMAIN nodes : /\ nodes'[i].type = nodes[i].type
                                   /\ i # current => nodes'[i].vars = nodes[i].vars,
           current # 0 => nodes'[current].vars = Next1(nodes[current].vars, NextLine)
    PROVE  Begun(where)'
<1>1. nfile \in DOMAIN files /\ Lines \in Seq(Line) /\ nline \in Nat /\ nline + 1 \in 1..Len(Lines) /\ phase = "read"
    BY NextLineIs
<1>2. Headers' = Headers /\ (\A p : At(p)' = At(p)) /\ (\A h : NodeAt(h)' = NodeAt(h)) /\ Lines' = Lines
    BY SameFiles DEF Lines
<1>3. Behind' = Behind \cup {NextPlace} /\ At(NextPlace).op # "node"
    BY BehindGrows, NextPlaceIs
<1>4. \A h \in Headers : h \in Behind' <=> h \in Behind
    BY <1>3 DEF Headers
<1>5. ASSUME NEW i \in DOMAIN nodes, i = current
      PROVE  Open(where[i])' /\ nodes'[i].vars = TablesOf(Lines)[nline + 1]
  <2>1. current # 0
    <3>1. 0 \notin DOMAIN nodes
        BY <1>1 DEF Typed
    <3>2. QED  BY <1>5, <3>1
  <2>2. Open(where[i]) /\ nodes[i].vars = TablesOf(Lines)[nline] /\ where[i] \in Places
      BY <1>5, BegunAre
  <2> DEFINE h == where[i]
  <2>3. h[2] \in Nat /\ h[2] <= nline
    <3>1. h[2] \in DOMAIN Lines
        BY <2>2, PlaceIs DEF Open, Lines
    <3>2. QED  BY <1>1, <2>2, <3>1 DEF Open
  <2>4. \A k \in (h[2] + 1)..(nline + 1) : At(<<nfile, k>>).op # "node"
    <3> SUFFICES ASSUME NEW k \in (h[2] + 1)..(nline + 1) PROVE At(<<nfile, k>>).op # "node"
        OBVIOUS
    <3>1. CASE k = nline + 1
        BY <1>3, <3>1 DEF NextPlace
    <3>2. CASE k # nline + 1
      <4>1. k \in (h[2] + 1)..nline
          BY <1>1, <2>3, <3>2
      <4>2. QED  BY <2>2, <4>1 DEF Open
    <3>3. QED  BY <3>1, <3>2
  <2>5. h[2] <= nline + 1
      BY <1>1, <2>3
  <2>6. Open(h)'
      BY <1>2, <2>2, <2>4, <2>5 DEF Open
  <2>7. TablesOf(Lines)[nline + 1] = Next1(TablesOf(Lines)[(nline + 1) - 1], Lines[nline + 1])
      BY <1>1, TablesGrow
  <2>8. (nline + 1) - 1 = nline
      BY <1>1
  <2>9. nodes'[i].vars = TablesOf(Lines)[nline + 1]
      BY <1>5, <2>1, <2>2, <2>7, <2>8 DEF NextLine
  <2>10. QED  BY <2>6, <2>9
<1>6. ASSUME NEW i \in DOMAIN nodes, i # current PROVE nodes'[i].vars = NodeAt(where[i])
    BY <1>6, BegunAre
<1>7. (where \in [DOMAIN nodes -> Headers])' /\ (\A i, j \in DOMAIN nodes' : where[i] = where[j] => i = j)
    BY <1>2 DEF Begun
<1>8. \A h \in Headers' : h \in Behind' <=> \E i \in DOMAIN nodes' : where[i] = h
    BY <1>2, <1>4 DEF Begun
<1>9. \A i \in DOMAIN nodes' : /\ nodes'[i].type = At(where[i])'.type
                               /\ i > first' <=> phase' = "read" /\ where[i][1] = nfile'
    BY <1>2 DEF Begun
<1>10. \A i \in DOMAIN nodes' :
         IF i = current' THEN Open(where[i])' /\ nodes'[i].vars = (TablesOf(Lines)[nline])'
         ELSE nodes'[i].vars = NodeAt(where[i])'
    BY <1>2, <1>5, <1>6
<1>11. current' = 0 => first' = Len(nodes')
    BY DEF Begun
<1>12. QED  BY <1>7, <1>8, <1>9, <1>10, <1>11 DEF Begun

(* A header begins one node more, and ends the one before it.                 *)
LEMMA BegunMore ==
    ASSUME Typed, ReadNode, NEW where, Begun(where)
    PROVE  \E next : Begun(next)'
<1> DEFINE n == Len(nodes)
<1> PICK here : here = NextPlace
    OBVIOUS
<1> PICK next : next = [i \in 1..(n + 1) |-> IF i = n + 1 THEN here ELSE where[i]]
    OBVIOUS
<1>1. More /\ UNCHANGED <<files, nfile, phase, first>> /\ nline' = nline + 1
    BY DEF ReadNode
<1>2. /\ nfile \in DOMAIN files /\ Lines \in Seq(Line) /\ nline \in Nat /\ nline + 1 \in 1..Len(Lines)
      /\ phase = "read" /\ nodes \in Seq(Node)
    BY <1>1, NextLineIs
<1>3. n \in Nat /\ DOMAIN nodes = 1..n
    BY <1>2
<1>4. /\ nodes' = Append(nodes, [type |-> NextLine.type, vars |-> <<>>])
      /\ current' = Len(nodes')
    BY DEF ReadNode
<1>5. /\ DOMAIN nodes' = 1..(n + 1) /\ Len(nodes') = n + 1 /\ current' = n + 1
      /\ \A i \in 1..n : nodes'[i] = nodes[i]
      /\ nodes'[n + 1] = [type |-> NextLine.type, vars |-> <<>>]
    BY <1>2, <1>4
<1> HIDE DEF n
<1>6. Headers' = Headers /\ (\A p : At(p)' = At(p)) /\ (\A h : NodeAt(h)' = NodeAt(h)) /\ Lines' = Lines
    BY <1>1, SameFiles DEF Lines
<1>7. /\ here \in Places /\ here \in Headers /\ here \notin Behind
      /\ At(here) = NextLine /\ Behind' = Behind \cup {here}
  <2>1. NextLine.op = "node"
      BY DEF ReadNode
  <2>2. QED  BY <1>1, <2>1, BehindGrows, NextPlaceIs DEF Headers
<1>8. (\A i \in 1..n : next[i] = where[i]) /\ next[n + 1] = here
    BY <1>3, <1>5
<1>9. \A i \in 1..n : where[i] \in Headers /\ where[i] \in Behind /\ where[i] # here
    BY <1>3, <1>7, BegunAre
<1>10. (next \in [DOMAIN nodes -> Headers])'
    BY <1>3, <1>5, <1>6, <1>7, <1>9
<1>11. \A i \in 1..(n + 1) : i \in 1..n \/ i = n + 1
    BY <1>3
<1>12. \A i, j \in DOMAIN nodes' : next[i] = next[j] => i = j
  <2>1. \A i, j \in 1..n : where[i] = where[j] => i = j
      BY <1>3 DEF Begun
  <2>2. QED  BY <1>5, <1>8, <1>9, <1>11, <2>1
<1>13. \A h \in Headers : h \in Behind' <=> \E i \in DOMAIN nodes' : next[i] = h
  <2> TAKE h \in Headers
  <2>1. h \in Behind <=> \E i \in 1..n : where[i] = h
      BY <1>3 DEF Begun
  <2>2. (\E i \in DOMAIN nodes' : next[i] = h) <=> (\E i \in 1..n : next[i] = h) \/ next[n + 1] = h
    <3>1. \A i : i \in DOMAIN nodes' <=> i \in 1..n \/ i = n + 1
        BY <1>3, <1>5
    <3>2. QED  BY <3>1
  <2>3. QED  BY <1>7, <1>8, <2>1, <2>2
<1>14. \A i \in DOMAIN nodes' : nodes'[i].type = At(next[i]).type
  <2>1. \A i \in 1..n : nodes'[i].type = At(next[i]).type
      BY <1>3, <1>5, <1>8 DEF Begun
  <2>2. nodes'[n + 1].type = At(next[n + 1]).type
      BY <1>5, <1>7, <1>8
  <2>3. QED  BY <1>5, <1>11, <2>1, <2>2
<1>15. \A i \in DOMAIN nodes' : i > first <=> next[i][1] = nfile
  <2>1. \A i \in 1..n : i > first <=> where[i][1] = nfile
      BY <1>2, <1>3 DEF Begun
  <2>2. n + 1 > first
    <3>1. first \in 0..n
        BY DEF Typed, TypeOK, n
    <3>2. QED  BY <1>3, <3>1
  <2>3. next[n + 1][1] = nfile
      BY <1>8 DEF NextPlace
  <2>4. QED  BY <1>5, <1>8, <1>11, <2>1, <2>2, <2>3
<1>16. \A i \in 1..n : nodes'[i].vars = NodeAt(next[i])
  <2> TAKE i \in 1..n
  <2>1. CASE i # current
      BY <1>3, <1>5, <1>8, <2>1, BegunAre
  <2>2. CASE i = current
    <3> DEFINE h == where[i]
    <3>1. Open(h) /\ h \in Places /\ nodes[i].vars = TablesOf(Lines)[nline]
        BY <1>3, <2>2, BegunAre
    <3>2. h[1] = nfile /\ h[2] \in Nat /\ h[2] <= nline
      <4>1. h[2] \in DOMAIN Lines /\ h[1] = nfile
          BY <3>1, PlaceIs DEF Open, Lines
      <4>2. QED  BY <1>2, <3>1, <4>1 DEF Open
    <3>3. nline \in h[2]..Len(files[h[1]])
        BY <1>2, <3>2 DEF Lines
    <3>4. \A k \in (h[2] + 1)..nline : At(<<h[1], k>>).op # "node"
        BY <3>1, <3>2 DEF Open
    <3>5. At(<<h[1], nline + 1>>).op = "node"
        BY <1>7, <3>2 DEF Headers, NextPlace
    <3>6. files \in Seq(Seq(Line))
        BY FilesAre
    <3>7. NodeAt(h) = TablesOf(files[h[1]])[nline]
        BY <3>1, <3>3, <3>4, <3>5, <3>6, NodeAtLast
    <3>8. QED  BY <1>5, <1>8, <3>1, <3>2, <3>7 DEF Lines
  <2>3. QED  BY <2>1, <2>2
<1>17. Open(here)' /\ nodes'[n + 1].vars = TablesOf(Lines)[nline + 1]
  <2>1. Open(here)'
    <3>1. ((nline + 1) + 1)..(nline + 1) = {}
        BY <1>2
    <3>2. nline + 1 <= nline + 1
        BY <1>2
    <3>3. QED  BY <1>1, <3>1, <3>2 DEF Open, NextPlace
  <2>2. Next1(TablesOf(Lines)[nline], NextLine) = <<>>
      BY DEF Next1, ReadNode
  <2>3. TablesOf(Lines)[nline + 1] = Next1(TablesOf(Lines)[(nline + 1) - 1], Lines[nline + 1])
      BY <1>2, TablesGrow
  <2>4. (nline + 1) - 1 = nline
      BY <1>2
  <2>5. TablesOf(Lines)[nline + 1] = <<>>
      BY <2>2, <2>3, <2>4 DEF NextLine
  <2>6. nodes'[n + 1].vars = <<>>
      BY <1>5
  <2>7. QED  BY <2>1, <2>5, <2>6
<1>18. \A i \in DOMAIN nodes' :
         IF i = current' THEN Open(next[i])' /\ nodes'[i].vars = (TablesOf(Lines)[nline])'
         ELSE nodes'[i].vars = NodeAt(next[i])'
  <2> TAKE i \in DOMAIN nodes'
  <2>1. CASE i = n + 1
    <3>1. (TablesOf(Lines)[nline])' = TablesOf(Lines)[nline + 1]
        BY <1>1, <1>6
    <3>2. Open(next[i])' /\ nodes'[i].vars = TablesOf(Lines)[nline + 1]
      <4>1. next[i] = here
          BY <1>8, <2>1
      <4>2. QED  BY <1>17, <2>1, <4>1
    <3>3. QED  BY <1>5, <2>1, <3>1, <3>2
  <2>2. CASE i # n + 1
    <3>1. i \in 1..n
        BY <1>5, <1>11, <2>2
    <3>2. nodes'[i].vars = NodeAt(next[i])'
        BY <1>6, <1>16, <3>1
    <3>3. QED  BY <1>5, <2>2, <3>2
  <2>3. QED  BY <2>1, <2>2
<1>19. current' # 0
    BY <1>3, <1>5
<1>20. Begun(next)'
    BY <1>1, <1>2, <1>6, <1>10, <1>12, <1>13, <1>14, <1>15, <1>18, <1>19 DEF Begun
<1>21. QED  BY <1>20

(* The end of a file ends its last node.                                     *)
LEMMA BegunCloses ==
    ASSUME Typed, phase = "read", nline = Len(Lines), CloseFile, NEW where, Begun(where)
    PROVE  Begun(where)'
<1>1. files \in Seq(Seq(Line)) /\ nfile \in DOMAIN files /\ Lines \in Seq(Line) /\ nodes \in Seq(Node)
  <2>1. files \in Seq(Seq(Line)) /\ nfile \in DOMAIN files
      BY FilesAre DEF Typed, TypeOK
  <2>2. QED  BY <2>1 DEF Lines, Typed
<1>2. nline \in Nat /\ nfile \in Nat
    BY <1>1
<1>3. UNCHANGED <<files, nodes>> /\ current' = 0 /\ first' = Len(nodes)
    BY DEF CloseFile
<1>4. Headers' = Headers /\ (\A p : At(p)' = At(p)) /\ (\A h : NodeAt(h)' = NodeAt(h))
    BY <1>3, SameFiles
<1>5. Behind' = Behind /\ \A p \in Places : p[1] <= nfile <=> p \in Behind
    BY BehindCloses
<1>6. ASSUME NEW i \in DOMAIN nodes PROVE nodes[i].vars = NodeAt(where[i])
  <2>1. CASE i # current
      BY <2>1, BegunAre
  <2>2. CASE i = current
    <3> DEFINE h == where[i]
    <3>1. Open(h) /\ h \in Places /\ nodes[i].vars = TablesOf(Lines)[nline]
        BY <2>2, BegunAre
    <3>2. h[1] = nfile /\ h[2] \in Nat /\ h[2] <= nline
      <4>1. h[2] \in DOMAIN Lines /\ h[1] = nfile
          BY <3>1, PlaceIs DEF Open, Lines
      <4>2. QED  BY <1>1, <3>1, <4>1 DEF Open
    <3>3. nline \in h[2]..Len(files[h[1]]) /\ ~(nline < Len(files[h[1]]))
        BY <1>2, <3>2 DEF Lines
    <3>4. \A k \in (h[2] + 1)..nline : At(<<h[1], k>>).op # "node"
        BY <3>1, <3>2 DEF Open
    <3>5. NodeAt(h) = TablesOf(files[h[1]])[nline]
        BY <1>1, <3>1, <3>3, <3>4, NodeAtLast
    <3>6. QED  BY <3>1, <3>2, <3>5 DEF Lines
  <2>3. QED  BY <2>1, <2>2
<1>7. ASSUME NEW i \in DOMAIN nodes PROVE ~(i > Len(nodes)) /\ i # 0
    BY <1>1
<1>8. ASSUME NEW i \in DOMAIN nodes PROVE ~(phase' = "read" /\ where[i][1] = nfile')
  <2>1. where[i] \in Places /\ where[i] \in Behind
      BY BegunAre
  <2>2. where[i][1] <= nfile
      BY <1>5, <2>1
  <2>3. phase' = "read" => nfile' = nfile + 1
      BY DEF CloseFile
  <2>4. where[i][1] \in Nat
    <3>1. where[i][1] \in DOMAIN files
        BY <2>1, PlaceIs
    <3>2. QED  BY <1>1, <3>1
  <2>5. \A k, m \in Nat : k <= m => k # m + 1
      OBVIOUS
  <2>6. QED  BY <1>2, <2>2, <2>3, <2>4, <2>5
<1>9. (where \in [DOMAIN nodes -> Headers])' /\ (\A i, j \in DOMAIN nodes' : where[i] = where[j] => i = j)
    BY <1>3, <1>4 DEF Begun
<1>10. \A h \in Headers' : h \in Behind' <=> \E i \in DOMAIN nodes' : where[i] = h
    BY <1>3, <1>4, <1>5 DEF Begun
<1>11. \A i \in DOMAIN nodes' : nodes'[i].type = At(where[i])'.type
    BY <1>3, <1>4 DEF Begun
<1>12. \A i \in DOMAIN nodes' : i > first' <=> phase' = "read" /\ where[i][1] = nfile'
    BY <1>3, <1>7, <1>8
<1>13. \A i \in DOMAIN nodes' :
         IF i = current' THEN Open(where[i])' /\ nodes'[i].vars = (TablesOf(Lines)[nline])'
         ELSE nodes'[i].vars = NodeAt(where[i])'
    BY <1>3, <1>4, <1>6, <1>7
<1>14. current' = 0 => first' = Len(nodes')
    BY <1>3
<1>15. QED  BY <1>9, <1>10, <1>11, <1>12, <1>13, <1>14 DEF Begun

(* Once all files are closed, nothing begins or ends.                          *)
LEMMA BegunStays ==
    ASSUME phase # "read", phase' # "read", UNCHANGED <<files, reading>>, NEW where, Begun(where)
    PROVE  Begun(where)'
<1>1. UNCHANGED <<files, nodes, nfile, nline, first, current>>
    BY DEF reading
<1>2. Headers' = Headers /\ Places' = Places /\ (\A p : At(p)' = At(p)) /\ (\A h : NodeAt(h)' = NodeAt(h))
      /\ Lines' = Lines
    BY <1>1, SameFiles DEF Lines
<1>3. Behind' = Behind
    BY <1>2 DEF Behind
<1>4. \A h : Open(h)' <=> Open(h)
    BY <1>1, <1>2 DEF Open
<1>5. (where \in [DOMAIN nodes -> Headers])' /\ (\A i, j \in DOMAIN nodes' : where[i] = where[j] => i = j)
    BY <1>1, <1>2 DEF Begun
<1>6. \A h \in Headers' : h \in Behind' <=> \E i \in DOMAIN nodes' : where[i] = h
    BY <1>1, <1>2, <1>3 DEF Begun
<1>7. \A i \in DOMAIN nodes' : /\ nodes'[i].type = At(where[i])'.type
                               /\ i > first' <=> phase' = "read" /\ where[i][1] = nfile'
    BY <1>1, <1>2 DEF Begun
<1>8. \A i \in DOMAIN nodes' :
         IF i = current' THEN Open(where[i])' /\ nodes'[i].vars = (TablesOf(Lines)[nline])'
         ELSE nodes'[i].vars = NodeAt(where[i])'
    BY <1>1, <1>2, <1>4 DEF Begun
<1>9. current' = 0 => first' = Len(nodes')
    BY <1>1 DEF Begun
<1>10. QED  BY <1>5, <1>6, <1>7, <1>8, <1>9 DEF Begun
-----------------------------------------------------------------------------
(* A line is refused if it is not well formed where it stands.                 *)
LEMMA WellFormedIs ==
    ASSUME NEW p
    PROVE  /\ At(p).op = "node" => (WellFormed(p) <=> At(p).type # "unknown")
           /\ Assigns(At(p)) => (WellFormed(p) <=> BelowHeader(p) /\ Accepts(Defined(p), At(p)))
           /\ At(p).op \in {"junk", "blank"} => WellFormed(p)
           /\ At(p).op \in {"mangled", "malformed"} => ~WellFormed(p)
<1> DEFINE line == At(p)
<1>1. WellFormed(p) <=>
        CASE line.op = "node" -> line.type # "unknown"
          [] Assigns(line) -> BelowHeader(p) /\ Accepts(Defined(p), line)
          [] line.op \in {"junk", "blank"} -> TRUE
          [] OTHER -> FALSE
    BY DEF WellFormed
<1>2. Assigns(line) <=> line.op = "set" \/ line.op = "append"
    BY DEF Assigns
<1> HIDE DEF line
<1>3. CASE line.op = "node"
    BY <1>1, <1>2, <1>3 DEF line
<1>4. CASE Assigns(line)
    BY <1>1, <1>2, <1>4 DEF line
<1>5. CASE line.op \in {"junk", "blank"}
    BY <1>1, <1>2, <1>5 DEF line
<1>6. CASE line.op \in {"mangled", "malformed"}
    BY <1>1, <1>2, <1>6 DEF line
<1>7. QED  BY <1>3, <1>4, <1>5, <1>6 DEF line

LEMMA LineVerdict ==
    ASSUME Typed, More, NEW where, Begun(where)
    PROVE  /\ Refused => ~WellFormed(NextPlace)
           /\ Assigns(NextLine) /\ current # 0 /\ Accepts(nodes[current].vars, NextLine)
                => WellFormed(NextPlace)
           /\ NextLine.op = "node" /\ NextLine.type # "unknown" => WellFormed(NextPlace)
           /\ NextLine.op \in {"junk", "blank"} => WellFormed(NextPlace)
<1> DEFINE here == NextPlace
<1>1. At(here) = NextLine
    BY NextPlaceIs
<1>2. (BelowHeader(here) <=> current # 0) /\ (current # 0 => nodes[current].vars = Defined(here))
    BY LineBelow
<1> HIDE DEF here
<1>3. ASSUME Refused PROVE ~WellFormed(here)
  <2>1. CASE NextLine.op \in {"mangled", "malformed"}
      BY <1>1, <2>1, WellFormedIs
  <2>2. CASE NextLine.op = "node" /\ NextLine.type = "unknown"
      BY <1>1, <2>2, WellFormedIs
  <2>3. CASE Assigns(NextLine) /\ (current # 0 => ~Accepts(nodes[current].vars, NextLine))
    <3>1. ~(BelowHeader(here) /\ Accepts(Defined(here), NextLine))
        BY <1>2, <2>3
    <3>2. QED  BY <1>1, <2>3, <3>1, WellFormedIs
  <2>4. QED  BY <1>3, <2>1, <2>2, <2>3 DEF Refused
<1>4. ASSUME Assigns(NextLine), current # 0, Accepts(nodes[current].vars, NextLine)
      PROVE  WellFormed(here)
  <2>1. BelowHeader(here) /\ Accepts(Defined(here), NextLine)
      BY <1>2, <1>4
  <2>2. QED  BY <1>1, <1>4, <2>1, WellFormedIs
<1>5. NextLine.op = "node" /\ NextLine.type # "unknown" => WellFormed(here)
    BY <1>1, WellFormedIs
<1>6. NextLine.op \in {"junk", "blank"} => WellFormed(here)
    BY <1>1, WellFormedIs
<1>7. QED  BY <1>3, <1>4, <1>5, <1>6 DEF here

(* What a line that is read leaves of the invariant.                           *)
LEMMA LineRead ==
    ASSUME Typed, More, NoneCounted, UNCHANGED <<files, nfile, phase, elaborated>>,
           nline' = nline + 1, WellFormed(NextPlace),
           nwarnings' = nwarnings + (IF NextLine.op = "junk" THEN 1 ELSE 0),
           \E where : Begun(where)'
    PROVE  NoneCounted'
<1>1. phase = "read" /\ phase' = "read" /\ nwarnings \in Nat
    BY DEF More, Typed, TypeOK
<1>2. /\ Behind' = Behind \cup {NextPlace} /\ ClosedFiles' = ClosedFiles
      /\ At(NextPlace) = NextLine
    BY BehindGrows, NextPlaceIs
<1>3. /\ Headers' = Headers
      /\ \A p : At(p)' = At(p)
      /\ \A p : WellFormed(p)' <=> WellFormed(p)
    BY SameFiles
<1>4. \A p \in Behind' : WellFormed(p)'
    BY <1>2, <1>3 DEF NoneCounted
<1>5. BeforeCheck /\ BeforeCheck'
    BY <1>1 DEF BeforeCheck
<1>6. Odd' <=> Odd \/ NextLine.op = "junk"
  <2>1. (\E p \in Behind' : At(p)'.op = "junk") <=> (\E p \in Behind : At(p).op = "junk") \/ NextLine.op = "junk"
      BY <1>2, <1>3
  <2>2. (\E f \in ClosedFiles' : \A h \in Headers' : h[1] # f) <=> (\E f \in ClosedFiles : \A h \in Headers : h[1] # f)
      BY <1>2, <1>3
  <2>3. QED  BY <1>5, <2>1, <2>2 DEF Odd
<1>7. nwarnings' > 0 <=> nwarnings > 0 \/ NextLine.op = "junk"
    BY <1>1
<1>8. nwarnings' > 0 <=> Odd'
    BY <1>6, <1>7 DEF NoneCounted
<1>9. QED  BY <1>4, <1>5, <1>8 DEF NoneCounted

LEMMA OneStays ==
    ASSUME OneCounted, UNCHANGED files, elaborated = 1 => elaborated' = 1
    PROVE  OneCounted'
BY SameVerdict DEF OneCounted

LEMMA UnsoundPlace ==
    ASSUME NEW p \in Places, ~WellFormed(p)
    PROVE  ~Sound
BY DEF Sound

LEMMA ReadNodeCounted == Typed /\ Counted /\ ReadNode => Counted'
<1> SUFFICES ASSUME Typed, Counted, ReadNode PROVE Counted'
    OBVIOUS
<1>1. /\ More /\ nline' = nline + 1
      /\ UNCHANGED <<files, nfile, phase, elaborated, nerrors, nwarnings>>
      /\ NextLine.op = "node" /\ NextLine.type # "unknown"
    BY DEF ReadNode
<1>2. CASE nerrors = 0
  <2>1. NoneCounted
      BY <1>2 DEF Counted
  <2>2. PICK where : Begun(where)
      BY <2>1 DEF NoneCounted
  <2>3. \E next : Begun(next)'
      BY <2>2, BegunMore
  <2>4. WellFormed(NextPlace)
      BY <1>1, <2>2, LineVerdict
  <2>5. nwarnings' = nwarnings + (IF NextLine.op = "junk" THEN 1 ELSE 0)
      BY <1>1 DEF Typed, TypeOK
  <2>6. NoneCounted'
      BY <1>1, <2>1, <2>3, <2>4, <2>5, LineRead
  <2>7. QED  BY <1>1, <1>2, <2>6 DEF Counted
<1>3. CASE nerrors # 0
  <2>1. OneCounted'
      BY <1>1, <1>3, OneStays DEF Counted
  <2>2. QED  BY <1>1, <1>3, <2>1 DEF Counted
<1>4. QED  BY <1>2, <1>3

LEMMA ReadAssignmentCounted == Typed /\ Counted /\ ReadAssignment => Counted'
<1> SUFFICES ASSUME Typed, Counted, ReadAssignment PROVE Counted'
    OBVIOUS
<1>1. /\ More /\ nline' = nline + 1
      /\ UNCHANGED <<files, nfile, phase, first, current, elaborated, nerrors, nwarnings>>
      /\ Assigns(NextLine) /\ current # 0 /\ Accepts(nodes[current].vars, NextLine)
      /\ nodes' = [nodes EXCEPT ![current].vars = Assigned(@, NextLine)]
    BY DEF ReadAssignment
<1>2. CASE nerrors = 0
  <2>1. NoneCounted
      BY <1>2 DEF Counted
  <2>2. PICK where : Begun(where)
      BY <2>1 DEF NoneCounted
  <2>3. NextLine.op # "node" /\ NextLine.op # "junk"
      BY <1>1 DEF Assigns
  <2>4. phase = "read" /\ nodes \in Seq(Node)
      BY <1>1, NextLineIs
  <2>5. current \in DOMAIN nodes
      BY <1>1, <2>2, <2>4, CurrentIs
  <2>6. DOMAIN nodes' = DOMAIN nodes /\ Len(nodes') = Len(nodes)
      BY <1>1, <2>4
  <2>7. \A i \in DOMAIN nodes : i # current => nodes'[i] = nodes[i]
      BY <1>1, <2>4
  <2>8. nodes[current] \in Node
      BY <2>4, <2>5
  <2>9. nodes'[current] = [nodes[current] EXCEPT !.vars = Assigned(nodes[current].vars, NextLine)]
      BY <1>1, <2>4, <2>5
  <2>10. /\ nodes'[current].type = nodes[current].type
         /\ nodes'[current].vars = Assigned(nodes[current].vars, NextLine)
      BY <2>8, <2>9 DEF Node
  <2>11. nodes'[current].vars = Next1(nodes[current].vars, NextLine)
      BY <1>1, <2>3, <2>10 DEF Next1
  <2>12. \A i \in DOMAIN nodes : /\ nodes'[i].type = nodes[i].type
                                 /\ i # current => nodes'[i].vars = nodes[i].vars
      BY <2>7, <2>10
  <2>13. Begun(where)'
      BY <1>1, <2>2, <2>3, <2>6, <2>11, <2>12, BegunOn
  <2>14. WellFormed(NextPlace)
      BY <1>1, <2>2, LineVerdict
  <2>15. nwarnings' = nwarnings + (IF NextLine.op = "junk" THEN 1 ELSE 0)
      BY <1>1, <2>3 DEF Typed, TypeOK
  <2>16. NoneCounted'
      BY <1>1, <2>1, <2>13, <2>14, <2>15, LineRead
  <2>17. QED  BY <1>1, <1>2, <2>16 DEF Counted
<1>3. CASE nerrors # 0
  <2>1. OneCounted'
      BY <1>1, <1>3, OneStays DEF Counted
  <2>2. QED  BY <1>1, <1>3, <2>1 DEF Counted
<1>4. QED  BY <1>2, <1>3

LEMMA ReadOnCounted == Typed /\ Counted /\ (ReadJunk \/ ReadBlank) => Counted'
<1> SUFFICES ASSUME Typed, Counted, ReadJunk \/ ReadBlank PROVE Counted'
    OBVIOUS
<1>1. /\ More /\ nline' = nline + 1
      /\ UNCHANGED <<files, nfile, phase, nodes, first, current, elaborated, nerrors>>
      /\ NextLine.op \in {"junk", "blank"}
    BY DEF ReadJunk, ReadBlank
<1>2. nwarnings' = nwarnings + (IF NextLine.op = "junk" THEN 1 ELSE 0)
    BY DEF ReadJunk, ReadBlank, Typed, TypeOK
<1>3. CASE nerrors = 0
  <2>1. NoneCounted
      BY <1>3 DEF Counted
  <2>2. PICK where : Begun(where)
      BY <2>1 DEF NoneCounted
  <2>3. NextLine.op # "node" /\ ~Assigns(NextLine)
      BY <1>1 DEF Assigns
  <2>4. Next1(nodes[current].vars, NextLine) = nodes[current].vars
      BY <2>3 DEF Next1
  <2>5. Begun(where)'
      BY <1>1, <2>2, <2>3, <2>4, BegunOn
  <2>6. WellFormed(NextPlace)
      BY <1>1, <2>2, LineVerdict
  <2>7. NoneCounted'
      BY <1>1, <1>2, <2>1, <2>5, <2>6, LineRead
  <2>8. QED  BY <1>1, <1>3, <2>7 DEF Counted
<1>4. CASE nerrors # 0
  <2>1. OneCounted'
      BY <1>1, <1>4, OneStays DEF Counted
  <2>2. QED  BY <1>1, <1>4, <2>1 DEF Counted
<1>5. QED  BY <1>3, <1>4

LEMMA RefuseLineCounted == Typed /\ Counted /\ RefuseLine => Counted'
<1> SUFFICES ASSUME Typed, Counted, RefuseLine PROVE Counted'
    OBVIOUS
<1>1. More /\ Refused /\ nerrors' = nerrors + 1 /\ UNCHANGED <<files, elaborated>>
    BY DEF RefuseLine, CloseFile
<1>2. nerrors' # 0
    BY <1>1 DEF Typed, TypeOK
<1>3. OneCounted
  <2>1. CASE nerrors = 0
    <3>1. PICK where : Begun(where)
        BY <2>1 DEF Counted, NoneCounted
    <3>2. ~WellFormed(NextPlace) /\ NextPlace \in Places
        BY <1>1, <3>1, LineVerdict, NextPlaceIs
    <3>3. QED  BY <3>2, UnsoundPlace DEF OneCounted
  <2>2. CASE nerrors # 0
      BY <2>2 DEF Counted
  <2>3. QED  BY <2>1, <2>2
<1>4. OneCounted'
    BY <1>1, <1>3, OneStays
<1>5. QED  BY <1>2, <1>4 DEF Counted

LEMMA EndOfFileCounted == Typed /\ Counted /\ EndOfFile => Counted'
<1> SUFFICES ASSUME Typed, Counted, EndOfFile PROVE Counted'
    OBVIOUS
<1>1. /\ phase = "read" /\ nline = Len(Lines) /\ CloseFile
      /\ UNCHANGED <<files, nodes, elaborated, nerrors>>
      /\ phase' \in {"read", "coalesce"}
      /\ nwarnings' = nwarnings + (IF Len(nodes) = first THEN 1 ELSE 0)
    BY DEF EndOfFile, CloseFile
<1>2. CASE nerrors = 0
  <2>1. NoneCounted
      BY <1>2 DEF Counted
  <2>2. PICK where : Begun(where)
      BY <2>1 DEF NoneCounted
  <2>3. Begun(where)'
      BY <1>1, <2>2, BegunCloses
  <2>4. /\ Behind' = Behind /\ ClosedFiles' = ClosedFiles \cup {nfile}
        /\ \A p \in Places : p[1] <= nfile <=> p \in Behind
      BY <1>1, BehindCloses
  <2>5. /\ Headers' = Headers
        /\ \A p : At(p)' = At(p)
        /\ \A p : WellFormed(p)' <=> WellFormed(p)
      BY <1>1, SameFiles
  <2>6. BeforeCheck /\ BeforeCheck'
      BY <1>1 DEF BeforeCheck
  <2>7. Len(nodes) = first <=> \A h \in Headers : h[1] # nfile
    <3>1. Len(nodes) \in Nat /\ first \in 0..Len(nodes) /\ (current # 0 => current = Len(nodes) /\ current > first)
        BY DEF Typed, TypeOK
    <3>2. ASSUME NEW h \in Headers, h[1] = nfile PROVE Len(nodes) # first
      <4>1. nfile <= nfile
        <5>1. nfile \in Nat
          <6>1. nfile \in DOMAIN files /\ files \in Seq(Seq(Line))
              BY <1>1, FilesAre DEF Typed, TypeOK
          <6>2. QED  BY <6>1
        <5>2. QED  BY <5>1
      <4>2. h \in Behind
          BY <2>4, <3>2, <4>1 DEF Headers
      <4>3. current # 0
          BY <1>1, <2>2, <3>2, <4>2, HeaderOfThisFile
      <4>4. QED  BY <3>1, <4>3
    <3>3. ASSUME Len(nodes) # first PROVE \E h \in Headers : h[1] = nfile
      <4>1. Len(nodes) \in DOMAIN nodes /\ Len(nodes) > first
        <5>1. nodes \in Seq(Node) /\ Len(nodes) > first /\ Len(nodes) > 0
            BY <3>1, <3>3 DEF Typed
        <5>2. QED  BY <5>1
      <4>2. where[Len(nodes)] \in Headers /\ where[Len(nodes)][1] = nfile
          BY <1>1, <2>2, <4>1 DEF Begun
      <4>3. QED  BY <4>2
    <3>4. QED  BY <3>2, <3>3
  <2>8. Odd' <=> Odd \/ Len(nodes) = first
    <3>1. (\E p \in Behind' : At(p)'.op = "junk") <=> (\E p \in Behind : At(p).op = "junk")
        BY <2>4, <2>5
    <3>2. (\E f \in ClosedFiles' : \A h \in Headers' : h[1] # f) <=>
            (\E f \in ClosedFiles : \A h \in Headers : h[1] # f) \/ Len(nodes) = first
        BY <2>4, <2>5, <2>7
    <3>3. QED  BY <2>6, <3>1, <3>2 DEF Odd
  <2>9. nwarnings' > 0 <=> nwarnings > 0 \/ Len(nodes) = first
    <3>1. nwarnings \in Nat
        BY DEF Typed, TypeOK
    <3>2. QED  BY <1>1, <3>1
  <2>10. nwarnings' > 0 <=> Odd'
      BY <2>1, <2>8, <2>9 DEF NoneCounted
  <2>11. \A p \in Behind' : WellFormed(p)'
      BY <2>1, <2>4, <2>5 DEF NoneCounted
  <2>12. NoneCounted'
      BY <1>1, <2>1, <2>3, <2>6, <2>10, <2>11 DEF NoneCounted
  <2>13. QED  BY <1>1, <1>2, <2>12 DEF Counted
<1>3. CASE nerrors # 0
  <2>1. OneCounted'
      BY <1>1, <1>3, OneStays DEF Counted
  <2>2. QED  BY <1>1, <1>3, <2>1 DEF Counted
<1>4. QED  BY <1>2, <1>3
-----------------------------------------------------------------------------
(* How what was read is checked.                                              *)
LEMMA SameNodes ==
    ASSUME UNCHANGED <<files, reading>>
    PROVE  /\ UNCHANGED <<nodes, current, first>>
           /\ Duplicates' = Duplicates
           /\ \A i : ID(i)' = ID(i)
<1>1. UNCHANGED <<nodes, current, first>>
    BY DEF reading
<1>2. QED  BY <1>1 DEF Duplicates, Equal, ID

LEMMA CheckedOn ==
    ASSUME NoneCounted, phase \notin {"read", "undefined"}, phase' \notin {"read", "coalesce"},
           UNCHANGED <<files, reading>>, elaborated' = 0, Duplicates = {},
           \A i \in Checked' : kbnode_check(nodes[i]) = 0,
           nwarnings' > 0 <=>
             \/ \E p \in Behind : At(p).op = "junk"
             \/ \E f \in ClosedFiles : \A h \in Headers : h[1] # f
             \/ \E i \in Checked' : ID(i) = <<>>
    PROVE  NoneCounted'
<1>1. PICK where : Begun(where)
    BY DEF NoneCounted
<1>2. Begun(where)'
    BY <1>1, BegunStays
<1>3. /\ Places' = Places /\ Headers' = Headers
      /\ \A p : At(p)' = At(p)
      /\ \A p : WellFormed(p)' <=> WellFormed(p)
    BY SameFiles
<1>4. Behind' = Behind /\ ClosedFiles' = ClosedFiles
    BY <1>3 DEF Behind, ClosedFiles
<1>5. UNCHANGED nodes /\ Duplicates' = Duplicates /\ \A i : ID(i)' = ID(i)
    BY SameNodes
<1>6. ~BeforeCheck'
    BY DEF BeforeCheck
<1>7. Odd' <=>
        \/ \E p \in Behind : At(p).op = "junk"
        \/ \E f \in ClosedFiles : \A h \in Headers : h[1] # f
        \/ \E i \in Checked' : ID(i) = <<>>
    BY <1>3, <1>4, <1>5, <1>6 DEF Odd
<1>8. \A i \in Checked' : kbnode_check(nodes'[i]) = 0
    BY <1>5
<1>9. \A p \in Behind' : WellFormed(p)'
    BY <1>3, <1>4 DEF NoneCounted
<1>10. nwarnings' > 0 <=> Odd'
    BY <1>7
<1>11. QED  BY <1>2, <1>5, <1>8, <1>9, <1>10 DEF NoneCounted

(* The nodes that were read are those the headers of all files begin.          *)
LEMMA NodesRead ==
    ASSUME Typed, phase \notin {"read", "undefined"}, NEW where, Begun(where)
    PROVE  /\ \A i \in DOMAIN nodes :
                /\ where[i] \in Headers /\ nodes[i].type = At(where[i]).type
                /\ nodes[i].vars = NodeAt(where[i])
           /\ \A i, j \in DOMAIN nodes : where[i] = where[j] => i = j
           /\ \A h \in Headers : \E i \in DOMAIN nodes : where[i] = h
<1>1. current = 0 /\ 0 \notin DOMAIN nodes
    BY DEF Typed
<1>2. ASSUME NEW i \in DOMAIN nodes
      PROVE  where[i] \in Headers /\ nodes[i].type = At(where[i]).type /\ nodes[i].vars = NodeAt(where[i])
  <2>1. i # current
      BY <1>1
  <2>2. QED  BY <2>1, BegunAre DEF Begun
<1>3. \A h \in Headers : h \in Behind
    BY DEF Behind, Headers
<1>4. QED  BY <1>2, <1>3 DEF Begun

LEMMA CompleteIs ==
    ASSUME NEW h
    PROVE  Complete(h) <=> CompleteAs(At(h).type, NodeAt(h))
BY DEF Complete, CompleteAs

LEMMA CoalesceCounted == Typed /\ Counted /\ Coalesce => Counted'
<1> SUFFICES ASSUME Typed, Counted, Coalesce PROVE Counted'
    OBVIOUS
<1>1. /\ phase = "coalesce" /\ phase' = "check" /\ UNCHANGED <<files, reading, elaborated>>
      /\ unchecked' = DOMAIN nodes \ Duplicates
      /\ nerrors' = nerrors + 2 * Cardinality(Duplicates)
      /\ nwarnings' = nwarnings + Cardinality(Duplicates)
    BY DEF Coalesce
<1>2. Cardinality(Duplicates) \in Nat /\ (Cardinality(Duplicates) = 0 <=> Duplicates = {})
    BY DuplicatesCounted
<1>3. nerrors \in Nat /\ nwarnings \in Nat
    BY DEF Typed, TypeOK
<1>4. UNCHANGED nodes
    BY <1>1, SameNodes
<1>5. CASE nerrors = 0 /\ Duplicates = {}
  <2>1. NoneCounted
      BY <1>5 DEF Counted
  <2>2. nerrors' = 0 /\ nwarnings' = nwarnings
      BY <1>1, <1>2, <1>3, <1>5
  <2>3. Checked' = {}
      BY <1>1, <1>4, <1>5 DEF Checked
  <2>4. Odd <=> \/ \E p \in Behind : At(p).op = "junk"
                \/ \E f \in ClosedFiles : \A h \in Headers : h[1] # f
      BY <1>1 DEF Odd, BeforeCheck
  <2>5. nwarnings' > 0 <=>
           \/ \E p \in Behind : At(p).op = "junk"
           \/ \E f \in ClosedFiles : \A h \in Headers : h[1] # f
           \/ \E i \in Checked' : ID(i) = <<>>
      BY <2>1, <2>2, <2>3, <2>4 DEF NoneCounted
  <2>6. elaborated' = 0
      BY <1>1, <2>1 DEF NoneCounted
  <2>7. NoneCounted'
      BY <1>1, <1>5, <2>1, <2>3, <2>5, <2>6, CheckedOn
  <2>8. QED  BY <2>2, <2>7 DEF Counted
<1>6. CASE nerrors = 0 /\ Duplicates # {}
  <2>1. NoneCounted
      BY <1>6 DEF Counted
  <2>2. PICK where : Begun(where)
      BY <2>1 DEF NoneCounted
  <2>3. PICK j \in DOMAIN nodes : \E i \in 1..(j - 1) : Equal(i, j)
      BY <1>6 DEF Duplicates
  <2>4. PICK i \in 1..(j - 1) : Equal(i, j)
      BY <2>3
  <2>5. i \in DOMAIN nodes /\ i # j
    <3>1. nodes \in Seq(Node)
        BY DEF Typed
    <3>2. QED  BY <2>3, <2>4, <3>1
  <2> DEFINE g == where[i]
             h == where[j]
  <2>6. g \in Headers /\ h \in Headers /\ g # h /\ nodes[i].vars = NodeAt(g) /\ nodes[j].vars = NodeAt(h)
      BY <1>1, <2>2, <2>5, NodesRead
  <2>7. LET given == kbsymtab_get(NodeAt(g), "ID")
            other == kbsymtab_get(NodeAt(h), "ID")
        IN  given # <<>> /\ other # <<>> /\ given[1] = other[1]
      BY <2>4, <2>6 DEF Equal, ID
  <2>8. ~Sound
      BY <2>6, <2>7 DEF Sound
  <2>9. OneCounted'
      BY <1>1, <2>8, SameVerdict DEF OneCounted
  <2>10. nerrors' # 0
      BY <1>1, <1>2, <1>3, <1>6
  <2>11. QED  BY <2>9, <2>10 DEF Counted
<1>7. CASE nerrors # 0
  <2>1. OneCounted'
      BY <1>1, <1>7, OneStays DEF Counted
  <2>2. nerrors' # 0
    <3>1. \A m, n \in Nat : m # 0 => m + 2 * n # 0
        OBVIOUS
    <3>2. QED  BY <1>1, <1>2, <1>3, <1>7, <3>1
  <2>3. QED  BY <2>1, <2>2 DEF Counted
<1>8. QED  BY <1>5, <1>6, <1>7

LEMMA CheckNodeCounted ==
    ASSUME Typed, Counted, NEW i \in DOMAIN nodes, CheckNode(i)
    PROVE  Counted'
<1>1. /\ phase = "check" /\ phase' = "check" /\ UNCHANGED <<files, reading, elaborated>>
      /\ i \in unchecked /\ unchecked' = unchecked \ {i}
      /\ nerrors' = nerrors + kbnode_check(nodes[i])
      /\ nwarnings' = nwarnings + (IF ID(i) = <<>> THEN 1 ELSE 0)
    BY DEF CheckNode
<1>2. /\ nodes[i].vars \in Table /\ kbnode_check(nodes[i]) \in Nat
      /\ kbnode_check(nodes[i]) = 0 <=> CompleteAs(nodes[i].type, nodes[i].vars)
    BY CheckedTyped, CheckIsCompleteness
<1>3. nerrors \in Nat /\ nwarnings \in Nat
    BY DEF Typed, TypeOK
<1>4. UNCHANGED nodes
    BY <1>1, SameNodes
<1>5. CASE nerrors = 0 /\ kbnode_check(nodes[i]) = 0
  <2>1. NoneCounted
      BY <1>5 DEF Counted
  <2>2. nerrors' = 0 /\ (nwarnings' > 0 <=> nwarnings > 0 \/ ID(i) = <<>>)
      BY <1>1, <1>3, <1>5
  <2>3. Checked' = Checked \cup {i}
      BY <1>1, <1>4 DEF Checked
  <2>4. ~BeforeCheck
      BY <1>1 DEF BeforeCheck
  <2>5. nwarnings > 0 <=>
           \/ \E p \in Behind : At(p).op = "junk"
           \/ \E f \in ClosedFiles : \A h \in Headers : h[1] # f
           \/ \E j \in Checked : ID(j) = <<>>
      BY <2>1, <2>4 DEF NoneCounted, Odd
  <2>6. nwarnings' > 0 <=>
           \/ \E p \in Behind : At(p).op = "junk"
           \/ \E f \in ClosedFiles : \A h \in Headers : h[1] # f
           \/ \E j \in Checked' : ID(j) = <<>>
      BY <2>2, <2>3, <2>5
  <2>7. \A j \in Checked' : kbnode_check(nodes[j]) = 0
      BY <1>5, <2>1, <2>3, <2>4 DEF NoneCounted
  <2>8. elaborated' = 0 /\ Duplicates = {}
      BY <1>1, <2>1, <2>4 DEF NoneCounted
  <2>9. NoneCounted'
      BY <1>1, <2>1, <2>6, <2>7, <2>8, CheckedOn
  <2>10. QED  BY <2>2, <2>9 DEF Counted
<1>6. CASE nerrors = 0 /\ kbnode_check(nodes[i]) # 0
  <2>1. PICK where : Begun(where)
      BY <1>6 DEF Counted, NoneCounted
  <2>2. /\ where[i] \in Headers /\ nodes[i].type = At(where[i]).type
        /\ nodes[i].vars = NodeAt(where[i])
      BY <1>1, <2>1, NodesRead
  <2>3. ~Complete(where[i])
      BY <1>2, <1>6, <2>2, CompleteIs
  <2>4. ~Sound
      BY <2>2, <2>3 DEF Sound
  <2>5. OneCounted'
      BY <1>1, <2>4, SameVerdict DEF OneCounted
  <2>6. nerrors' # 0
      BY <1>1, <1>2, <1>3, <1>6
  <2>7. QED  BY <2>5, <2>6 DEF Counted
<1>7. CASE nerrors # 0
  <2>1. OneCounted'
      BY <1>1, <1>7, OneStays DEF Counted
  <2>2. nerrors' # 0
    <3>1. \A m, n \in Nat : m # 0 => m + n # 0
        OBVIOUS
    <3>2. QED  BY <1>1, <1>2, <1>3, <1>7, <3>1
  <2>3. QED  BY <2>1, <2>2 DEF Counted
<1>8. QED  BY <1>5, <1>6, <1>7

LEMMA ElaborateCounted == Typed /\ Counted /\ Decided /\ Elaborate => Counted'
<1> SUFFICES ASSUME Typed, Counted, Decided, Elaborate PROVE Counted'
    OBVIOUS
<1>1. /\ phase = "check" /\ phase' = "decide" /\ elaborated' \in 0..1
      /\ nerrors' = nerrors + elaborated'
      /\ UNCHANGED <<files, reading, unchecked, nwarnings>>
    BY DEF Elaborate
<1>2. elaborated = 0 /\ nerrors \in Nat
    BY <1>1 DEF Decided, Typed, TypeOK
<1>3. UNCHANGED nodes
    BY <1>1, SameNodes
<1>4. CASE nerrors = 0 /\ elaborated' = 0
  <2>1. NoneCounted /\ nerrors' = 0
      BY <1>1, <1>4 DEF Counted
  <2>2. Checked' = Checked
      BY <1>1, <1>3 DEF Checked
  <2>3. ~BeforeCheck
      BY <1>1 DEF BeforeCheck
  <2>4. nwarnings' > 0 <=>
           \/ \E p \in Behind : At(p).op = "junk"
           \/ \E f \in ClosedFiles : \A h \in Headers : h[1] # f
           \/ \E j \in Checked' : ID(j) = <<>>
      BY <1>1, <2>1, <2>2, <2>3 DEF NoneCounted, Odd
  <2>5. Duplicates = {} /\ \A j \in Checked' : kbnode_check(nodes[j]) = 0
      BY <2>1, <2>2, <2>3 DEF NoneCounted
  <2>6. NoneCounted'
      BY <1>1, <1>4, <2>1, <2>4, <2>5, CheckedOn
  <2>7. QED  BY <2>1, <2>6 DEF Counted
<1>5. CASE elaborated' = 1
  <2>1. nerrors' # 0
      BY <1>1, <1>2, <1>5
  <2>2. OneCounted'
      BY <1>5 DEF OneCounted
  <2>3. QED  BY <2>1, <2>2 DEF Counted
<1>6. CASE nerrors # 0 /\ elaborated' = 0
  <2>1. OneCounted'
      BY <1>1, <1>2, <1>6, OneStays DEF Counted
  <2>2. QED  BY <1>1, <1>2, <1>6, <2>1 DEF Counted
<1>7. QED  BY <1>1, <1>4, <1>5, <1>6

LEMMA DecideCounted == Counted /\ Decide => Counted'
<1> SUFFICES ASSUME Counted, Decide PROVE Counted'
    OBVIOUS
<1>1. /\ phase = "decide" /\ phase' \notin {"read", "coalesce"}
      /\ UNCHANGED <<files, reading, unchecked, elaborated, nerrors, nwarnings>>
    BY DEF Decide
<1>2. UNCHANGED nodes
    BY <1>1, SameNodes
<1>3. CASE nerrors = 0
  <2>1. NoneCounted
      BY <1>3 DEF Counted
  <2>2. Checked' = Checked
      BY <1>1, <1>2 DEF Checked
  <2>3. ~BeforeCheck
      BY <1>1 DEF BeforeCheck
  <2>4. nwarnings' > 0 <=>
           \/ \E p \in Behind : At(p).op = "junk"
           \/ \E f \in ClosedFiles : \A h \in Headers : h[1] # f
           \/ \E j \in Checked' : ID(j) = <<>>
      BY <1>1, <2>1, <2>2, <2>3 DEF NoneCounted, Odd
  <2>5. /\ Duplicates = {} /\ elaborated' = 0
        /\ \A j \in Checked' : kbnode_check(nodes[j]) = 0
      BY <1>1, <2>1, <2>2, <2>3 DEF NoneCounted
  <2>6. NoneCounted'
      BY <1>1, <2>1, <2>4, <2>5, CheckedOn
  <2>7. QED  BY <1>1, <1>3, <2>6 DEF Counted
<1>4. CASE nerrors # 0
  <2>1. OneCounted'
      BY <1>1, <1>4, OneStays DEF Counted
  <2>2. QED  BY <1>1, <1>4, <2>1 DEF Counted
<1>5. QED  BY <1>3, <1>4

LEMMA CountedKept == Typed /\ Counted /\ Decided /\ Next /\ phase' # "undefined" => Counted'
<1> SUFFICES ASSUME Typed, Counted, Decided, Next, phase' # "undefined" PROVE Counted'
    OBVIOUS
<1>1. ~ReadBeyond /\ ~CoalesceFreed
    BY DEF ReadBeyond, CoalesceFreed
<1>2. QED
    BY <1>1, ReadNodeCounted, ReadAssignmentCounted, ReadOnCounted, RefuseLineCounted,
       EndOfFileCounted, CoalesceCounted, CheckNodeCounted, ElaborateCounted, DecideCounted DEF Next

LEMMA DecidedKept == Decided /\ Next /\ phase' # "undefined" => Decided'
<1> SUFFICES ASSUME Decided, Next, phase' # "undefined" PROVE Decided'
    OBVIOUS
<1>1. ASSUME ReadNode \/ ReadAssignment \/ ReadJunk \/ ReadBlank \/ RefuseLine \/ EndOfFile PROVE Decided'
  <2>1. phase = "read" /\ phase' \in {"read", "coalesce"} /\ elaborated' = elaborated
      BY <1>1 DEF ReadNode, ReadAssignment, ReadJunk, ReadBlank, RefuseLine, EndOfFile, CloseFile, More
  <2>2. QED  BY <2>1 DEF Decided, Ends
<1>2. ASSUME Coalesce \/ \E i \in DOMAIN nodes : CheckNode(i) PROVE Decided'
  <2>1. phase \in {"coalesce", "check"} /\ phase' = "check" /\ elaborated' = elaborated
      BY <1>2 DEF Coalesce, CheckNode
  <2>2. QED  BY <2>1 DEF Decided, Ends
<1>3. ASSUME Elaborate PROVE Decided'
    BY <1>3 DEF Elaborate, Decided, Ends
<1>4. ASSUME Decide PROVE Decided'
  <2>1. /\ phase = "decide" /\ UNCHANGED <<options, unchecked, nerrors, nwarnings>>
        /\ phase' = IF nerrors > 0 \/ (nwarnings > 0 /\ options.werror) THEN "aborted"
                    ELSE IF options.lint THEN "linted" ELSE "launched"
      BY <1>4 DEF Decide
  <2>2. phase' \notin {"read", "coalesce", "check"} /\ unchecked' = {}
      BY <2>1 DEF Decided
  <2>3. QED  BY <2>1, <2>2 DEF Decided
<1>5. ~ReadBeyond /\ ~CoalesceFreed
    BY DEF ReadBeyond, CoalesceFreed
<1>6. QED  BY <1>1, <1>2, <1>3, <1>4, <1>5 DEF Next

LEMMA InitInv == Init => Inv
<1> SUFFICES ASSUME Init PROVE Inv
    OBVIOUS
<1>1. Typed
    BY InitTyped
<1>2. files \in Seq(Seq(Line))
    BY <1>1, FilesAre
<1>3. Decided
    BY DEF Init, Decided, Ends
<1>4. Behind = {} /\ ClosedFiles = {}
  <2>1. CASE files = <<>>
    <3>1. DOMAIN files = {} /\ phase = "coalesce"
        BY <2>1 DEF Init
    <3>2. Places = {}
        BY <3>1 DEF Places
    <3>3. QED  BY <3>1, <3>2 DEF Behind, ClosedFiles
  <2>2. CASE files # <<>>
    <3>1. phase = "read" /\ nfile = 1 /\ nline = 0
        BY <2>2 DEF Init
    <3>2. ASSUME NEW p \in Places PROVE ~(p[1] < 1) /\ ~(p[2] <= 0)
      <4>1. p[1] \in DOMAIN files /\ p[2] \in DOMAIN files[p[1]]
          BY PlaceIs
      <4>2. files[p[1]] \in Seq(Line) /\ p[1] \in Nat /\ p[1] > 0
          BY <1>2, <4>1
      <4>3. p[2] \in Nat /\ p[2] > 0
          BY <4>1, <4>2
      <4>4. QED  BY <4>2, <4>3
    <3>3. Behind = {}
        BY <3>1, <3>2 DEF Behind
    <3>4. 1..(1 - 1) = {}
        OBVIOUS
    <3>5. QED  BY <3>1, <3>3, <3>4 DEF ClosedFiles
  <2>3. QED  BY <2>1, <2>2
<1>5. BeforeCheck
    BY DEF BeforeCheck, Init
<1>6. ~Odd
    BY <1>4, <1>5 DEF Odd
<1>7. Begun(<<>>)
  <2>1. nodes = <<>> /\ DOMAIN nodes = {} /\ Len(nodes) = 0 /\ first = 0
      BY DEF Init
  <2>2. <<>> \in [{} -> Headers]
    <3>1. <<>> = [k \in {} |-> 1]
        OBVIOUS
    <3>2. [k \in {} |-> 1] \in [{} -> Headers]
        OBVIOUS
    <3>3. QED  BY <3>1, <3>2
  <2>3. QED  BY <1>4, <2>1, <2>2 DEF Begun
<1>8. ~(0 > 0) /\ nwarnings = 0 /\ elaborated = 0 /\ nerrors = 0
    BY DEF Init
<1>9. NoneCounted
    BY <1>4, <1>5, <1>6, <1>7, <1>8 DEF NoneCounted
<1>10. QED  BY <1>1, <1>3, <1>8, <1>9 DEF Inv, Counted

LEMMA InvKept == Inv /\ [Next]_vars => Inv'
<1> SUFFICES ASSUME Inv, [Next]_vars PROVE Inv'
    OBVIOUS
<1>1. Typed'
    BY TypedKept DEF Inv
<1>2. CASE UNCHANGED vars
  <2>1. Counted' <=> Counted
    <3>1. UNCHANGED <<files, nfile, nline, nodes, first, current, unchecked,
                      elaborated, nerrors, nwarnings, phase>>
        BY <1>2 DEF vars
    <3>2. NoneCounted' <=> NoneCounted
        BY <3>1 DEF NoneCounted, Begun, Open, Behind, ClosedFiles, Checked, BeforeCheck, Odd,
                    Places, Headers, At, WellFormed, BelowHeader, Defined, NodeAt, Lines,
                    Duplicates, Equal, ID
    <3>3. OneCounted' <=> OneCounted
        BY <3>1, SameVerdict DEF OneCounted
    <3>4. QED  BY <3>1, <3>2, <3>3 DEF Counted
  <2>2. Decided' <=> Decided
      BY <1>2 DEF vars, Decided
  <2>3. phase' = phase
      BY <1>2 DEF vars
  <2>4. QED  BY <1>1, <2>1, <2>2, <2>3 DEF Inv
<1>3. CASE Next
  <2>1. phase # "undefined"
      BY <1>3 DEF Next, ReadNode, ReadAssignment, ReadBeyond, ReadJunk, ReadBlank, RefuseLine, More,
                  EndOfFile, Coalesce, CoalesceFreed, CheckNode, Elaborate, Decide
  <2>2. QED  BY <1>1, <1>3, <2>1, CountedKept, DecidedKept DEF Inv
<1>4. QED  BY <1>2, <1>3
-----------------------------------------------------------------------------
(* Once all nodes were checked without an error, the files are sound, and there  *)
(* was a warning if and only if they are not spotless.                        *)
LEMMA CheckedIsSound ==
    ASSUME Typed, NoneCounted, phase \notin {"read", "coalesce", "undefined"}, unchecked = {}
    PROVE  Sound /\ (nwarnings > 0 <=> ~Spotless)
<1>1. PICK where : Begun(where)
    BY DEF NoneCounted
<1>2. /\ \A i \in DOMAIN nodes :
           /\ where[i] \in Headers /\ nodes[i].type = At(where[i]).type
           /\ nodes[i].vars = NodeAt(where[i])
      /\ \A h \in Headers : \E i \in DOMAIN nodes : where[i] = h
    BY <1>1, NodesRead
<1>3. ~BeforeCheck /\ Checked = DOMAIN nodes /\ Behind = Places /\ ClosedFiles = DOMAIN files
    BY DEF BeforeCheck, Checked, Behind, ClosedFiles
<1>4. \A p \in Places : WellFormed(p)
    BY <1>3 DEF NoneCounted
<1>5. ASSUME NEW h \in Headers PROVE Complete(h)
  <2>1. PICK i \in DOMAIN nodes : where[i] = h
      BY <1>2
  <2>2. kbnode_check(nodes[i]) = 0
      BY <1>3 DEF NoneCounted
  <2>3. CompleteAs(nodes[i].type, nodes[i].vars)
      BY <2>2, CheckedTyped, CheckIsCompleteness
  <2>4. QED  BY <1>2, <2>1, <2>3, CompleteIs
<1>6. ASSUME NEW g \in Headers, NEW h \in Headers, g # h,
             kbsymtab_get(NodeAt(g), "ID") # <<>>, kbsymtab_get(NodeAt(h), "ID") # <<>>
      PROVE  kbsymtab_get(NodeAt(g), "ID")[1] # kbsymtab_get(NodeAt(h), "ID")[1]
  <2>1. PICK i \in DOMAIN nodes : where[i] = g
      BY <1>2
  <2>2. PICK j \in DOMAIN nodes : where[j] = h
      BY <1>2
  <2>3. ID(i) = kbsymtab_get(NodeAt(g), "ID") /\ ID(j) = kbsymtab_get(NodeAt(h), "ID")
      BY <1>2, <2>1, <2>2 DEF ID
  <2>4. Duplicates = {}
      BY <1>3 DEF NoneCounted
  <2>5. DOMAIN nodes = 1..Len(nodes) /\ i # j
      BY <1>6, <2>1, <2>2 DEF Typed
  <2>6. i \in 1..(j - 1) \/ j \in 1..(i - 1)
      BY <2>5
  <2>7. ~Equal(i, j) \/ ~Equal(j, i)
      BY <2>4, <2>6 DEF Duplicates
  <2>8. QED  BY <1>6, <2>3, <2>7 DEF Equal
<1>7. Sound
    BY <1>4, <1>5, <1>6 DEF Sound
<1>8. (\E i \in Checked : ID(i) = <<>>) <=> \E h \in Headers : kbsymtab_get(NodeAt(h), "ID") = <<>>
    BY <1>2, <1>3 DEF ID
<1>9. Odd <=> ~Spotless
    BY <1>3, <1>8 DEF Odd, Spotless
<1>10. QED  BY <1>7, <1>9 DEF NoneCounted

LEMMA InvDecides == Inv => LaunchedIffSound
<1> SUFFICES ASSUME Inv, phase \in Ends \ {"undefined"}
             PROVE  phase = (IF options.lint THEN "linted" ELSE "launched") <=>
                      Sound /\ elaborated = 0 /\ (options.werror => Spotless)
    BY DEF LaunchedIffSound
<1>1. Typed /\ Counted /\ Decided /\ phase \in {"aborted", "linted", "launched"}
    BY DEF Inv, Ends
<1>2. unchecked = {} /\
      phase = IF nerrors > 0 \/ (nwarnings > 0 /\ options.werror) THEN "aborted"
              ELSE IF options.lint THEN "linted" ELSE "launched"
    BY <1>1 DEF Decided, Ends
<1>3. phase = (IF options.lint THEN "linted" ELSE "launched") <=>
        ~(nerrors > 0 \/ (nwarnings > 0 /\ options.werror))
    BY <1>2
<1>4. CASE nerrors = 0
  <2>1. NoneCounted
      BY <1>1, <1>4 DEF Counted
  <2>2. Sound /\ (nwarnings > 0 <=> ~Spotless) /\ elaborated = 0
      BY <1>1, <1>2, <2>1, CheckedIsSound DEF NoneCounted
  <2>3. QED  BY <1>3, <1>4, <2>2
<1>5. CASE nerrors # 0
  <2>1. OneCounted /\ nerrors > 0
      BY <1>1, <1>5 DEF Counted, Typed, TypeOK
  <2>2. QED  BY <1>3, <2>1 DEF OneCounted
<1>6. QED  BY <1>4, <1>5

(* Whatever the files are, kubeka goes on to run something, or says that linting  *)
(* succeeded, exactly if every line of every file is well formed where it      *)
(* stands, all nodes are complete and have different IDs, elaboration finds no   *)
(* error and, under -W, there is nothing to warn about.                       *)
THEOREM DecisionExact == Spec => []LaunchedIffSound
BY InitInv, InvKept, InvDecides, PTL DEF Spec
=============================================================================
