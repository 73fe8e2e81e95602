------------------------------- MODULE KbEval -------------------------------
(***************************************************************************)
(* kbtree_eval (src/kubeka/src/kbtree.c): the references in every value of   *)
(* every node of the runtime trees are replaced by what they stand for,      *)
(* children before their parent, a variable at a time in the order of a hash *)
(* map, until no reference is left in a value.                              *)
(*                                                                         *)
(* A value is a sequence of pieces: text, $<variable>, calls of the two       *)
(* functions there are, and something that cannot be resolved by its form     *)
(* (no '>', or a function that does not exist).  An environment variable is   *)
(* set to one value only.                                                   *)
(***************************************************************************)
EXTENDS Naturals, Sequences, SequencesExt, FiniteSets

CONSTANTS
    Node,       \* runtime nodes; 0 is none of them
    Key,        \* names of variables
    EnvVar,     \* names of environment variables
    Word,       \* pieces of text, "" and the names in EnvVar among them
    Forests,    \* runtime trees with the values that were read
    MaxLength   \* bound: the longest value that is gone on with

Piece == [op : {"text"}, arg : Word] \cup [op : {"ref"}, arg : Key] \cup
         [op : {"setenv", "getenv"}, arg : EnvVar] \cup {[op |-> "malformed", arg |-> ""]}
Value == Seq(Piece)
Text(word) == [op |-> "text", arg |-> word]

(* children: the handlers of a node, then its jobs; named: nodes with an ID.   *)
(* Instantiation makes a fresh node for every reference, with a higher number  *)
(* than the node it is made for.                                            *)
IsForest(f) ==
    /\ f.roots \in Seq(Node) /\ IsInjective(f.roots)
    /\ f.children \in [Node -> Seq(Node)]
    /\ f.parent \in [Node -> Node \cup {0}]
    /\ \A n \in Node : f.parent[n] < n /\ IsInjective(f.children[n])
    /\ \A n, c \in Node : f.parent[c] = n <=> c \in Range(f.children[n])
    /\ \A i \in DOMAIN f.roots : f.parent[f.roots[i]] = 0
    /\ f.named \subseteq Node
    /\ DOMAIN f.given = Node
    /\ \A n \in Node : /\ DOMAIN f.given[n] \subseteq Key
                       /\ f.given[n] \in [DOMAIN f.given[n] -> Seq(Value)]

ASSUME EvalAssumption ==
    /\ Node \subseteq Nat \ {0} /\ IsFiniteSet(Key)
    /\ EnvVar \cup {"", "[", ",", "]"} \subseteq Word
    /\ \A f \in Forests : IsForest(f)

VARIABLES
    forest,
    symtab,     \* symtab[n][key]: the values of a variable of node n
    started,    \* trees begun
    stack,      \* the calls of kbtree_eval in progress
    current,    \* the value being worked on
    env,        \* environment variables that are set
    nerrors

vars == <<forest, symtab, started, stack, current, env, nerrors>>

Frame == [node : Node, child : Nat, left : SUBSET Key]
NoValue == [key |-> "", index |-> 0, value |-> <<>>]

TypeOK ==
    /\ forest \in Forests
    /\ DOMAIN symtab = Node
    /\ \A n \in Node :
         /\ symtab[n] \in [DOMAIN forest.given[n] -> Seq(Value)]
         /\ \A k \in DOMAIN symtab[n] : Len(symtab[n][k]) = Len(forest.given[n][k])
    /\ started \in 0..Len(forest.roots)
    /\ stack \in Seq(Frame)
    /\ current \in [key : Key \cup {""}, index : Nat, value : Value]
    /\ current # NoValue => /\ stack # <<>>
                            /\ current.key \in DOMAIN symtab[Last(stack).node]
                            /\ current.index \in DOMAIN symtab[Last(stack).node][current.key]
    /\ env \subseteq EnvVar
    /\ nerrors \in Nat

Init ==
    /\ forest \in Forests
    /\ symtab = forest.given
    /\ started = 0
    /\ stack = <<>>
    /\ current = NoValue
    /\ env = {}
    /\ nerrors = 0
-----------------------------------------------------------------------------
(* Fault: the outermost node that has the variable.                         *)
ResolveOutermost(n, key) ==
    LET from[m \in Node \cup {0}] ==
            IF m = 0 THEN 0
            ELSE IF from[forest.parent[m]] # 0 THEN from[forest.parent[m]]
            ELSE IF key \in DOMAIN forest.given[m] THEN m ELSE 0
    IN  from[n]

(* The node a variable is found in, from node n upwards; 0 if there is none.   *)
kbnode_resolve(n, key) ==
    LET from[m \in Node \cup {0}] ==
            IF m = 0 \/ key \in DOMAIN forest.given[m] THEN m ELSE from[forest.parent[m]]
    IN  from[n]

(* kbutil_strarray_format: nothing, the value, or all of them in brackets.    *)
Format(values) ==
    IF values = <<>> THEN <<>>
    ELSE IF Len(values) = 1 THEN values[1]
    ELSE <<Text("[")>> \o
         FlattenSeq([i \in DOMAIN values |-> IF i = 1 THEN values[i] ELSE <<Text(",")>> \o values[i]])
         \o <<Text("]")>>

IsReference(piece) == piece.op # "text"
HasReference(value) == \E i \in DOMAIN value : IsReference(value[i])
NextReference(value) == value[SelectInSeq(value, IsReference)]

Resolves(n, piece) ==
    \/ piece.op \in {"setenv", "getenv"}
    \/ piece.op = "ref" /\ kbnode_resolve(n, piece.arg) # 0

(* What resolve and exec_builtin return.                                    *)
Resolved(n, piece) ==
    CASE piece.op = "ref" -> Format(symtab[kbnode_resolve(n, piece.arg)][piece.arg])
      [] piece.op = "setenv" -> <<Text("")>>
      [] piece.op = "getenv" -> <<Text(IF piece.arg \in env THEN piece.arg ELSE "")>>

(* ds_str_strsubst: the first place of a reference at least, or all of them.  *)
Substituted(value, piece, by) ==
    LET first == SelectInSeq(value, IsReference)
        put(places) == FlattenSeq([i \in DOMAIN value |-> IF i \in places THEN by ELSE <<value[i]>>])
    IN  {put({first}), put({i \in DOMAIN value : value[i] = piece})}
-----------------------------------------------------------------------------
Top == Last(stack)
Advanced == Append(Front(stack), [Top EXCEPT !.child = @ + 1])

(* kbtree_eval is entered; it leaves at once when the node has no ID.         *)
Enter(n, callers) ==
    /\ IF n \in forest.named
       THEN /\ stack' = Append(callers, [node |-> n, child |-> 1, left |-> DOMAIN symtab[n]])
            /\ UNCHANGED nerrors
       ELSE stack' = callers /\ nerrors' = nerrors + 1
    /\ UNCHANGED <<forest, symtab, current, env>>

StartTree ==
    /\ stack = <<>>
    /\ started < Len(forest.roots)
    /\ started' = started + 1
    /\ Enter(forest.roots[started + 1], <<>>)

CallChild ==
    /\ stack # <<>>
    /\ Top.child <= Len(forest.children[Top.node])
    /\ Enter(forest.children[Top.node][Top.child], Advanced)
    /\ UNCHANGED started

ChildrenDone == stack # <<>> /\ Top.child > Len(forest.children[Top.node])

(* The next variable in the order of the map; one without values is done.     *)
PickKey(key) ==
    /\ ChildrenDone
    /\ current = NoValue
    /\ key \in Top.left
    /\ stack' = Append(Front(stack), [Top EXCEPT !.left = @ \ {key}])
    /\ LET values == symtab[Top.node][key]
       IN  current' = IF values = <<>> THEN NoValue
                      ELSE [key |-> key, index |-> 1, value |-> values[1]]
    /\ UNCHANGED <<forest, symtab, started, env, nerrors>>

Working == stack # <<>> /\ current # NoValue

Substitute ==
    /\ Working
    /\ HasReference(current.value)
    /\ Len(current.value) <= MaxLength
    /\ LET piece == NextReference(current.value)
       IN  /\ Resolves(Top.node, piece)
           /\ \E v \in Substituted(current.value, piece, Resolved(Top.node, piece)) :
                current' = [current EXCEPT !.value = v]
           /\ env' = IF piece.op = "setenv" THEN env \cup {piece.arg} ELSE env
    /\ UNCHANGED <<forest, symtab, started, stack, nerrors>>

(* Fault: the errors of a value are not added to the ones of the tree.        *)
AbandonUncounted ==
    /\ Working
    /\ HasReference(current.value)
    /\ ~Resolves(Top.node, NextReference(current.value))
    /\ current' = NoValue
    /\ UNCHANGED <<forest, symtab, started, stack, env, nerrors>>

(* A reference that cannot be resolved ends the work on its variable, and     *)
(* leaves this value and the ones after it as they were.                     *)
Abandon ==
    /\ Working
    /\ HasReference(current.value)
    /\ ~Resolves(Top.node, NextReference(current.value))
    /\ nerrors' = nerrors + 1
    /\ current' = NoValue
    /\ UNCHANGED <<forest, symtab, started, stack, env>>

NextValue(values, index) ==
    IF index = Len(values) THEN NoValue
    ELSE [key |-> current.key, index |-> index + 1, value |-> values[index + 1]]

(* Faults: the index is not moved on; the end of the values is missed.        *)
StoreAgain ==
    /\ Working
    /\ ~HasReference(current.value)
    /\ symtab' = [symtab EXCEPT ![Top.node][current.key][current.index] = current.value]
    /\ UNCHANGED <<forest, started, stack, current, env, nerrors>>

StoreBeyond ==
    /\ Working
    /\ ~HasReference(current.value)
    /\ symtab' = [symtab EXCEPT ![Top.node][current.key][current.index] = current.value]
    /\ current' = [current EXCEPT !.index = @ + 1]
    /\ UNCHANGED <<forest, started, stack, env, nerrors>>

Store ==
    /\ Working
    /\ ~HasReference(current.value)
    /\ symtab' = [symtab EXCEPT ![Top.node][current.key][current.index] = current.value]
    /\ current' = NextValue(symtab[Top.node][current.key], current.index)
    /\ UNCHANGED <<forest, started, stack, env, nerrors>>

Return ==
    /\ ChildrenDone
    /\ Top.left = {} /\ current = NoValue
    /\ stack' = Front(stack)
    /\ UNCHANGED <<forest, symtab, started, current, env, nerrors>>

Next ==
    \/ StartTree \/ CallChild \/ (\E key \in Key : PickKey(key))
    \/ Substitute \/ Abandon \/ Store \/ Return

Spec == Init /\ [][Next]_vars /\ WF_vars(Next)
-----------------------------------------------------------------------------
Done == stack = <<>> /\ started = Len(forest.roots)

(* The nodes from which n is called, itself included.                        *)
CallersOf(n) ==
    {m \in Node : LET below[x \in Node \cup {0}] == x = m \/ (x # 0 /\ below[forest.parent[x]])
                  IN  below[n]}

(* The nearest of them that has a variable.                                 *)
Owner(n, key) ==
    LET having == {m \in CallersOf(n) : key \in DOMAIN forest.given[m]}
    IN  IF having = {} THEN 0 ELSE CHOOSE m \in having : having \subseteq CallersOf(m)

(* The nodes kbtree_eval comes to.                                          *)
InForest == {n \in Node : CallersOf(n) \cap Range(forest.roots) # {}}

(* The variables used by a set of values, for node n, directly or not.        *)
UsedBy(values) == {p.arg : p \in {q \in UNION {Range(v) : v \in values} : q.op = "ref"}}
ValuesOf(n, key) == IF Owner(n, key) = 0 THEN {} ELSE Range(forest.given[Owner(n, key)][key])
Uses(n, keys) ==
    LET within[d \in 0..Cardinality(Key)] ==
            IF d = 0 THEN keys
            ELSE LET near == within[d - 1] IN near \cup UNION {UsedBy(ValuesOf(n, k)) : k \in near}
    IN  within[Cardinality(Key)]

(* A getenv of what its own value sets, as it is written, before it.           *)
Marked(value, j) ==
    IF value[j].op = "getenv" /\ \E i \in 1..(j - 1) : value[i] = [value[j] EXCEPT !.op = "setenv"]
    THEN [value[j] EXCEPT !.op = "own"] ELSE value[j]

(* A value with all its variables replaced by what they mean.                *)
Expanded(of, value) ==
    FlattenSeq([j \in DOMAIN value |->
        IF value[j].op = "ref" THEN of[value[j].arg] ELSE <<Marked(value, j)>>])

(* What the variables in a value of node n stand for in this code, apart from  *)
(* any order.  A variable is looked up from the node it is used for, also      *)
(* when it is used within a value that belongs to an ancestor (dynamic scope), *)
(* and a list is all its values in brackets, as Format has it: not its first   *)
(* element, which is what the documentation says it is.                      *)
Meaning(n, value) ==
    LET of[key \in Uses(n, DOMAIN forest.given[n])] ==
            LET values == forest.given[Owner(n, key)][key]
            IN  Format([i \in DOMAIN values |-> Expanded(of, values[i])])
    IN  Expanded(of, value)

(* What may be left of a meaning: a call of setenv leaves nothing, one of       *)
(* getenv the variable or nothing.  It is the variable if a setenv stands      *)
(* before it in the value as written: unless it has been replaced together     *)
(* with an earlier getenv that had none before it.                          *)
Left(piece, before) ==
    CASE piece.op = "text" -> {piece}
      [] piece.op = "setenv" -> {Text("")}
      [] piece.op = "getenv" -> {Text(piece.arg), Text("")}
      [] piece.op = "own" ->
           IF [op |-> "getenv", arg |-> piece.arg] \in Range(before)
           THEN {Text(piece.arg), Text("")} ELSE {Text(piece.arg)}

Agrees(value, meaning) ==
    /\ Len(value) = Len(meaning)
    /\ \A i \in DOMAIN meaning : value[i] \in Left(meaning[i], SubSeq(meaning, 1, i - 1))

Resolvable(n) ==
    \A k \in Uses(n, DOMAIN forest.given[n]) :
        /\ Owner(n, k) # 0
        /\ \A v \in ValuesOf(n, k) : \A i \in DOMAIN v : v[i].op # "malformed"

Circular(n) ==
    \E k \in Uses(n, DOMAIN forest.given[n]) : k \in Uses(n, UsedBy(ValuesOf(n, k)))

(* When evaluation has ended without errors every value has become what it    *)
(* means, whatever the order of the nodes and of the variables of each node:  *)
(* resolved up the call tree for the node it belongs to, with no reference    *)
(* left, and with an environment variable that it sets first itself.         *)
ValuesAsScoped ==
    Done /\ nerrors = 0 =>
        \A n \in InForest :
            /\ Resolvable(n) /\ ~Circular(n)
            /\ \A k \in DOMAIN symtab[n] : \A i \in DOMAIN symtab[n][k] :
                 Agrees(symtab[n][k][i], Meaning(n, forest.given[n][k][i]))

(* Evaluation counts an error if and only if some reference that some value    *)
(* leads to cannot be resolved, or a node has no ID.                         *)
ErrorsIffUnresolved ==
    Done => (nerrors = 0 <=> \A n \in InForest : n \in forest.named /\ Resolvable(n))

(* Evaluation ends if no variable leads back to itself.                      *)
EndsUnlessCircular == <>(Done \/ \E n \in InForest : Circular(n))
=============================================================================
