--------------------------- MODULE KbInstantiate ---------------------------
(***************************************************************************)
(* node_instantiate and node_del (src/kubeka/src/kbnode.c): the runtime     *)
(* tree of every entrypoint is made by a depth-first walk that creates a    *)
(* fresh node for every reference to a job and every handler of an emitted   *)
(* signal, counts errors, and gives up below a node that refers to an        *)
(* ancestor.                                                                *)
(*                                                                         *)
(* The stack of the recursion is a variable: the frame on top is the call    *)
(* being executed, and the frames below it are the ancestors                *)
(* node_findparent looks at.  Runtime nodes are numbered as they are made.   *)
(***************************************************************************)
EXTENDS Integers, Sequences, SequencesExt, FiniteSets

CONSTANTS
    Id,        \* IDs of the nodes that exist
    Missing,   \* an ID no node has
    Signals,
    Configs    \* deduplicated node lists, with the entrypoints among them

(* The variables of a node that the walk reads.                             *)
Config == [order   : Seq(Id),                     \* all, in list order
           entries : Seq(Id),                     \* the entrypoints
           jobs    : [Id -> Seq(Id \cup {Missing})],
           emits   : [Id -> Seq(Signals)],
           handles : [Id -> SUBSET Signals]]

ASSUME ConfigsAssumption ==
    /\ Missing \notin Id
    /\ \A c \in Configs : c \in Config /\ Range(c.order) = Id

VARIABLES
    config,
    rootsDone,  \* entrypoints gone through
    stack,      \* the calls of node_instantiate in progress
    inst,       \* the runtime nodes made so far
    failing,    \* the call just ended returned NULL
    errors,     \* *errors
    trees,      \* roots stored in trees
    undefined   \* a freed node was freed again, or an array overrun

vars == <<config, rootsDone, stack, inst, failing, errors, trees, undefined>>

Kinds == {"NONE", "JOB", "HANDLER"}

(* linked: the node is in its parent's list of jobs or handlers.            *)
Instance == [id : Id, parent : Nat, kind : Kinds, live : BOOLEAN, linked : BOOLEAN]
Frame    == [node : Nat, deps : Seq([id : Id \cup {Missing}, kind : Kinds]), at : Nat]

TypeOK ==
    /\ config \in Config
    /\ rootsDone \in 0..Len(config.entries)
    /\ stack \in Seq(Frame)
    /\ inst \in Seq(Instance)
    /\ failing \in BOOLEAN
    /\ errors \in Nat
    /\ trees \in Seq(DOMAIN inst)
    /\ undefined \in BOOLEAN

Init ==
    /\ config \in Configs
    /\ rootsDone = 0
    /\ stack = <<>>
    /\ inst = <<>>
    /\ failing = FALSE
    /\ errors = 0
    /\ trees = <<>>
    /\ undefined = FALSE
-----------------------------------------------------------------------------
(* kbnode_filter_handlers of all nodes, for one signal                      *)
HandlersOf(signal) ==
    FlattenSeq([i \in DOMAIN config.order |->
        IF signal \in config.handles[config.order[i]] THEN <<config.order[i]>> ELSE <<>>])

Unhandled(id) == \E i \in DOMAIN config.emits[id] : HandlersOf(config.emits[id][i]) = <<>>

AsKind(ids, kind) == [i \in DOMAIN ids |-> [id |-> ids[i], kind |-> kind]]

(* node_find_dependent_jobs: the jobs, then the handlers of each signal in   *)
(* turn; nothing when a signal is not handled.                              *)
node_find_dependent_jobs(id) ==
    IF Unhandled(id) THEN <<>>
    ELSE AsKind(config.jobs[id], "JOB") \o
         AsKind(FlattenSeq([i \in DOMAIN config.emits[id] |-> HandlersOf(config.emits[id][i])]),
                "HANDLER")

(* It allocates an entry for each job and each signal, and one to end the    *)
(* list; but it fills an entry for each handler.                            *)
Entries(id) == Len(config.jobs[id]) + Len(config.emits[id]) + 1
Overruns(id) == Len(node_find_dependent_jobs(id)) + 1 > Entries(id)

Top == stack[Len(stack)]
Below == SubSeq(stack, 1, Len(stack) - 1)
IdOf(frame) == inst[frame.node].id

(* Fault: only the parent is looked at, not the ancestors.                   *)
HasParent(id) == Below # <<>> /\ IdOf(Below[Len(Below)]) = id

(* node_findparent, from the parent of the node on top: the node itself is   *)
(* not looked at.                                                           *)
HasAncestor(id) == \E k \in DOMAIN Below : IdOf(Below[k]) = id

(* The call node_instantiate(id, parent, kind) up to its loop.              *)
Enter(id, parent, kind, callers) ==
    /\ inst' = Append(inst, [id |-> id, parent |-> parent, kind |-> kind,
                             live |-> TRUE, linked |-> parent # 0])
    /\ stack' = Append(callers, [node |-> Len(inst) + 1,
                                 deps |-> node_find_dependent_jobs(id), at |-> 1])
    /\ errors' = IF Unhandled(id) THEN errors + 1 ELSE errors
    /\ undefined' = Overruns(id)

(* The nodes node_del reaches from n: n and what is linked below it.         *)
Reached(n) ==
    LET below[x \in DOMAIN inst] ==
            \/ x = n
            \/ x > n /\ inst[x].linked /\ below[inst[x].parent]
    IN  {x \in DOMAIN inst : below[x]}

(* Fault: the list a job is taken out of is that of handlers.                *)
DeleteKeepsJobs(n) ==
    /\ inst' = [x \in DOMAIN inst |->
                  IF x \notin Reached(n) THEN inst[x] ELSE [inst[x] EXCEPT !.live = FALSE]]
    /\ undefined' = \E x \in Reached(n) : ~inst[x].live

(* node_del: a job is taken out of its parent's list.  A handler is not: the *)
(* index found in the list of handlers is removed from the list of jobs.     *)
(* Whether the nodes below are freed or leaked when they leave the list that  *)
(* is gone through is the array library's: both count as not alive.          *)
Delete(n) ==
    /\ inst' = [x \in DOMAIN inst |->
                  IF x \notin Reached(n) THEN inst[x]
                  ELSE [inst[x] EXCEPT !.live = FALSE,
                                       !.linked = @ /\ inst[x].kind = "HANDLER"]]
    /\ undefined' = \E x \in Reached(n) : ~inst[x].live
-----------------------------------------------------------------------------
(* kbnode_instantiate of the next entrypoint                                *)
StartRoot ==
    /\ stack = <<>> /\ ~failing
    /\ rootsDone < Len(config.entries)
    /\ Enter(config.entries[rootsDone + 1], 0, "NONE", <<>>)
    /\ UNCHANGED <<config, rootsDone, failing, trees>>

InLoop == stack # <<>> /\ ~failing /\ Top.at <= Len(Top.deps)
Dep == Top.deps[Top.at]
Advanced == Append(Below, [Top EXCEPT !.at = @ + 1])

(* Fault: a missing reference is only reported.                              *)
MissingUncounted ==
    /\ InLoop
    /\ Dep.id \notin Id
    /\ stack' = Advanced
    /\ UNCHANGED <<config, rootsDone, inst, failing, errors, trees, undefined>>

MissingReference ==
    /\ InLoop
    /\ Dep.id \notin Id
    /\ errors' = errors + 1
    /\ stack' = Advanced
    /\ UNCHANGED <<config, rootsDone, inst, failing, trees, undefined>>

CycleFound ==
    /\ InLoop
    /\ Dep.id \in Id
    /\ HasAncestor(Dep.id)
    /\ errors' = errors + 1
    /\ Delete(Top.node)
    /\ stack' = Below
    /\ failing' = TRUE
    /\ UNCHANGED <<config, rootsDone, trees>>

Descend ==
    /\ InLoop
    /\ Dep.id \in Id
    /\ ~HasAncestor(Dep.id)
    /\ Enter(Dep.id, Top.node, Dep.kind, Advanced)
    /\ UNCHANGED <<config, rootsDone, failing, trees>>

(* Fault: the loop goes on after a child that failed.                        *)
ChildFailedGoesOn ==
    /\ stack # <<>> /\ failing
    /\ errors' = errors + 1
    /\ failing' = FALSE
    /\ UNCHANGED <<config, rootsDone, stack, inst, trees, undefined>>

(* A call whose child failed fails as well.                                 *)
ChildFailed ==
    /\ stack # <<>> /\ failing
    /\ errors' = errors + 1
    /\ Delete(Top.node)
    /\ stack' = Below
    /\ UNCHANGED <<config, rootsDone, failing, trees>>

(* Fault: every node that returns is taken for a root.                       *)
ReturnAsRoot ==
    /\ stack # <<>> /\ ~failing
    /\ Top.at > Len(Top.deps)
    /\ stack' = Below
    /\ trees' = Append(trees, Top.node)
    /\ rootsDone' = rootsDone + 1
    /\ UNCHANGED <<config, inst, failing, errors, undefined>>

ReturnNode ==
    /\ stack # <<>> /\ ~failing
    /\ Top.at > Len(Top.deps)
    /\ stack' = Below
    /\ IF Below = <<>>
       THEN trees' = Append(trees, Top.node) /\ rootsDone' = rootsDone + 1
       ELSE UNCHANGED <<trees, rootsDone>>
    /\ UNCHANGED <<config, inst, failing, errors, undefined>>

(* Fault: the loop over the entrypoints ends one too early after a failure.   *)
RootFailedNotLast ==
    /\ stack = <<>> /\ failing
    /\ rootsDone + 1 < Len(config.entries)
    /\ failing' = FALSE
    /\ rootsDone' = rootsDone + 1
    /\ UNCHANGED <<config, stack, inst, errors, trees, undefined>>

RootFailed ==
    /\ stack = <<>> /\ failing
    /\ failing' = FALSE
    /\ rootsDone' = rootsDone + 1
    /\ UNCHANGED <<config, stack, inst, errors, trees, undefined>>

(* Nothing is said about what happens after an undefined step.              *)
Next ==
    /\ ~undefined
    /\ \/ StartRoot \/ MissingReference \/ CycleFound \/ Descend
       \/ ChildFailed \/ ReturnNode \/ RootFailed

Spec == Init /\ [][Next]_vars /\ WF_vars(Next)
-----------------------------------------------------------------------------
Finished == ~undefined /\ stack = <<>> /\ ~failing /\ rootsDone = Len(config.entries)

(* The references of a node, as the documentation has them.                 *)
Refs(id) == Range(config.jobs[id]) \cup
            {h \in Id : config.handles[h] \cap Range(config.emits[id]) # {}}

(* What id leads to, itself included.                                       *)
Reachable(id) ==
    LET within[k \in 0..Cardinality(Id)] ==
          IF k = 0 THEN {id}
          ELSE LET near == within[k - 1] IN near \cup UNION {Refs(x) : x \in near \cap Id}
    IN  within[Cardinality(Id)]

(* SPECIFICATION, sanity checks: invocations are not recursive, and every     *)
(* reference and every signal leads somewhere.                              *)
WellFormed(id) ==
    /\ Missing \notin Reachable(id)
    /\ \A x \in Reachable(id) : ~Unhandled(x)
    /\ \A x \in Reachable(id) : \A y \in Refs(x) : x \notin Reachable(y)

(* The walk counts an error if and only if some entrypoint is not well       *)
(* formed.                                                                  *)
ErrorsIffIllFormed ==
    Finished => (errors = 0 <=> \A i \in DOMAIN config.entries : WellFormed(config.entries[i]))

(* A node is only ever below itself directly, never at a distance: the walk   *)
(* notices a cycle late by one level, but always (so the recursion is at      *)
(* most twice as deep as there are nodes).                                  *)
BoundedDepth ==
    /\ Len(stack) <= 2 * Cardinality(Id)
    /\ \A i, j \in DOMAIN stack : i < j /\ IdOf(stack[i]) = IdOf(stack[j]) => j = i + 1

(* The jobs and handlers of a runtime node, in the order they were added, and  *)
(* the dependencies that exist, in theirs.                                  *)
Children(n) ==
    FlattenSeq([x \in DOMAIN inst |->
        IF inst[x].linked /\ inst[x].parent = n
        THEN <<[id |-> inst[x].id, kind |-> inst[x].kind]>> ELSE <<>>])

Existing(deps) ==
    FlattenSeq([i \in DOMAIN deps |-> IF deps[i].id \in Id THEN <<deps[i]>> ELSE <<>>])

(* A tree that is stored is whole, whatever errors were counted: every node   *)
(* of it is alive and has one child for each dependency that exists, in the  *)
(* order kbbi_run will go through them; what failed took its root with it.   *)
TreesAreComplete ==
    Finished => \A r \in DOMAIN trees : \A n \in Reached(trees[r]) :
        /\ inst[n].live
        /\ Children(n) = Existing(node_find_dependent_jobs(inst[n].id))

(* "Remove this node from parent's list of jobs and handlers" (kbnode.c:263): a *)
(* node is freed once, along whatever way the failure takes up the tree; only  *)
(* a handler that failed is freed again.                                    *)
JobsFreedOnce ==
    undefined =>
        \/ stack # <<>> /\ ~failing /\ Overruns(IdOf(Top))
        \/ failing /\ \E x \in DOMAIN inst :
               inst[x].kind = "HANDLER" /\ inst[x].linked /\ ~inst[x].live

(* The walk ends, unless a step was undefined.                              *)
WalkEnds == <>(Finished \/ undefined)

(* kbnode.c: "For each handler, store its ID and childtype": there is room     *)
(* for every handler and the end of the list.                               *)
HandlersFit == \A i \in DOMAIN stack : ~Overruns(IdOf(stack[i]))
=============================================================================
