------------------------------ MODULE KbSymtab ------------------------------
(***************************************************************************)
(* The symbol tables of nodes in memory (src/kubeka/src/kbsym.c, kbutil.c,   *)
(* and their users in kbnode.c and kubeka.c), from the text of a file to the *)
(* end of main.  A table has, for each variable, a pointer to an array of    *)
(* pointers to strings, which are allocated and freed by hand.  KbTables is  *)
(* what this implements.                                                   *)
(*                                                                         *)
(* One file is read; its nodes are instantiated and evaluated if it has no   *)
(* error; everything is deleted when main ends.                             *)
(***************************************************************************)
EXTENDS KbTable, KbText, Functions, FiniteSets, SequencesExt, Naturals, Sequences, TLC

CONSTANTS
    BelowHeader,   \* lines that may follow a header
    AboveHeader,   \* lines before the first one, headers among them
    Stamp,         \* _FILE, _LINE, ... of a new node
    Substitutes,   \* texts evaluation stores
    MaxLines, MaxCopies, MaxStores

ASSUME SymtabAssumption ==
    /\ BelowHeader \cup AboveHeader \subseteq Line
    /\ \A key \in Key : IsReadOnly(key) <=> BeginsWith(key, "_")
    /\ \A key \in DOMAIN Stamp : key \in Key /\ IsReadOnly(key)
    /\ Substitutes \subseteq Text
    /\ {MaxLines, MaxCopies, MaxStores} \subseteq Nat

VARIABLES
    mem,       \* what is allocated: arrays of addresses of strings, and strings
    tables,    \* tables[t][key]: the address of an array
    nodes,     \* the nodes in main's list, by their tables
    trees,     \* the instances, by theirs
    current,   \* the node lines belong to; 0 is none
    mangled,   \* history: a header without ] was read
    lost,      \* history: arrays nobody points to any more
    request,   \* the last line, as its author meant it
    nlines, nstores,
    phase

vars == <<mem, tables, nodes, trees, current, mangled, lost, request, nlines, nstores, phase>>
reading == <<nodes, current, mangled, request, nlines>>

NoRequest == [op |-> "none"]

Init ==
    /\ mem = [arrays |-> <<>>, strings |-> <<>>]
    /\ tables = <<>>
    /\ nodes = <<>> /\ trees = <<>>
    /\ current = 0 /\ mangled = FALSE
    /\ lost = {}
    /\ request = NoRequest
    /\ nlines = 0 /\ nstores = 0
    /\ phase = "read"
-----------------------------------------------------------------------------
(* Memory: a new object has the lowest addresses that are free, which is what   *)
(* a use after free would notice most.                                      *)
Fresh(objects, n) ==
    SubSeq(SetToSortSeq((1..(Cardinality(DOMAIN objects) + n)) \ DOMAIN objects, <), 1, n)

NewStrings(m, texts) == Fresh(m.strings, Len(texts))

(* Strings with these texts, and an array of them after given ones.           *)
NewArray(m, old, texts) ==
    LET at == Fresh(m.arrays, 1)[1]
        new == NewStrings(m, texts)
    IN  [mem |-> [arrays |-> (at :> old \o new) @@ m.arrays,
                  strings |-> [s \in ToSet(new) |-> texts[SelectInSeq(new, LAMBDA a : a = s)]]
                              @@ m.strings],
         at |-> at]

Strings(m, array) == ToSet(m.arrays[array])
Texts(m, array) == [i \in DOMAIN m.arrays[array] |-> m.strings[m.arrays[array][i]]]

kbutil_strarray_del(m, array) ==
    [arrays |-> Restrict(m.arrays, DOMAIN m.arrays \ {array}),
     strings |-> Restrict(m.strings, DOMAIN m.strings \ Strings(m, array))]

(* Fault: the last string is not copied.                                     *)
kbutil_strarray_copyShort(m, array) ==
    NewArray(m, <<>>, [i \in 1..(Len(m.arrays[array]) - 1) |-> Texts(m, array)[i]])

kbutil_strarray_copy(m, array) == NewArray(m, <<>>, Texts(m, array))

(* realloc moves the array, and leaves its strings where they are.            *)
kbutil_strarray_append(m, array, text) ==
    LET new == NewArray(m, m.arrays[array], <<text>>)
    IN  [new EXCEPT !.mem.arrays = Restrict(@, DOMAIN @ \ {array})]

(* Fault: the new string is not stored.                                      *)
ReplaceStringFreed(m, array, i, text) ==
    LET left == Restrict(m.strings, DOMAIN m.strings \ {m.arrays[array][i]})
    IN  [arrays |-> m.arrays, strings |-> left]

(* A string of an array is freed, and another one takes its place.            *)
ReplaceString(m, array, i, text) ==
    LET left == Restrict(m.strings, DOMAIN m.strings \ {m.arrays[array][i]})
        new == Fresh(m.strings, 1)[1]
    IN  [arrays |-> [m.arrays EXCEPT ![array][i] = new], strings |-> (new :> text) @@ left]
-----------------------------------------------------------------------------
Values(t) == [key \in DOMAIN tables[t] |-> Texts(mem, tables[t][key])]

(* Of kbsymtab_set and kbsymtab_append: memory and table after a line the      *)
(* operators of KbTable accept, and the array that got lost, if any.         *)
StoreNew(m, table, key, array) ==
    [mem |-> m, table |-> (key :> array) @@ table,
     lost |-> IF key \in DOMAIN table THEN {table[key]} ELSE {}]

SetInMemory(m, table, line) ==
    LET varray == NewArray(m, <<>>, line.values)
        existing == table[line.key]
    IN  IF ~SetsExisting(table, line) THEN StoreNew(varray.mem, table, line.key, varray.at)
        ELSE [mem |-> IF line.values = <<>>
                      THEN [m EXCEPT !.strings[m.arrays[existing][1]] = <<>>]
                      ELSE kbutil_strarray_del(
                             ReplaceString(varray.mem, existing, 1, line.values[1]), varray.at),
              table |-> table, lost |-> {}]

AppendInMemory(m, table, line) ==
    LET exists == line.key \in DOMAIN table
        existing == table[line.key]
        fresh == NewArray(m, <<>>, IF line.form = "array" THEN <<line.value>>
                                   ELSE <<<<" ">> \o line.value>>)
        longer == kbutil_strarray_append(m, existing, line.value)
    IN  IF ~exists \/ (line.form = "index" /\ m.arrays[existing] = <<>>)
        THEN StoreNew(fresh.mem, table, line.key, fresh.at)
        ELSE IF line.form = "array"
        THEN [mem |-> longer.mem, table |-> (line.key :> longer.at) @@ table, lost |-> {}]
        ELSE [mem |-> ReplaceString(m, existing, line.at + 1,
                        Texts(m, existing)[line.at + 1] \o <<" ">> \o line.value),
              table |-> table, lost |-> {}]

(* Stamping a new table, copying and deleting one, variable by variable.       *)
StoreValues(m, values) ==
    FoldLeft(LAMBDA done, key :
                 LET new == NewArray(done.mem, <<>>, values[key])
                 IN  StoreNew(new.mem, done.table, key, new.at),
             [mem |-> m, table |-> <<>>, lost |-> {}], SetToSeq(DOMAIN values))

(* Fault: the copy has the arrays of the original.                           *)
kbsymtab_copyShallow(m, table) == [mem |-> m, table |-> table, lost |-> {}]

kbsymtab_copy(m, table) ==
    FoldLeft(LAMBDA done, key :
                 LET new == kbutil_strarray_copy(done.mem, table[key])
                 IN  StoreNew(new.mem, done.table, key, new.at),
             [mem |-> m, table |-> <<>>, lost |-> {}], SetToSeq(DOMAIN table))

kbsymtab_del(m, table) ==
    FoldLeft(LAMBDA done, key : kbutil_strarray_del(done, table[key]), m, SetToSeq(DOMAIN table))
-----------------------------------------------------------------------------
(* kbnode_read_file                                                          *)
More == phase = "read" /\ nlines < MaxLines

Tables == 1..(MaxLines + MaxCopies)
NewTable == Len(nodes) + Len(trees) + 1

(* A line is read for what its text says, not for what its author meant.       *)
Reading(line) == LineOf(Written(line))

ReadNode(line) ==
    LET read == Reading(line)
        new == StoreValues(mem, Stamp)
    IN  /\ read.op = "node" /\ read.type # "unknown"
        /\ mem' = new.mem
        /\ tables' = (NewTable :> new.table) @@ tables
        /\ nodes' = Append(nodes, NewTable)
        /\ current' = NewTable
        /\ request' = line
        /\ nlines' = nlines + 1
        /\ UNCHANGED <<trees, mangled, lost, nstores, phase>>

ReadAssignment(line) ==
    LET read == Reading(line)
        done == IF read.op = "set" THEN SetInMemory(mem, tables[current], read)
                ELSE AppendInMemory(mem, tables[current], read)
    IN  /\ Assigns(read) /\ current # 0
        /\ Accepts(Values(current), read)
        /\ ~ReadsBeyond(Values(current), read)
        /\ mem' = done.mem
        /\ tables' = [tables EXCEPT ![current] = done.table]
        /\ lost' = lost \cup done.lost
        /\ request' = line
        /\ nlines' = nlines + 1
        /\ UNCHANGED <<nodes, trees, current, mangled, nstores, phase>>

ReadBeyond(line) ==
    LET read == Reading(line)
    IN  /\ Assigns(read) /\ current # 0
        /\ Accepts(Values(current), read)
        /\ ReadsBeyond(Values(current), read)
        /\ phase' = "undefined"
        /\ request' = line
        /\ UNCHANGED <<mem, tables, nodes, trees, current, mangled, lost, nlines, nstores>>

ReadNothing(line) ==
    /\ Reading(line).op \in {"junk", "blank"}
    /\ request' = line
    /\ nlines' = nlines + 1
    /\ UNCHANGED <<mem, tables, nodes, trees, current, mangled, lost, nstores, phase>>

(* A line with an error ends the file, and main will end without running        *)
(* anything.  The current node is forgotten first, except after a mangled       *)
(* header, so that it is deleted while it stays in the list of nodes.         *)
RefuseLine(line) ==
    LET read == Reading(line)
        dropped == IF read.op = "mangled" THEN {current} \ {0} ELSE {}
    IN  /\ \/ read.op \in {"mangled", "malformed"}
           \/ read.op = "node" /\ read.type = "unknown"
           \/ Assigns(read) /\ (current # 0 => ~Accepts(Values(current), read))
        /\ mem' = IF dropped = {} THEN mem ELSE kbsymtab_del(mem, tables[current])
        /\ tables' = Restrict(tables, DOMAIN tables \ dropped)
        /\ current' = 0
        /\ mangled' = (mangled \/ read.op = "mangled")
        /\ request' = line
        /\ nlines' = 0
        /\ phase' = "cleanup"
        /\ UNCHANGED <<nodes, trees, lost, nstores>>

EndOfFile ==
    /\ phase = "read"
    /\ current' = 0 /\ request' = NoRequest /\ nlines' = 0
    /\ phase' = "run"
    /\ UNCHANGED <<mem, tables, nodes, trees, mangled, lost, nstores>>
-----------------------------------------------------------------------------
(* node_instantiate: the table of a new node is replaced by a copy.            *)
Instantiate(node) ==
    LET copy == kbsymtab_copy(mem, tables[node])
    IN  /\ phase = "run" /\ Len(trees) < MaxCopies
        /\ mem' = copy.mem
        /\ tables' = (NewTable :> copy.table) @@ tables
        /\ trees' = Append(trees, NewTable)
        /\ UNCHANGED <<reading, lost, nstores, phase>>

(* Evaluation, and the periodic thread's counter, replace one value of an       *)
(* instance that has as many.                                               *)
kbnode_set_single(tree, key, i, text) ==
    /\ phase = "run" /\ nstores < MaxStores
    /\ i \in DOMAIN mem.arrays[tables[tree][key]]
    /\ mem' = ReplaceString(mem, tables[tree][key], i, text)
    /\ nstores' = nstores + 1
    /\ UNCHANGED <<reading, tables, trees, lost, phase>>

EndRun ==
    /\ phase = "run"
    /\ phase' = "cleanup"
    /\ UNCHANGED <<mem, tables, reading, trees, lost, nstores>>

(* main deletes its list of nodes, then the trees.  A node that was deleted     *)
(* before is deleted again.                                                 *)
DeleteTable(t) ==
    /\ mem' = kbsymtab_del(mem, tables[t])
    /\ tables' = Restrict(tables, DOMAIN tables \ {t})

DeleteNode ==
    /\ phase = "cleanup" /\ nodes # <<>>
    /\ Head(nodes) \in DOMAIN tables
    /\ DeleteTable(Head(nodes))
    /\ nodes' = Tail(nodes)
    /\ UNCHANGED <<trees, current, mangled, lost, request, nlines, nstores, phase>>

DeleteAgain ==
    /\ phase = "cleanup" /\ nodes # <<>>
    /\ Head(nodes) \notin DOMAIN tables
    /\ phase' = "undefined"
    /\ UNCHANGED <<mem, tables, reading, trees, lost, nstores>>

DeleteTree ==
    /\ phase = "cleanup" /\ nodes = <<>> /\ trees # <<>>
    /\ DeleteTable(Head(trees))
    /\ trees' = Tail(trees)
    /\ UNCHANGED <<reading, lost, nstores, phase>>

Exit ==
    /\ phase = "cleanup" /\ nodes = <<>> /\ trees = <<>>
    /\ phase' = "gone"
    /\ UNCHANGED <<mem, tables, reading, trees, lost, nstores>>

Read(line) ==
    \/ ReadNode(line) \/ ReadAssignment(line) \/ ReadBeyond(line)
    \/ ReadNothing(line) \/ RefuseLine(line)

Next ==
    \/ More /\ \E line \in IF nodes = <<>> THEN AboveHeader ELSE BelowHeader : Read(line)
    \/ EndOfFile
    \/ (\E n \in ToSet(nodes) : Instantiate(n))
    \/ (\E t \in ToSet(trees) : \E key \in DOMAIN tables[t] : \E i \in DOMAIN mem.arrays[tables[t][key]] :
          \E text \in Substitutes : kbnode_set_single(t, key, i, text))
    \/ EndRun \/ DeleteNode \/ DeleteAgain \/ DeleteTree \/ Exit

Spec == Init /\ [][Next]_vars
-----------------------------------------------------------------------------
TypeOK ==
    /\ DOMAIN mem.arrays \subseteq Nat \ {0} /\ DOMAIN mem.strings \subseteq Nat \ {0}
    /\ \A a \in DOMAIN mem.arrays : mem.arrays[a] \in Seq(DOMAIN mem.strings)
    /\ \A s \in DOMAIN mem.strings : mem.strings[s] \in Text
    /\ DOMAIN tables \subseteq Tables
    /\ \A t \in DOMAIN tables : DOMAIN Stamp \subseteq DOMAIN tables[t]
    /\ ToSet(nodes) \subseteq Tables /\ ToSet(trees) \subseteq Tables
    /\ current \in DOMAIN tables \cup {0}
    /\ mangled \in BOOLEAN
    /\ nlines \in 0..MaxLines /\ nstores \in 0..MaxStores
    /\ phase \in {"read", "run", "cleanup", "gone", "undefined"}

(* Whatever lines are read, copied, evaluated and deleted: every array that is   *)
(* allocated is pointed to by one variable of one table, or was replaced as a  *)
(* whole (x[0] = v, or x += v for a list without values); every string is in  *)
(* one place of one array; no table points to what was freed; and every node   *)
(* in main's list still has its table unless a header without ] was read.     *)
Owners == UNION {{<<t, key>> : key \in DOMAIN tables[t]} : t \in DOMAIN tables}
Owned(o) == tables[o[1]][o[2]]
Slots == UNION {{<<a, i>> : i \in DOMAIN mem.arrays[a]} : a \in DOMAIN mem.arrays}
Held(s) == mem.arrays[s[1]][s[2]]

OwnedOnce ==
    /\ {Owned(o) : o \in Owners} \cup lost = DOMAIN mem.arrays
    /\ \A o \in Owners : Owned(o) \notin lost
    /\ \A o, p \in Owners : Owned(o) = Owned(p) => o = p
    /\ {Held(s) : s \in Slots} = DOMAIN mem.strings
    /\ \A r, s \in Slots : Held(r) = Held(s) => r = s
    /\ mangled \/ ToSet(nodes) \cup ToSet(trees) = DOMAIN tables

(* A line is read back as its author meant it if and only if no value in it has  *)
(* anything that ends it early, turns it into an append or makes it a list;    *)
(* and setenv sets a name to a value if and only if that is not empty and has  *)
(* no = in it.                                                             *)
ReadAsWritten ==
    /\ request # NoRequest => (Reading(request) = request <=> Clean(request))
    /\ request.op = "append" =>
         (bi_setenv(request.key \o <<"=">> \o request.value) = <<request.key, request.value>> <=>
             request.value # <<>> /\ ~Has(request.value, <<"=">>))

(* In memory, with arrays that move and strings that are replaced in place,     *)
(* every node and every instance has the variables KbTables says it has.      *)
Deref(a) ==
    IF a \in DOMAIN mem.arrays
    THEN [i \in DOMAIN mem.arrays[a] |->
            IF mem.arrays[a][i] \in DOMAIN mem.strings THEN mem.strings[mem.arrays[a][i]] ELSE <<"freed">>]
    ELSE <<<<"freed">>>>

Abstract == INSTANCE KbTables WITH
    tables <- [t \in DOMAIN tables |-> [key \in DOMAIN tables[t] |-> Deref(tables[t][key])]]

ImplementsTables == Abstract!Spec
=============================================================================
