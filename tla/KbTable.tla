------------------------------ MODULE KbTable ------------------------------
(***************************************************************************)
(* Symbol tables by value (src/kubeka/src/kbsym.c): what a line of a file     *)
(* means for the variables of the node it stands below.  A table is a        *)
(* function from the names of variables to lists of texts.  KbLint decides   *)
(* with these operators; KbSymtab is how the code stores such tables.        *)
(***************************************************************************)
LOCAL INSTANCE Naturals
LOCAL INSTANCE Sequences

CONSTANTS
    Key,            \* names of variables
    IsReadOnly(_),  \* does it begin with an underscore? (detect_keyclass)
    Token           \* what texts are made of, " " among it

ASSUME TableAssumption == " " \in Token /\ \A key \in Key : IsReadOnly(key) \in BOOLEAN

NodeType == {"job", "periodic", "entrypoint"}
Text == Seq(Token)

(* What kbnode_read_file makes of a line.                                    *)
Line ==
    [op : {"node"}, type : NodeType \cup {"unknown"}] \cup
    [op : {"set"}, key : Key, bare : BOOLEAN, values : Seq(Text)] \cup
    [op : {"append"}, key : Key, form : {"index", "array", "other"}, at : Nat, value : Text] \cup
    [op : {"mangled", "malformed", "junk", "blank"}]

Assigns(line) == line.op \in {"set", "append"}
-----------------------------------------------------------------------------
(* The hash map under a table: the key is added, or has its value replaced.      *)
ds_hmap_set(table, key, values) ==
    [k \in DOMAIN table \cup {key} |-> IF k = key THEN values ELSE table[k]]

kbsymtab_get(table, key) == IF key \in DOMAIN table THEN table[key] ELSE <<>>

(* A variable that exists is set when it is named without a subscript only;    *)
(* the look-up is done with the subscript, the definition without it.        *)
SetsExisting(table, line) == line.bare /\ line.key \in DOMAIN table

SetAccepts(table, line) ==
    /\ ~IsReadOnly(line.key)
    /\ SetsExisting(table, line) => table[line.key] # <<>> /\ Len(line.values) <= 1

(* Of an existing list only the first value is set, or made empty.            *)
kbsymtab_set(table, line) ==
    IF SetsExisting(table, line)
    THEN [table EXCEPT ![line.key][1] = IF line.values = <<>> THEN <<>> ELSE line.values[1]]
    ELSE ds_hmap_set(table, line.key, line.values)

AppendAccepts(table, line) ==
    LET existing == kbsymtab_get(table, line.key)
    IN  /\ ~IsReadOnly(line.key)
        /\ line.form \in {"index", "array"}
        /\ line.form = "index" /\ existing # <<>> => line.at < Len(existing)

(* A value that does not exist is appended to: the access is out of bounds.    *)
AppendReadsBeyond(table, line) ==
    line.form = "index" /\ kbsymtab_get(table, line.key) = <<>> /\ line.at > 0

kbsymtab_append(table, line) ==
    LET existing == kbsymtab_get(table, line.key)
        target == IF existing = <<>> THEN <<<<>>>> ELSE existing
    IN  ds_hmap_set(table, line.key,
            IF line.form = "array" THEN Append(existing, line.value)
            ELSE [target EXCEPT ![line.at + 1] = @ \o <<" ">> \o line.value])

Accepts(table, line) ==
    CASE line.op = "set" -> SetAccepts(table, line)
      [] line.op = "append" -> AppendAccepts(table, line)

ReadsBeyond(table, line) == line.op = "append" /\ AppendReadsBeyond(table, line)

Assigned(table, line) ==
    CASE line.op = "set" -> kbsymtab_set(table, line)
      [] line.op = "append" -> kbsymtab_append(table, line)
=============================================================================
