------------------------------ MODULE KbTables ------------------------------
(***************************************************************************)
(* What the symbol tables of kubeka promise, apart from how they are stored: *)
(* every node that is read, and every instance made of one, has variables of *)
(* its own.  A line changes the variables of the node it stands below, as    *)
(* KbTable says; a line that cannot be read back (KbText) may change them in *)
(* any way, but no others.  A copy has the values of its original and goes   *)
(* its own way from then on.                                               *)
(***************************************************************************)
EXTENDS KbTable, KbText, Functions, Naturals, Sequences, TLC

CONSTANT Stamp    \* the variables every node has from the beginning

VARIABLES
    tables,   \* tables[t]: the variables of t
    current,  \* the node lines belong to; 0 is none
    request   \* the last line that was read, as its author meant it

vars == <<tables, current, request>>

NoRequest == [op |-> "none"]

Init ==
    /\ tables = <<>>
    /\ current = 0
    /\ request = NoRequest

BeginNode(line) ==
    /\ line.op = "node" /\ line.type # "unknown"
    /\ current' \notin DOMAIN tables
    /\ tables' = (current' :> Stamp) @@ tables

Assign(line) ==
    /\ Assigns(line) /\ current # 0
    /\ Accepts(tables[current], line)
    /\ tables' = IF ReadsBeyond(tables[current], line) THEN tables
                 ELSE [tables EXCEPT ![current] = Assigned(@, line)]
    /\ UNCHANGED current

Ignore(line) ==
    /\ line.op \in {"junk", "blank"}
    /\ UNCHANGED <<tables, current>>

Refuse(line) ==
    /\ \/ line.op \in {"mangled", "malformed"}
       \/ line.op = "node" /\ line.type = "unknown"
       \/ Assigns(line) /\ (current # 0 => ~Accepts(tables[current], line))
    /\ current' = 0
    /\ tables' = IF line.op = "mangled" THEN Restrict(tables, DOMAIN tables \ {current}) ELSE tables

Misread ==
    /\ DOMAIN tables' = DOMAIN tables
    /\ \A t \in DOMAIN tables \ {current} : tables'[t] = tables[t]
    /\ current' \in {0, current}

Read(line) ==
    IF Clean(line) THEN BeginNode(line) \/ Assign(line) \/ Ignore(line) \/ Refuse(line)
    ELSE Misread

ReadLine == request' \in Line /\ Read(request')

EndOfFile ==
    /\ current' = 0
    /\ request' = NoRequest
    /\ UNCHANGED tables

Copy ==
    \E t \in DOMAIN tables, u \in DOMAIN tables' \ DOMAIN tables :
        /\ tables' = (u :> tables[t]) @@ tables
        /\ UNCHANGED <<current, request>>

Store ==
    \E t \in DOMAIN tables :
        /\ DOMAIN tables' = DOMAIN tables
        /\ \E key \in DOMAIN tables[t] : \E i \in DOMAIN tables[t][key] :
             tables' = [tables EXCEPT ![t][key][i] = tables'[t][key][i]]
        /\ UNCHANGED <<current, request>>

Delete ==
    \E t \in DOMAIN tables :
        /\ tables' = Restrict(tables, DOMAIN tables \ {t})
        /\ current' \in {0, current}
        /\ UNCHANGED request

Next == ReadLine \/ EndOfFile \/ Copy \/ Store \/ Delete

Spec == Init /\ [][Next]_vars
=============================================================================
