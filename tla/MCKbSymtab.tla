----------------------------- MODULE MCKbSymtab -----------------------------
(***************************************************************************)
(* Files of up to four lines: above the first header any assignment whose    *)
(* values have up to three tokens, below it the forms of assignments to two     *)
(* variables that differ in what they do to memory.                         *)
(***************************************************************************)
EXTENDS KbSymtab

MCNumeral == "0" :> 0 @@ "1" :> 1
LOCAL X == <<"x">>
LOCAL Y == <<"y">>
LOCAL File == <<"_", "f">>
MCKey == {X, Y, File}
MCIsReadOnly(key) == BeginsWith(key, "_")
MCToken == {" ", "a", "b", "=", "+", "#", "[", "]", ",", "\r", "0", "1", "*"}
MCStamp == File :> <<<<"a">>>>
MCSubstitutes == {<<"b">>}

LOCAL Node(type) == [op |-> "node", type |-> type]
LOCAL Put(key, bare, values) == [op |-> "set", key |-> key, bare |-> bare, values |-> values]
LOCAL Add(key, form, at, value) ==
    [op |-> "append", key |-> key, form |-> form, at |-> at, value |-> value]
LOCAL Only(op) == [op |-> op]

LOCAL Short == BoundedSeq({" ", "a", "=", "+", "#", "[", "]", ",", "\r"}, 3)
LOCAL Others == {Only("mangled"), Only("malformed"), Only("junk"), Only("blank"), Node("unknown")}

MCAboveHeader ==
    Others \cup {Node(type) : type \in NodeType} \cup
    UNION {{Put(X, TRUE, <<v>>), Put(X, FALSE, <<v>>), Put(X, TRUE, <<v, <<"a">>>>),
            Put(Y, TRUE, <<<<"a">>, v>>), Add(X, "index", 0, v), Add(X, "array", 0, v)} :
           v \in Short}

MCBelowHeader ==
    Others \cup {Node("job")} \cup
    {Put(X, TRUE, <<<<"a">>>>), Put(X, TRUE, <<>>), Put(X, FALSE, <<<<"b">>>>),
     Put(X, TRUE, <<<<"a">>, <<"b">>>>), Put(Y, TRUE, <<<<"a">>>>), Put(File, TRUE, <<<<"a">>>>),
     Add(X, "index", 0, <<"a">>), Add(X, "index", 1, <<"a">>), Add(X, "array", 0, <<"b">>),
     Add(X, "other", 0, <<"a">>), Add(Y, "array", 0, <<"b">>), Put(Y, FALSE, <<<<"b">>>>),
     Add(Y, "index", 0, <<"a">>), Add(File, "index", 0, <<"a">>),
     Put(X, TRUE, <<<<"a", "+", "=", "b">>>>), Put(Y, TRUE, <<<<"[", "a">>>>), Put(X, TRUE, <<<<"a", "#">>>>)}
=============================================================================
