------------------------------ MODULE MCKbLint ------------------------------
(***************************************************************************)
(* One node with up to two further lines before or after its own, followed   *)
(* by another file or not; no file; and the files of eight of the            *)
(* repository's tests.                                                      *)
(***************************************************************************)
EXTENDS KbLint

MCKey == {"ID", "MESSAGE", "EXEC", "EMITS", "JOBS", "PERIOD", "COUNTER", "_LINE"}
MCIsReadOnly(key) == key = "_LINE"
MCToken == {" ", "a", "b", "c", "1m", "1dayz", "7"}
MCValidPeriods == {<<"1m">>}
MCValidCounters == {<<"7">>, <<" ", "7">>}

LOCAL V(word) == <<word>>
LOCAL Node(type) == [op |-> "node", type |-> type]
LOCAL Put(key, words) ==
    [op |-> "set", key |-> key, bare |-> TRUE, values |-> [i \in DOMAIN words |-> V(words[i])]]
LOCAL PutAt(key, word) == [op |-> "set", key |-> key, bare |-> FALSE, values |-> <<V(word)>>]
LOCAL Add(key, form, at, word) ==
    [op |-> "append", key |-> key, form |-> form, at |-> at, value |-> V(word)]
LOCAL Only(op) == [op |-> op]

LOCAL Whole(type, id) == <<Node(type), Put("ID", <<id>>), Put("MESSAGE", <<"c">>), Put("EXEC", <<"c">>)>>

LOCAL Extra ==
    {Node("job"), Node("unknown"), Put("ID", <<"b">>), Put("ID", <<>>), Put("ID", <<"a", "b">>),
     PutAt("ID", "b"), Put("_LINE", <<"7">>), Put("PERIOD", <<"1m">>), Put("PERIOD", <<"1m", "1dayz">>),
     Put("COUNTER", <<"c", "7">>), Put("COUNTER", <<"7">>), Put("JOBS", <<"b">>),
     Add("ID", "index", 0, "b"), Add("ID", "array", 0, "b"), Add("PERIOD", "array", 0, "1m"),
     Add("PERIOD", "index", 1, "1m"), Add("COUNTER", "index", 0, "7"), Add("ID", "other", 0, "b"),
     Only("mangled"), Only("malformed"), Only("junk"), Only("blank")}

LOCAL After == {<<>>, Whole("entrypoint", "a"), Whole("job", "b"), <<Put("MESSAGE", <<"c">>)>>}

LOCAL Generated ==
    {<<Whole(type, "a") \o extra>> \o rest :
        type \in {"job", "periodic"}, extra \in BoundedSeq(Extra, 2),
        rest \in {<<>>} \cup {<<file>> : file \in After}} \cup
    {<<<<Node("job")>> \o extra>> : extra \in BoundedSeq(Extra, 2)}

LOCAL Periodic(id, periods) ==
    <<Node("periodic"), Put("ID", <<id>>), Put("MESSAGE", <<"c">>)>> \o
    (IF periods = <<>> THEN <<>> ELSE <<Put("PERIOD", periods)>>) \o <<Put("EXEC", <<"c">>)>>

(* tests/input: no header, a duplicate, missing and conflicting variables, an   *)
(* unknown node type, bad periods, and files without an error.               *)
LOCAL Tests ==
    {<<>>,
     <<<<Put("ID", <<"a">>), Put("MESSAGE", <<"c">>)>>>>,
     <<Whole("job", "a") \o Whole("job", "a")>>,
     <<<<Node("job"), Put("ID", <<"a">>), Put("EXEC", <<"c">>)>>>>,
     <<Whole("job", "a") \o <<Put("JOBS", <<"b">>), Put("EMITS", <<"c">>)>> \o
       <<Node("job"), Put("ID", <<"b">>), Put("MESSAGE", <<"c">>), Put("EMITS", <<"c">>)>>>>,
     <<Whole("job", "a") \o <<Put("EMITS", <<"c">>)>>>>,
     <<<<Node("job"), Put("ID", <<"a">>), Put("MESSAGE", <<"c">>), Put("EMITS", <<"c">>),
         Node("unknown"), Put("ID", <<"b">>)>>>>,
     <<Periodic("a", <<>>) \o Periodic("b", <<"1dayz">>) \o Periodic("c", <<"1m", "1m">>) \o
       Periodic("7", <<"c">>) \o Periodic("1m", <<"1m">>)>>,
     <<Whole("job", "a") \o Whole("job", "b") \o Whole("job", "c")>>}

MCInputs == Generated \cup Tests
=============================================================================
