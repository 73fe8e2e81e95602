------------------------------ MODULE MCKbMain ------------------------------
(***************************************************************************)
(* Command lines of two arguments of any kind, and of three of some kinds, on *)
(* a disk with sound, odd and broken files in nested and hidden directories,   *)
(* and on one with nothing to run.                                          *)
(***************************************************************************)
EXTENDS KbMain, TLC

LOCAL Long(names, text) == [form |-> "long", names |-> names, text |-> text]
LOCAL Short(text) == [form |-> "short", names |-> {}, text |-> text]
LOCAL Word(text) == [form |-> "plain", names |-> {}, text |-> text]

LOCAL Every == {"help", "path", "file", "job", "lint", "daemon", "Werror"}
LOCAL Arguments ==
    {Long({"help"}, <<>>), Long({"path"}, <<"a">>), Long({"file"}, <<"b">>), Long({"job"}, <<"a">>),
     Long({"lint"}, <<>>), Long({"daemon"}, <<>>), Long({"Werror"}, <<>>),
     Long({}, <<>>), Long(Every, <<>>), Word(<<"a">>), Word(<<"b">>)} \cup
    {Short(text) : text \in
        {<<"h">>, <<"p">>, <<"f">>, <<"j">>, <<"l">>, <<"d">>, <<"W">>, <<"x">>, <<"j", "a">>,
         <<"p", "d">>, <<"j", "h">>, <<"j", "p", "d">>, <<"d", "W">>, <<"W", "d">>, <<"l", "x">>, <<"W", "j">>}}

LOCAL Common ==
    {Long({"path"}, <<"a">>), Long({"job"}, <<"a">>), Word(<<"a">>), Word(<<"b">>)} \cup
    {Short(text) : text \in {<<"p">>, <<"f">>, <<"j">>, <<"l">>, <<"d">>, <<"W">>, <<"W", "j">>}}

MCCommandLines == BoundedSeq(Arguments, 2) \cup [1..3 -> Common]

LOCAL File(broken, odd, ids, roots) == [broken |-> broken, odd |-> odd, ids |-> ids, roots |-> roots]

MCDisks ==
    {[names |-> <<"etc">> :> <<"k1">> @@ <<"a">> :> <<"hidden", "sub", "text">> @@ <<"a", "/", "sub">> :> <<"k2">>
                @@ <<"a", "/", "hidden">> :> <<"k1">> @@ <<"d">> :> <<"k1", "k2">> @@ <<"d", "/", "k2">> :> <<>>,
      files |-> <<"etc", "/", "k1">> :> File(FALSE, FALSE, {<<"a">>, <<"b">>}, {<<"a">>})
                @@ <<"a", "/", "sub", "/", "k2">> :> File(FALSE, TRUE, {<<"d">>}, {})
                @@ <<"a", "/", "hidden", "/", "k1">> :> File(TRUE, FALSE, {}, {})
                @@ <<"a", "/", "text">> :> File(TRUE, FALSE, {}, {})
                @@ <<"d", "/", "k1">> :> File(FALSE, FALSE, {<<"a">>}, {})
                @@ <<"b">> :> File(TRUE, FALSE, {}, {})],
     [names |-> <<"a">> :> <<"k1">>, files |-> <<"a", "/", "k1">> :> File(FALSE, FALSE, {<<"d">>}, {})]}
MCHidden == {"hidden"}
MCConfig == {"k1", "k2"}
=============================================================================
