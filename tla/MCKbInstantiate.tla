--------------------------- MODULE MCKbInstantiate ---------------------------
(***************************************************************************)
(* Every way three nodes can refer to each other through at most two jobs or *)
(* two signals each, an ID that does not exist among the references, with    *)
(* one or two entrypoints; and the configurations of four of the repository's *)
(* tests.                                                                   *)
(***************************************************************************)
EXTENDS KbInstantiate, TLC

MCId == {"a", "b", "c", "d"}
MCMissing == "nowhere"
MCSignals == {"s", "t"}

LOCAL Refs2 == {<<x>> : x \in {"a", "b", "c", MCMissing}} \cup {<<"b", "c">>, <<"c", "b">>, <<"b", "b">>}
LOCAL Emits2 == {<<"s">>, <<"s", "t">>}

(* A node has jobs, or emits signals, or does neither.                      *)
LOCAL Bodies == {[jobs |-> j, emits |-> <<>>] : j \in Refs2 \cup {<<>>}} \cup
                {[jobs |-> <<>>, emits |-> e] : e \in Emits2}

LOCAL Leaf == [jobs |-> <<>>, emits |-> <<>>]

LOCAL Make(bodies, handles, entries) ==
    LET body(i) == IF i \in DOMAIN bodies THEN bodies[i] ELSE Leaf
    IN  [order |-> <<"a", "b", "c", "d">>, entries |-> entries,
         jobs |-> [i \in MCId |-> body(i).jobs], emits |-> [i \in MCId |-> body(i).emits],
         handles |-> [i \in MCId |-> IF i \in DOMAIN handles THEN handles[i] ELSE {}]]

LOCAL Graphs(handlings) ==
    {Make("a" :> a @@ "b" :> b @@ "c" :> c, h, e) :
        a \in Bodies, b \in Bodies, c \in Bodies, h \in handlings, e \in {<<"a">>, <<"a", "b">>}}

(* tests/input: self-dependency, circular-dependency, unhandled-signal and   *)
(* missing-reference.                                                       *)
LOCAL J(ids) == [jobs |-> ids, emits |-> <<>>]
LOCAL SelfDependency == Make("a" :> J(<<"b">>) @@ "b" :> J(<<"b">>) @@ "c" :> J(<<"b">>) @@ "d" :> J(<<"c">>),
                             <<>>, <<"d">>)
LOCAL CircularDependency == Make("a" :> J(<<"b">>) @@ "b" :> J(<<"c">>) @@ "c" :> J(<<"a">>) @@ "d" :> J(<<"c">>),
                                 <<>>, <<"d">>)
LOCAL UnhandledSignal == Make("b" :> [jobs |-> <<>>, emits |-> <<"s", "t">>], "a" :> {"s"}, <<"b">>)

LOCAL MissingJob == Make("b" :> J(<<MCMissing, MCMissing, "a">>), <<>>, <<"b">>)

MCConfigs == Graphs({<<>>, "b" :> {"s"} @@ "c" :> {"t"}, "b" :> {"s", "t"}}) \cup
             {SelfDependency, CircularDependency, UnhandledSignal, MissingJob}
MCTwoHandlers == Graphs({"b" :> {"s"} @@ "c" :> {"s"}})
=============================================================================
