------------------------------ MODULE MCKbEval ------------------------------
(***************************************************************************)
(* An entrypoint with a job, each with up to two variables of one value: text, *)
(* variables of its own, of the other node and of none, both functions, and   *)
(* one that cannot be resolved.  An entrypoint with two jobs, a list, a        *)
(* variable without values, a node without an ID.  A getenv that gets into    *)
(* one value several times, before and behind a setenv.  Two trees.           *)
(***************************************************************************)
EXTENDS KbEval, TLC

MCNode == 1..3
MCKey == {"a", "b", "c"}
MCEnvVar == {"E"}
MCWord == {"x", "y", "E", "", "[", ",", "]"}

LOCAL X == Text("x")
LOCAL Ref(k) == [op |-> "ref", arg |-> k]
LOCAL SetE == [op |-> "setenv", arg |-> "E"]
LOCAL GetE == [op |-> "getenv", arg |-> "E"]
LOCAL Bad == [op |-> "malformed", arg |-> ""]

LOCAL Forest(roots, children, named, given) ==
    [roots |-> roots, named |-> named,
     children |-> [n \in MCNode |-> IF n \in DOMAIN children THEN children[n] ELSE <<>>],
     parent |-> [n \in MCNode |-> IF \E p \in DOMAIN children : n \in Range(children[p])
                                  THEN CHOOSE p \in DOMAIN children : n \in Range(children[p]) ELSE 0],
     given |-> [n \in MCNode |-> IF n \in DOMAIN given THEN given[n] ELSE <<>>]]

LOCAL Some(keys, values) == UNION {[ks -> {<<v>> : v \in values}] : ks \in SUBSET keys}

LOCAL Above == {<<X>>, <<Ref("b")>>, <<SetE>>, <<Ref("c"), X>>}
LOCAL Below == {<<X>>, <<Ref("a")>>, <<Ref("b"), Ref("a")>>, <<Ref("a"), GetE>>, <<Bad>>}

LOCAL Chains ==
    {Forest(<<1>>, 1 :> <<2>>, {1, 2}, 1 :> up @@ 2 :> down) :
        up \in Some({"a", "b"}, Above), down \in Some({"b", "c"}, Below)}

LOCAL Wide ==
    {Forest(<<1>>, 1 :> <<2, 3>>, named,
            1 :> ("a" :> <<<<Ref("c")>>>> @@ "b" :> <<<<X>>, <<Ref("c")>>>> @@ "c" :> vals) @@
            2 :> ("b" :> <<<<Ref("a"), X>>>> @@ "c" :> <<<<GetE>>, <<X>>>>) @@
            3 :> ("c" :> <<<<SetE, X>>>>)) :
        named \in {{1, 2, 3}, {1, 3}}, vals \in {<<>>, <<<<X>>>>}} \cup
    {Forest(<<1>>, <<>>, {1}, 1 :> ("a" :> <<<<Ref("b"), SetE, Ref("b")>>>> @@ "b" :> <<<<GetE>>>>)),
     Forest(<<1>>, <<>>, {1}, 1 :> ("a" :> <<<<Ref("b"), GetE>>>> @@ "b" :> <<<<GetE, SetE, GetE>>>>))} \cup
    {Forest(<<1, 3>>, 1 :> <<2>>, {1, 2, 3},
            1 :> ("a" :> <<<<SetE>>>>) @@ 2 :> ("b" :> <<<<GetE>>>>) @@ 3 :> ("c" :> <<<<GetE>>, <<X>>>>))}

MCForests == Chains \cup Wide
=============================================================================
