------------------------------- MODULE KbText -------------------------------
(***************************************************************************)
(* The text of kubeka files: how kbnode_read_file (src/kubeka/src/kbnode.c)  *)
(* takes a line apart, what kbsym.c makes of the two sides of an assignment, *)
(* and how such lines are written by hand.                                  *)
(*                                                                         *)
(* A text is a sequence of tokens: the characters that mean something, and   *)
(* words, numerals among them.  A line has its line feed at its end.         *)
(***************************************************************************)
LOCAL INSTANCE Naturals
LOCAL INSTANCE Sequences
LOCAL INSTANCE SequencesExt
LOCAL INSTANCE FiniteSetsExt

CONSTANT Numeral   \* the values of the words that begin with a digit

(* The first place of a text in another one; 0 if there is none.              *)
strstr(text, part) ==
    LET places == {i \in 1..(Len(text) - Len(part) + 1) :
                      SubSeq(text, i, i + Len(part) - 1) = part}
    IN  IF places = {} THEN 0 ELSE Min(places)

Has(text, part) == strstr(text, part) # 0
BeginsWith(text, token) == text # <<>> /\ Head(text) = token
Before(text, part) == IF Has(text, part) THEN SubSeq(text, 1, strstr(text, part) - 1) ELSE text
After(text, part) == SubSeq(text, strstr(text, part) + Len(part), Len(text))

ds_str_trim(text) ==
    LET solid == {i \in DOMAIN text : text[i] # " "}
    IN  IF solid = {} THEN <<>> ELSE SubSeq(text, Min(solid), Max(solid))

(* What strtok_r finds between delimiters; nothing between two of them.       *)
strtok(text, delim) ==
    LET starts == {i \in DOMAIN text : text[i] # delim /\ (i = 1 \/ text[i - 1] = delim)}
        order == SetToSortSeq(starts, <)
    IN  [n \in DOMAIN order |-> Before(SubSeq(text, order[n], Len(text)), <<delim>>)]
-----------------------------------------------------------------------------
(* A value that begins with [ is a list up to the first ]; there has to be one. *)
ParsesValue(text) == BeginsWith(text, "[") => Has(text, <<"]">>)

parse_value(text) ==
    IF BeginsWith(text, "[")
    THEN LET items == strtok(Before(Tail(text), <<"]">>), ",")
         IN  [n \in DOMAIN items |-> ds_str_trim(items[n])]
    ELSE <<text>>

BaseName(name) == Before(name, <<"[">>)

(* The subscript of a name: an index, all of the list, or anything else.        *)
detect_keytype(name) ==
    LET start == After(name, <<"[">>)
    IN  IF ~Has(name, <<"[">>) THEN [form |-> "index", at |-> 0]
        ELSE IF ~Has(start, <<"]">>) THEN [form |-> "other", at |-> 0]
        ELSE IF Head(start) = "]" THEN [form |-> "array", at |-> 0]
        ELSE IF Head(start) \in DOMAIN Numeral THEN [form |-> "index", at |-> Numeral[Head(start)]]
        ELSE [form |-> "other", at |-> 0]

(* The two sides of a line around the first of a delimiter.                  *)
parse_nv(text, delim) ==
    [name |-> ds_str_trim(Before(text, delim)), value |-> ds_str_trim(After(text, delim))]

Header(text) ==
    LET type == Before(Tail(text), <<"]">>)
    IN  IF ~Has(text, <<"]">>) THEN [op |-> "mangled"]
        ELSE [op |-> "node", type |-> IF type \in {<<"job">>, <<"periodic">>, <<"entrypoint">>}
                                      THEN type[1] ELSE "unknown"]

Append1(text) ==
    LET nv == parse_nv(text, <<"+", "=">>)
        subscript == detect_keytype(nv.name)
    IN  [op |-> "append", key |-> BaseName(nv.name), form |-> subscript.form,
         at |-> subscript.at, value |-> nv.value]

Set1(text) ==
    LET nv == parse_nv(text, <<"=">>)
    IN  IF ~ParsesValue(nv.value) THEN [op |-> "malformed"]
        ELSE [op |-> "set", key |-> BaseName(nv.name), bare |-> ~Has(nv.name, <<"[">>),
              values |-> parse_value(nv.value)]

(* Fault: an assignment is looked for before an append.                       *)
LineOfSetFirst(raw) ==
    LET text == ds_str_trim(Before(Before(raw, <<"\n">>), <<"#">>))
    IN  IF Has(raw, <<"\r">>) \/ ~Has(raw, <<"\n">>) THEN [op |-> "malformed"]
        ELSE IF text = <<>> THEN [op |-> "blank"]
        ELSE IF BeginsWith(text, "[") THEN Header(text)
        ELSE IF Has(text, <<"=">>) THEN Set1(text)
        ELSE [op |-> "junk"]

(* A line, told by what it begins with, or else by what it has in it.           *)
LineOf(raw) ==
    LET text == ds_str_trim(Before(Before(raw, <<"\n">>), <<"#">>))
    IN  IF Has(raw, <<"\r">>) \/ ~Has(raw, <<"\n">>) THEN [op |-> "malformed"]
        ELSE IF text = <<>> THEN [op |-> "blank"]
        ELSE IF BeginsWith(text, "[") THEN Header(text)
        ELSE IF Has(text, <<"+", "=">>) THEN Append1(text)
        ELSE IF Has(text, <<"=">>) THEN Set1(text)
        ELSE [op |-> "junk"]

(* setenv(NAME=VALUE) takes the first two of the parts between all the = there  *)
(* are; without two it is an error.                                         *)
bi_setenv(params) ==
    LET parts == strtok(params, "=")
    IN  IF Len(parts) < 2 THEN <<>> ELSE SubSeq(parts, 1, 2)
-----------------------------------------------------------------------------
(* How lines are written: lists in brackets, [0] for a subscript of a variable   *)
(* that is set, [*] for one that is none of the two forms of an append.       *)
Brackets(values) ==
    IF values = <<>> THEN <<"[", "]">>
    ELSE <<"[", " ">> \o Head(values) \o
         FlattenSeq([i \in DOMAIN Tail(values) |-> <<",", " ">> \o values[i + 1]]) \o <<" ", "]">>

Subscript(line) ==
    CASE line.form = "array" -> <<"[", "]">>
      [] line.form = "other" -> <<"[", "*", "]">>
      [] line.form = "index" -> <<"[", CHOOSE n \in DOMAIN Numeral : Numeral[n] = line.at, "]">>

Written(line) ==
    (CASE line.op = "node" -> <<"[", line.type, "]">>
       [] line.op = "mangled" -> <<"[", "job">>
       [] line.op = "set" ->
            line.key \o (IF line.bare THEN <<>> ELSE <<"[", "0", "]">>) \o <<" ", "=", " ">> \o
            (IF Len(line.values) = 1 THEN line.values[1] ELSE Brackets(line.values))
       [] line.op = "append" ->
            line.key \o Subscript(line) \o <<" ", "+", "=", " ">> \o line.value
       [] line.op = "junk" -> <<"junk">>
       [] line.op = "malformed" -> <<"\r">>
       [] line.op = "blank" -> <<" ", "#">>)
    \o <<"\n">>

(* Values that survive: nothing in them ends the line or the value early, turns  *)
(* the assignment into an append, or makes a list of a text.                 *)
Whole(value) == ds_str_trim(value) = value /\ \A token \in {"#", "\r", "\n"} : ~Has(value, <<token>>)
NoAppend(value) == ~Has(value, <<"+", "=">>)

Clean(line) ==
    CASE line.op = "set" ->
           /\ \A i \in DOMAIN line.values : Whole(line.values[i]) /\ NoAppend(line.values[i])
           /\ IF Len(line.values) = 1 THEN ~BeginsWith(line.values[1], "[")
              ELSE \A i \in DOMAIN line.values :
                     ~Has(line.values[i], <<",">>) /\ ~Has(line.values[i], <<"]">>)
      [] line.op = "append" -> Whole(line.value)
      [] OTHER -> TRUE
=============================================================================
