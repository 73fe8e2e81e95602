------------------------------- MODULE KbLint -------------------------------
(***************************************************************************)
(* The lint: what main (src/kubeka/src/kubeka.c) does from the list of files *)
(* to the decision whether to run anything.  The files are read a line at a  *)
(* time into nodes with their symbol tables, the nodes are made unique, each *)
(* one is checked, the errors of KbInstantiate and KbEval are added.         *)
(*                                                                         *)
(* A line is what kbnode_read_file makes of it (KbText), and does to the       *)
(* variables of the current node what KbTable says.  A file that cannot be   *)
(* opened counts what one with a malformed first line counts.               *)
(***************************************************************************)
EXTENDS KbTable, Naturals, Sequences, SequencesExt, FiniteSets

CONSTANTS
    ValidPeriods,   \* values kbperiod_parse accepts
    ValidCounters,  \* values sscanf finds a number in
    Inputs          \* lists of files, a file being a list of lines

ASSUME LintAssumption ==
    /\ {"ID", "MESSAGE", "EXEC", "EMITS", "JOBS", "PERIOD", "COUNTER"} \subseteq {key \in Key : ~IsReadOnly(key)}
    /\ ValidPeriods \cup ValidCounters \subseteq Text
    /\ \A files \in Inputs : files \in Seq(Seq(Line))

VARIABLES
    files,
    options,    \* lint: run nothing; werror: warnings count as errors
    nfile,      \* files that were read or are being read
    nline,      \* lines of that file that were read
    nodes,      \* the list of nodes, [type, vars] each
    first,      \* where the nodes of this file begin in it
    current,    \* the node lines belong to; 0 is none
    freed,      \* nodes in the list that were deleted
    unchecked,  \* nodes of the deduplicated collection left to check
    elaborated, \* errors of instantiation and evaluation
    nerrors, nwarnings,
    phase

vars == <<files, options, nfile, nline, nodes, first, current, freed, unchecked,
          elaborated, nerrors, nwarnings, phase>>
reading == <<nfile, nline, nodes, first, current, freed>>

Ends == {"aborted", "linted", "launched", "undefined"}

TypeOK ==
    /\ files \in Inputs
    /\ options \in [lint : BOOLEAN, werror : BOOLEAN]
    /\ files # <<>> => nfile \in DOMAIN files /\ nline \in 0..Len(files[nfile])
    /\ \A i \in DOMAIN nodes :
         /\ nodes[i].type \in NodeType
         /\ DOMAIN nodes[i].vars \subseteq {key \in Key : ~IsReadOnly(key)}
         /\ \A k \in DOMAIN nodes[i].vars : nodes[i].vars[k] \in Seq(Text)
    /\ first \in 0..Len(nodes)
    /\ current = 0 \/ (current = Len(nodes) /\ current > first)
    /\ freed \subseteq DOMAIN nodes
    /\ unchecked \subseteq DOMAIN nodes
    /\ elaborated \in 0..1
    /\ nerrors \in Nat /\ nwarnings \in Nat
    /\ phase \in {"read", "coalesce", "check", "decide"} \cup Ends

Init ==
    /\ files \in Inputs
    /\ options \in [lint : BOOLEAN, werror : BOOLEAN]
    /\ nfile = 1 /\ nline = 0
    /\ nodes = <<>> /\ first = 0 /\ current = 0
    /\ freed = {} /\ unchecked = {}
    /\ elaborated = 0 /\ nerrors = 0 /\ nwarnings = 0
    /\ phase = IF files = <<>> THEN "coalesce" ELSE "read"
-----------------------------------------------------------------------------
Lines == files[nfile]
More == phase = "read" /\ nline < Len(Lines)
NextLine == Lines[nline + 1]

(* The file is closed: nothing of it that is left is read, and the current     *)
(* node of the next one is none.                                            *)
CloseFile ==
    /\ nwarnings' = nwarnings + (IF Len(nodes) = first THEN 1 ELSE 0)
    /\ current' = 0
    /\ first' = Len(nodes)
    /\ IF nfile < Len(files)
       THEN nfile' = nfile + 1 /\ nline' = 0 /\ UNCHANGED phase
       ELSE phase' = "coalesce" /\ UNCHANGED <<nfile, nline>>
    /\ UNCHANGED <<files, options, nodes, unchecked, elaborated>>

ReadNode ==
    /\ More
    /\ NextLine.op = "node" /\ NextLine.type # "unknown"
    /\ nodes' = Append(nodes, [type |-> NextLine.type, vars |-> <<>>])
    /\ current' = Len(nodes')
    /\ nline' = nline + 1
    /\ UNCHANGED <<files, options, nfile, first, freed, unchecked, elaborated,
                   nerrors, nwarnings, phase>>

ReadAssignment ==
    /\ More
    /\ Assigns(NextLine) /\ current # 0
    /\ Accepts(nodes[current].vars, NextLine)
    /\ ~ReadsBeyond(nodes[current].vars, NextLine)
    /\ nodes' = [nodes EXCEPT ![current].vars = Assigned(@, NextLine)]
    /\ nline' = nline + 1
    /\ UNCHANGED <<files, options, nfile, first, current, freed, unchecked, elaborated,
                   nerrors, nwarnings, phase>>

ReadBeyond ==
    /\ More
    /\ Assigns(NextLine) /\ current # 0
    /\ Accepts(nodes[current].vars, NextLine)
    /\ ReadsBeyond(nodes[current].vars, NextLine)
    /\ phase' = "undefined"
    /\ UNCHANGED <<files, options, reading, unchecked, elaborated, nerrors, nwarnings>>

ReadJunk ==
    /\ More
    /\ NextLine.op = "junk"
    /\ nwarnings' = nwarnings + 1
    /\ nline' = nline + 1
    /\ UNCHANGED <<files, options, nfile, nodes, first, current, freed, unchecked, elaborated,
                   nerrors, phase>>

ReadBlank ==
    /\ More
    /\ NextLine.op = "blank"
    /\ nline' = nline + 1
    /\ UNCHANGED <<files, options, nfile, nodes, first, current, freed, unchecked, elaborated,
                   nerrors, nwarnings, phase>>

Refused ==
    \/ NextLine.op \in {"mangled", "malformed"}
    \/ NextLine.op = "node" /\ NextLine.type = "unknown"
    \/ Assigns(NextLine) /\ (current # 0 => ~Accepts(nodes[current].vars, NextLine))

(* A line with an error ends the file.  Most errors forget the current node    *)
(* first; a mangled header does not, so that the cleanup frees the node while *)
(* it stays in the list.                                                    *)
RefuseLine ==
    /\ More
    /\ Refused
    /\ nerrors' = nerrors + 1
    /\ freed' = IF NextLine.op = "mangled" THEN freed \cup ({current} \ {0}) ELSE freed
    /\ CloseFile

(* Faults: the errors so far are replaced by the ones of a file without any;    *)
(* the node goes on into the next file.                                      *)
EndOfFileForgets ==
    /\ phase = "read" /\ nline = Len(Lines)
    /\ CloseFile
    /\ nerrors' = 0
    /\ UNCHANGED freed

EndOfFileKeepsNode ==
    /\ phase = "read" /\ nline = Len(Lines)
    /\ nwarnings' = nwarnings + (IF Len(nodes) = first THEN 1 ELSE 0)
    /\ IF nfile < Len(files)
       THEN nfile' = nfile + 1 /\ nline' = 0 /\ UNCHANGED phase
       ELSE phase' = "coalesce" /\ UNCHANGED <<nfile, nline>>
    /\ first' = Len(nodes)
    /\ UNCHANGED <<files, options, nodes, current, freed, unchecked, elaborated, nerrors>>

EndOfFile ==
    /\ phase = "read" /\ nline = Len(Lines)
    /\ CloseFile
    /\ UNCHANGED <<freed, nerrors>>
-----------------------------------------------------------------------------
ID(i) == kbsymtab_get(nodes[i].vars, "ID")

(* kbnode_cmp: nodes without an ID are not equal to any other.                *)
Equal(i, j) == ID(i) # <<>> /\ ID(j) # <<>> /\ ID(i)[1] = ID(j)[1]
Duplicates == {j \in DOMAIN nodes : \E i \in 1..(j - 1) : Equal(i, j)}

(* A duplicate is an error of kbtree_coalesce, another one that main adds, and *)
(* a warning; the first node with its ID is kept.                            *)
Coalesce ==
    /\ phase = "coalesce" /\ freed = {}
    /\ unchecked' = DOMAIN nodes \ Duplicates
    /\ nerrors' = nerrors + 2 * Cardinality(Duplicates)
    /\ nwarnings' = nwarnings + Cardinality(Duplicates)
    /\ phase' = "check"
    /\ UNCHANGED <<files, options, reading, elaborated>>

CoalesceFreed ==
    /\ phase = "coalesce" /\ freed # {}
    /\ phase' = "undefined"
    /\ UNCHANGED <<files, options, reading, unchecked, elaborated, nerrors, nwarnings>>

Count(conditions) == Cardinality({i \in DOMAIN conditions : conditions[i]})

nc_periodic(table) ==
    LET periods == kbsymtab_get(table, "PERIOD")
        counters == kbsymtab_get(table, "COUNTER")
    IN  IF periods = <<>> THEN 1
        ELSE Count(<<Len(periods) > 1, periods[1] \notin ValidPeriods, Len(counters) > 1,
                     counters # <<>> /\ counters[1] \notin ValidCounters>>)

Actions(table) == DOMAIN table \cap {"EXEC", "EMITS", "JOBS"}

kbnode_check(node) ==
    (IF node.type = "periodic" THEN nc_periodic(node.vars) ELSE 0) +
    Count(<<"ID" \notin DOMAIN node.vars, "MESSAGE" \notin DOMAIN node.vars,
            Cardinality(Actions(node.vars)) # 1>>)

CheckNode(i) ==
    /\ phase = "check" /\ i \in unchecked
    /\ unchecked' = unchecked \ {i}
    /\ nerrors' = nerrors + kbnode_check(nodes[i])
    /\ nwarnings' = nwarnings + (IF ID(i) = <<>> THEN 1 ELSE 0)
    /\ UNCHANGED <<files, options, reading, elaborated, phase>>

(* Instantiation and evaluation (KbInstantiate, KbEval) add their errors; a    *)
(* model of more than one would not decide differently.                      *)
Elaborate ==
    /\ phase = "check" /\ unchecked = {}
    /\ elaborated' \in 0..1
    /\ nerrors' = nerrors + elaborated'
    /\ phase' = "decide"
    /\ UNCHANGED <<files, options, reading, unchecked, nwarnings>>

Decide ==
    /\ phase = "decide"
    /\ phase' = IF nerrors > 0 \/ (nwarnings > 0 /\ options.werror) THEN "aborted"
                ELSE IF options.lint THEN "linted" ELSE "launched"
    /\ UNCHANGED <<files, options, reading, unchecked, elaborated, nerrors, nwarnings>>

Next ==
    \/ ReadNode \/ ReadAssignment \/ ReadBeyond \/ ReadJunk \/ ReadBlank
    \/ RefuseLine \/ EndOfFile
    \/ Coalesce \/ CoalesceFreed
    \/ (\E i \in DOMAIN nodes : CheckNode(i))
    \/ Elaborate \/ Decide

Spec == Init /\ [][Next]_vars /\ WF_vars(Next)
-----------------------------------------------------------------------------
(* The text of the files as such, whatever was read of it and when: the       *)
(* places of lines, and the variables the lines from the header on define, up   *)
(* to each line of a file.                                                  *)
Places == UNION {{f} \X DOMAIN files[f] : f \in DOMAIN files}
At(p) == files[p[1]][p[2]]
Headers == {p \in Places : At(p).op = "node"}
BelowHeader(p) == \E i \in 1..(p[2] - 1) : At(<<p[1], i>>).op = "node"

TablesOf(lines) ==
    LET table[i \in 0..Len(lines)] ==
            IF i = 0 \/ lines[i].op = "node" THEN <<>>
            ELSE IF Assigns(lines[i]) THEN Assigned(table[i - 1], lines[i])
            ELSE table[i - 1]
    IN  table

Defined(p) == TablesOf(files[p[1]])[p[2] - 1]

WellFormed(p) ==
    CASE At(p).op = "node" -> At(p).type # "unknown"
      [] Assigns(At(p)) -> BelowHeader(p) /\ Accepts(Defined(p), At(p))
      [] At(p).op \in {"junk", "blank"} -> TRUE
      [] OTHER -> FALSE

(* The variables of the node that a header begins: those at the line before the  *)
(* next header, or at the last line.                                         *)
NodeAt(h) ==
    LET lines == files[h[1]]
        ends == {i \in h[2]..Len(lines) : i < Len(lines) => lines[i + 1].op = "node"}
    IN  TablesOf(lines)[Min(ends)]

Complete(h) ==
    LET table == NodeAt(h)
        valid(key, values) == \/ key \notin DOMAIN table
                              \/ table[key] = <<>>
                              \/ Len(table[key]) = 1 /\ table[key][1] \in values
    IN  /\ {"ID", "MESSAGE"} \subseteq DOMAIN table
        /\ \E key \in DOMAIN table : Actions(table) = {key}
        /\ At(h).type = "periodic" =>
             /\ kbsymtab_get(table, "PERIOD") # <<>>
             /\ valid("PERIOD", ValidPeriods) /\ valid("COUNTER", ValidCounters)

Sound ==
    /\ \A p \in Places : WellFormed(p)
    /\ \A h \in Headers : Complete(h)
    /\ \A g, h \in Headers :
         LET given == kbsymtab_get(NodeAt(g), "ID")
             other == kbsymtab_get(NodeAt(h), "ID")
         IN  g # h /\ given # <<>> /\ other # <<>> => given[1] # other[1]

Spotless ==
    /\ \A p \in Places : At(p).op # "junk"
    /\ \A f \in DOMAIN files : \E h \in Headers : h[1] = f
    /\ \A h \in Headers : kbsymtab_get(NodeAt(h), "ID") # <<>>

(* kubeka goes on to run something, or says that linting succeeded, if and     *)
(* only if every line of every file is well formed where it stands, all nodes *)
(* are complete and have different IDs, elaboration finds no error and, under  *)
(* -W, there is nothing to warn about: no error is lost on the way from a     *)
(* line in the first file to the decision.                                  *)
LaunchedIffSound ==
    phase \in Ends \ {"undefined"} =>
        (phase = (IF options.lint THEN "linted" ELSE "launched") <=>
            Sound /\ elaborated = 0 /\ (options.werror => Spotless))
=============================================================================
