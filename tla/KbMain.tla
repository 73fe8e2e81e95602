------------------------------- MODULE KbMain -------------------------------
(***************************************************************************)
(* The program from its command line to its exit code (main and the option   *)
(* functions of src/kubeka/src/kubeka.c): options are read by searching the  *)
(* arguments for one option after another and crossing out what was found,    *)
(* a daemon is forked off, files are listed and linted, and a job is run or   *)
(* the daemon serves.  Of the lint (KbLint), of a run (KbRun) and of the       *)
(* serving daemon (KbDaemon) only the outcome is kept.                       *)
(*                                                                         *)
(* Texts are sequences of letters.  Of a long option, names has the options    *)
(* its name is taken for, and text its value.                               *)
(***************************************************************************)
EXTENDS Naturals, Sequences, SequencesExt, FiniteSetsExt, FiniteSets

CONSTANTS
    CommandLines,  \* lists of arguments, without the program's name
    Disks,         \* directories, with the names in them, and files
    Hidden,        \* names that begin with a dot
    Config         \* names that end in .kubeka

Text == Seq(STRING)
Argument == [form : {"long", "short", "plain"}, names : SUBSET STRING, text : Text]
EtcKubeka == <<"etc">>

ASSUME MainAssumption ==
    /\ \A words \in CommandLines : words \in Seq(Argument)
    /\ \A disk \in Disks :
         /\ \A d \in DOMAIN disk.names : d \in Text /\ disk.names[d] \in Seq(STRING)
         /\ \A f \in DOMAIN disk.files :
              /\ f \in Text \ DOMAIN disk.names
              /\ disk.files[f].broken \in BOOLEAN /\ disk.files[f].odd \in BOOLEAN
              /\ disk.files[f].roots \subseteq disk.files[f].ids
              /\ \A id \in disk.files[f].ids : id # <<>> /\ Head(id) \notin {"-", "_"}

VARIABLES
    words,    \* the command line as it was written
    disk,     \* never changes
    argv,     \* what is left of the command line
    options,  \* what was read of it
    files,    \* the list of files to lint
    at,       \* where main is, or the detached child once there is one
    code,     \* its exit code
    ran,      \* "nothing", "job" or "daemon"
    parent,   \* "none", "asleep", "succeeded", "failed", "killed"
    pidfile   \* was it written?

vars == <<words, disk, argv, options, files, at, code, ran, parent, pidfile>>
fixed == <<words, disk>>
forked == <<parent, pidfile>>

Places == {"help", "paths", "files", "job", "lint flag", "daemon flag", "fork", "Werror", "recognise",
           "list", "lint", "launch", "running", "serve", "serving", "gone", "killed"}

TypeOK ==
    /\ words \in CommandLines /\ disk \in Disks
    /\ argv \in Seq(Argument) /\ Len(argv) = Len(words)
    /\ options.paths \in Seq(Text)
    /\ options.job \in Seq(Text) /\ Len(options.job) <= 1
    /\ {options.lint, options.daemon, options.Werror} \subseteq BOOLEAN
    /\ files \in Seq(Text)
    /\ at \in Places
    /\ code \in {0, 1}
    /\ ran \in {"nothing", "job", "daemon"}
    /\ parent \in {"none", "asleep", "succeeded", "failed", "killed"}
    /\ pidfile \in BOOLEAN

Init ==
    /\ words \in CommandLines /\ disk \in Disks
    /\ argv = words
    /\ options = [paths |-> <<EtcKubeka>>, job |-> <<>>,
                  lint |-> FALSE, daemon |-> FALSE, Werror |-> FALSE]
    /\ files = <<>>
    /\ at = "help" /\ code = 1 /\ ran = "nothing"
    /\ parent = "none" /\ pidfile = FALSE
-----------------------------------------------------------------------------
(* The option functions: what they find, and the arguments they leave.        *)
NotFound(args) == [found |-> FALSE, value |-> <<>>, args |-> args]

AsText(arg) ==
    CASE arg.form = "plain" -> arg.text
      [] arg.form = "short" -> <<"-">> \o arg.text
      [] arg.form = "long"  -> <<"-", "-">> \o arg.text

opt_long(args, name) ==
    LET matches == {i \in DOMAIN args : args[i].form = "long" /\ name \in args[i].names}
        i == Min(matches)
    IN  IF matches = {} THEN NotFound(args)
        ELSE [found |-> TRUE, value |-> args[i].text,
              args |-> [args EXCEPT ![i] = [form |-> "plain", names |-> {}, text |-> <<>>]]]

(* Fault: the value is not cut off.                                          *)
opt_shortUncut(args, letter) ==
    LET matches == {i \in DOMAIN args : args[i].form = "short" /\ letter \in ToSet(args[i].text)}
        i == Min(matches)
        text == args[i].text
        k == SelectInSeq(text, LAMBDA l : l = letter)
    IN  IF matches = {} THEN NotFound(args)
        ELSE [found |-> TRUE, value |-> SubSeq(text, k + 1, Len(text)),
              args |-> [args EXCEPT ![i].text[k] = "_"]]

(* A letter with nothing behind it has the next argument for its value, which  *)
(* stays where it is; otherwise the rest is its value, and is cut off.         *)
opt_short(args, letter) ==
    LET matches == {i \in DOMAIN args : args[i].form = "short" /\ letter \in ToSet(args[i].text)}
        i == Min(matches)
        text == args[i].text
        k == SelectInSeq(text, LAMBDA l : l = letter)
    IN  IF matches = {} THEN NotFound(args)
        ELSE IF k < Len(text)
        THEN [found |-> TRUE, value |-> SubSeq(text, k + 1, Len(text)),
              args |-> [args EXCEPT ![i].text = SubSeq(text, 1, k - 1)]]
        ELSE [found |-> TRUE, value |-> IF i < Len(args) THEN AsText(args[i + 1]) ELSE <<>>,
              args |-> [args EXCEPT ![i].text[k] = "_"]]

opt_bool(args, name, letter) ==
    LET long == opt_long(args, name)
        short == opt_short(long.args, letter)
    IN  [found |-> long.found \/ short.found, args |-> short.args]

(* Fault: letters are not looked at.                                         *)
opt_unrecognisedLong(args) == \E i \in DOMAIN args : args[i].form = "long"

opt_unrecognised(args) ==
    \E i \in DOMAIN args :
        \/ args[i].form = "long"
        \/ args[i].form = "short" /\ ToSet(args[i].text) \ {"_"} # {}
-----------------------------------------------------------------------------
(* Every way out frees everything and leaves with 0 or 1.                    *)
Leave(status) ==
    /\ at' = "gone"
    /\ code' = status

Refuse == Leave(1)
GoTo(place) == at' = place /\ UNCHANGED code

Help ==
    LET help == opt_bool(argv, "help", "h")
    IN  /\ at = "help"
        /\ argv' = help.args
        /\ IF help.found THEN Leave(0) ELSE GoTo("paths")
        /\ UNCHANGED <<fixed, options, files, ran, forked>>

AddPath(read) ==
    /\ argv' = read.args
    /\ options' = [options EXCEPT !.paths = Append(@, read.value)]

(* First the long ones, then the short ones, until there are no more.          *)
ReadPath ==
    LET long == opt_long(argv, "path")
        short == opt_short(argv, "p")
    IN  /\ at = "paths"
        /\ IF long.found THEN AddPath(long) /\ GoTo("paths")
           ELSE IF short.found THEN AddPath(short) /\ GoTo("paths")
           ELSE GoTo("files") /\ UNCHANGED <<argv, options>>
        /\ UNCHANGED <<fixed, files, ran, forked>>

(* For --file=name it is not the name that is stored, but a copy of NULL: that *)
(* cannot be had, or there is nothing to open by that name.                   *)
ReadFileLong ==
    LET long == opt_long(argv, "file")
    IN  /\ at = "files"
        /\ long.found
        /\ \/ AddPath([long EXCEPT !.value = <<>>]) /\ GoTo("files")
           \/ Refuse /\ argv' = long.args /\ UNCHANGED options
        /\ UNCHANGED <<fixed, files, ran, forked>>

ReadFileShort ==
    LET short == opt_short(argv, "f")
    IN  /\ at = "files"
        /\ ~opt_long(argv, "file").found
        /\ IF short.found THEN AddPath(short) /\ GoTo("files")
           ELSE GoTo("job") /\ UNCHANGED <<argv, options>>
        /\ UNCHANGED <<fixed, files, ran, forked>>

ShortOrLong(args, name, letter) ==
    LET short == opt_short(args, letter)
    IN  IF short.found THEN short ELSE opt_long(args, name)

(* Fault: every job is read, as every path is.                               *)
ReadEveryJob ==
    LET job == ShortOrLong(argv, "job", "j")
    IN  /\ at = "job"
        /\ argv' = job.args
        /\ IF job.found THEN options' = [options EXCEPT !.job = Append(@, job.value)] /\ GoTo("job")
           ELSE GoTo("lint flag") /\ UNCHANGED options
        /\ UNCHANGED <<fixed, files, ran, forked>>

(* A second job is an error.  The job is kept where it is written: if it is an   *)
(* option itself, what is crossed out of that later is crossed out of the job   *)
(* as well, which no node is called before or after.                        *)
ReadJob ==
    LET job == ShortOrLong(argv, "job", "j")
    IN  /\ at = "job"
        /\ argv' = job.args
        /\ IF ~job.found THEN GoTo("lint flag") /\ UNCHANGED options
           ELSE IF options.job # <<>> THEN Refuse /\ UNCHANGED options
           ELSE options' = [options EXCEPT !.job = <<job.value>>] /\ GoTo("job")
        /\ UNCHANGED <<fixed, files, ran, forked>>

ReadLint ==
    LET lint == opt_bool(argv, "lint", "l")
    IN  /\ at = "lint flag"
        /\ argv' = lint.args
        /\ options' = [options EXCEPT !.lint = lint.found]
        /\ GoTo("daemon flag")
        /\ UNCHANGED <<fixed, files, ran, forked>>

ReadDaemon ==
    LET daemon == opt_bool(argv, "daemon", "d")
        job == options.job # <<>>
    IN  /\ at = "daemon flag"
        /\ argv' = daemon.args
        /\ options' = [options EXCEPT !.daemon = daemon.found]
        /\ IF (job /\ daemon.found) \/ ~(job \/ daemon.found \/ options.lint) THEN Refuse
           ELSE GoTo(IF daemon.found /\ ~options.lint THEN "fork" ELSE "Werror")
        /\ UNCHANGED <<fixed, files, ran, forked>>

(* From here on at is about the child; all of what the parent is left with is   *)
(* to note the child's number and to leave.                                 *)
Fork ==
    /\ at = "fork"
    /\ parent' = "asleep"
    /\ GoTo("Werror")
    /\ UNCHANGED <<fixed, argv, options, files, ran, pidfile>>

ForkFails ==
    /\ at = "fork"
    /\ Refuse
    /\ UNCHANGED <<fixed, argv, options, files, ran, forked>>

ParentWrites ==
    /\ parent = "asleep"
    /\ pidfile' = TRUE
    /\ parent' = "succeeded"
    /\ UNCHANGED <<fixed, argv, options, files, at, code, ran>>

ParentCannotWrite ==
    /\ parent = "asleep"
    /\ parent' = "failed"
    /\ UNCHANGED <<fixed, argv, options, files, at, code, ran, pidfile>>

ReadWerror ==
    LET Werror == opt_bool(argv, "Werror", "W")
    IN  /\ at = "Werror"
        /\ argv' = Werror.args
        /\ options' = [options EXCEPT !.Werror = Werror.found]
        /\ GoTo("recognise")
        /\ UNCHANGED <<fixed, files, ran, forked>>

Recognise ==
    /\ at = "recognise"
    /\ IF opt_unrecognised(argv) THEN Refuse ELSE GoTo("list")
    /\ UNCHANGED <<fixed, argv, options, files, ran, forked>>
-----------------------------------------------------------------------------
(* What is in a directory is listed unless its name begins with a dot: a       *)
(* directory with all that is in it, and whatever has the right name.          *)
Inside(path, name) == path \o <<"/", name>>

process_directory ==
    [d \in Disks |->
        LET all[path \in DOMAIN d.names] ==
                LET shown == SelectSeq(d.names[path], LAMBDA name : name \notin Hidden)
                    found(it, name) == (IF it \in DOMAIN d.names THEN all[it] ELSE <<>>) \o
                                       (IF name \in Config THEN <<it>> ELSE <<>>)
                IN  FlattenSeq([i \in DOMAIN shown |-> found(Inside(path, shown[i]), shown[i])])
        IN  all]

process_path(path) ==
    IF path \in DOMAIN disk.names THEN process_directory[disk][path]
    ELSE IF path \in DOMAIN disk.files THEN <<path>>
    ELSE <<>>

ListFiles ==
    /\ at = "list"
    /\ files' = FlattenSeq([i \in DOMAIN options.paths |-> process_path(options.paths[i])])
    /\ GoTo("lint")
    /\ UNCHANGED <<fixed, argv, options, ran, forked>>

(* A directory can be opened like a file, but has no nodes.                   *)
Content(path) ==
    IF path \in DOMAIN disk.files THEN disk.files[path]
    ELSE [broken |-> FALSE, odd |-> TRUE, ids |-> {}, roots |-> {}]

Errors ==
    \/ \E i \in DOMAIN files : Content(files[i]).broken
    \/ \E i, j \in DOMAIN files :
          i # j /\ Content(files[i]).ids \cap Content(files[j]).ids # {}
Warnings == \E i \in DOMAIN files : Content(files[i]).odd
Roots == UNION {Content(files[i]).roots : i \in DOMAIN files}

Lint ==
    /\ at = "lint"
    /\ IF Errors \/ (Warnings /\ options.Werror) THEN Refuse
       ELSE IF options.lint THEN Leave(0)
       ELSE GoTo(IF options.job # <<>> THEN "launch" ELSE "serve")
    /\ UNCHANGED <<fixed, argv, options, files, ran, forked>>

LaunchJob ==
    /\ at = "launch"
    /\ IF options.job[1] \in Roots THEN ran' = "job" /\ GoTo("running")
       ELSE Refuse /\ UNCHANGED ran
    /\ UNCHANGED <<fixed, argv, options, files, forked>>

EndJob ==
    /\ at = "running"
    /\ \E status \in {0, 1} : Leave(status)
    /\ UNCHANGED <<fixed, argv, options, files, ran, forked>>

Serve ==
    /\ at = "serve"
    /\ IF Roots = {} THEN Leave(0) /\ UNCHANGED ran
       ELSE ran' = "daemon" /\ GoTo("serving")
    /\ UNCHANGED <<fixed, argv, options, files, forked>>

(* After a thread that could not be started, or on SIGINT.                    *)
EndServing ==
    /\ at = "serving"
    /\ \E status \in {0, 1} : Leave(status)
    /\ UNCHANGED <<fixed, argv, options, files, ran, forked>>

(* SIGINT before the daemon has its handler, or while a job is running.         *)
KillMain ==
    /\ at \notin {"serving", "gone", "killed"}
    /\ at' = "killed"
    /\ UNCHANGED <<fixed, argv, options, files, code, ran, forked>>

KillParent ==
    /\ parent = "asleep"
    /\ parent' = "killed"
    /\ UNCHANGED <<fixed, argv, options, files, at, code, ran, pidfile>>

Main ==
    \/ Help \/ ReadPath \/ ReadFileLong \/ ReadFileShort
    \/ ReadJob \/ ReadLint \/ ReadDaemon \/ Fork \/ ForkFails \/ ReadWerror \/ Recognise \/ ListFiles \/ Lint
    \/ LaunchJob \/ EndJob \/ Serve

Parent == ParentWrites \/ ParentCannotWrite

Next == Main \/ EndServing \/ Parent \/ KillMain \/ KillParent

Spec == Init /\ [][Next]_vars /\ WF_vars(Main) /\ WF_vars(Parent)
-----------------------------------------------------------------------------
(* The command line as one reads it, from left to right: letters stand for      *)
(* options up to one that has a value, which is the rest or the next argument. *)
Searched == <<"h", "p", "f", "j", "l", "d", "W">>
Rank(letter) ==
    IF letter \in ToSet(Searched) THEN SelectInSeq(Searched, LAMBDA l : l = letter) ELSE 8

ValueAt(text) ==
    LET valued == {k \in DOMAIN text : text[k] \in {"p", "f", "j"}}
    IN  IF valued = {} THEN Len(text) + 1 ELSE Min(valued)

Shorts == {i \in DOMAIN words : words[i].form = "short"}
Longs(name) == {i \in DOMAIN words : words[i].form = "long" /\ words[i].names = {name}}
Written(letter) ==
    {i \in Shorts : \E k \in DOMAIN words[i].text :
        words[i].text[k] = letter /\ k <= ValueAt(words[i].text)}
ShortValue(i) ==
    LET text == words[i].text
    IN  IF ValueAt(text) < Len(text) THEN SubSeq(text, ValueAt(text) + 1, Len(text))
        ELSE IF i < Len(words) THEN words[i + 1].text ELSE <<>>

MeantPaths ==
    {EtcKubeka} \cup {words[i].text : i \in Longs("path")}
                \cup {ShortValue(i) : i \in Written("p") \cup Written("f")}
MeantJobs == Longs("job") \cup Written("j")
MeantJob(i) == IF i \in Shorts THEN ShortValue(i) ELSE words[i].text
Meant(name, letter) == Longs(name) \cup Written(letter) # {}

Mistaken ==
    \/ \E i \in DOMAIN words : words[i].form = "long" /\ words[i].names = {}
    \/ \E i \in Shorts : \E k \in DOMAIN words[i].text :
          k < ValueAt(words[i].text) /\ Rank(words[i].text[k]) = 8

(* What the help says must not be given together: without --lint, exactly one   *)
(* of a job and the daemon has to be; with it, both "are ignored".             *)
Contradictory ==
    /\ ~Meant("lint", "l")
    /\ \/ Cardinality(MeantJobs) > 1
       \/ MeantJobs # {} /\ Meant("daemon", "d")
       \/ MeantJobs = {} /\ ~Meant("daemon", "d")

(* What main refuses against its help (kubeka.c:168): it looks at jobs and at    *)
(* --daemon whether there is a --lint or not.                               *)
RefusedWithLint ==
    /\ Meant("lint", "l")
    /\ Cardinality(MeantJobs) > 1 \/ (MeantJobs # {} /\ Meant("daemon", "d"))

(* Command lines that say what they mean to kubeka as well: long options by     *)
(* their names, other than --file; values where they are wanted; behind a       *)
(* letter only ones that are searched for before it, and in a value none that   *)
(* are searched for before its option.                                      *)
Plain ==
    /\ \A i \in DOMAIN words :
         words[i].form = "long" => Cardinality(words[i].names) <= 1 /\ "file" \notin words[i].names
    /\ \A i \in Shorts :
         LET text == words[i].text
             v == ValueAt(text)
         IN  /\ v = Len(text) => i < Len(words) /\ words[i + 1].form = "plain"
             /\ \A k, l \in DOMAIN text :
                  /\ k < l /\ k < v /\ l <= v => Rank(text[l]) < Rank(text[k])
                  /\ v < l => Rank(text[l]) >= Rank(text[v])

AsMeant ==
    /\ ToSet(options.paths) = MeantPaths
    /\ ToSet(options.job) = {MeantJob(i) : i \in MeantJobs}
    /\ options.lint = Meant("lint", "l")
    /\ options.daemon = Meant("daemon", "d")
    /\ options.Werror = Meant("Werror", "W")

(* Reading the options always ends, and main knows what a plain command line    *)
(* asks for: it shows its help and succeeds, refuses what contradicts itself    *)
(* (and, against its help, two modes of running under --lint), or has every    *)
(* option as it was written; unless it is killed, or no daemon can be forked.   *)
Read ==
    \/ at = "gone" /\ code = 0 /\ Meant("help", "h")
    \/ at = "gone" /\ code = 1 /\ ~Meant("help", "h") /\ (Contradictory \/ RefusedWithLint)
    \/ at = "gone" /\ parent = "none" /\ Meant("daemon", "d") /\ ~Meant("lint", "l")
    \/ at = "recognise" /\ ~Meant("help", "h") /\ ~Contradictory /\ ~RefusedWithLint /\ AsMeant

OptionsAsWritten == (at = "help" /\ Plain) ~> (at = "killed" \/ Read)

(* The configuration that was asked for, as it is on the disk.                *)
Wanted ==
    {f \in DOMAIN disk.files : \E i \in DOMAIN options.paths :
        LET path == options.paths[i]
            below == SubSeq(f, Len(path) + 1, Len(f))
        IN  \/ f = path
            \/ /\ path \in DOMAIN disk.names /\ IsPrefix(path, f)
               /\ Head(below) = "/" /\ Last(below) \in Config
               /\ ToSet(below) \cap Hidden = {}}

(* Whatever the command line: something is run only if every file that is      *)
(* below a path or named is free of errors, and of warnings under -W, and no    *)
(* two nodes have the same ID.  For a plain command line, that something is     *)
(* the one job or the daemon it asks for, all of its options are known, it      *)
(* does not ask for help or --lint, and what it says of -W holds.             *)
RunsOnlyAsAsked ==
    ran # "nothing" =>
        /\ \A f \in Wanted : ~disk.files[f].broken /\ (options.Werror => ~disk.files[f].odd)
        /\ \A f, g \in Wanted : f # g => disk.files[f].ids \cap disk.files[g].ids = {}
        /\ Plain =>
             /\ ~Mistaken /\ ~Contradictory
             /\ ~Meant("help", "h") /\ ~Meant("lint", "l")
             /\ IF Meant("daemon", "d") THEN ran = "daemon"
                ELSE ran = "job" /\ \E i \in MeantJobs : options.job = <<MeantJob(i)>>
             /\ Meant("Werror", "W") => \A f \in Wanted : ~disk.files[f].odd
=============================================================================
