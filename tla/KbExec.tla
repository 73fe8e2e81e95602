------------------------------- MODULE KbExec -------------------------------
(***************************************************************************)
(* kbexec_shell (src/kubeka/src/kbexec.c): a command is run by a shell that   *)
(* popen starts in a forked child, and the child sends its output, and then   *)
(* its status, through a pipe to the caller.                                *)
(*                                                                         *)
(* A flow is a thread of control in kbexec.c: a thread of the program that     *)
(* goes through the commands of a node, or a forked child.  A child that        *)
(* cannot start its command returns from kbexec_shell like its parent, and so  *)
(* becomes a second flow of the program.  Processes inherit the write ends of  *)
(* pipes, and the reader sees the end of a pipe when no process has it open.  *)
(***************************************************************************)
EXTENDS Integers, Sequences, FiniteSets

CONSTANTS
    Dirs,       \* directories the nodes name
    NoDir,      \* DIRECTORY is not set
    Programs,   \* the nodes the threads of the program run, one each
    Statuses,   \* what pclose says of a command: wait statuses, or -1
    NoStatus,   \* no status yet
    Faults,     \* "user", "pipe", "fork", "setuid", "popen", "kill", "background"
    MaxFaults   \* bound: how many of them happen in one behaviour

Node == [dir : Dirs \cup {NoDir}, execs : Nat]

ASSUME ExecAssumption ==
    /\ NoDir \notin Dirs
    /\ Programs \subseteq Seq(Node)
    /\ Statuses \subseteq Int /\ 0 \in Statuses /\ NoStatus \notin Statuses
    /\ MaxFaults \in Nat

EXIT_FAILURE == 1

VARIABLES
    nodes,   \* nodes[i]: the node thread i runs
    flows,   \* threads of control, the program's threads first
    procs,   \* processes, the program first
    pipes,   \* what went through each pipe
    tmps,    \* temporary directories that exist, by number
    ntmps,   \* how many were made
    dirs,    \* directories of Dirs that exist
    nfaults  \* faults so far

vars == <<nodes, flows, procs, pipes, tmps, ntmps, dirs, nfaults>>

(* A directory in use: one of Dirs, or temporary with a number, or none.     *)
Where == [name : Dirs \cup {NoDir}, tmp : Nat]
Nowhere == [name |-> NoDir, tmp |-> 0]

Flow == [proc : Nat, node : Nat, at : Nat, forked : BOOLEAN, wdir : Where, fds1 : Nat, ret : Int,
         pc : {"next", "pipe", "fork", "close", "read", "cleanup", "return", "done",
               "chdir", "popen", "run", "report", "exit", "gone"}]
Process == [kind : {"program", "command", "background", "gone"}, holds : SUBSET Nat,
            pipe : Nat, cwd : Where]
Pipe == [status : Statuses \cup {NoStatus}, sent : BOOLEAN, ret : Statuses \cup {NoStatus}]

TypeOK ==
    /\ nodes \in Programs
    /\ flows \in Seq(Flow)
    /\ procs \in Seq(Process)
    /\ pipes \in Seq(Pipe)
    /\ tmps \subseteq 1..ntmps
    /\ dirs \subseteq Dirs
    /\ nfaults \in 0..MaxFaults

Init ==
    /\ nodes \in Programs
    /\ flows = [i \in DOMAIN nodes |->
                  [proc |-> 1, node |-> i, at |-> 1, forked |-> FALSE, wdir |-> Nowhere,
                   fds1 |-> 0, ret |-> EXIT_FAILURE, pc |-> "next"]]
    /\ procs = <<[kind |-> "program", holds |-> {}, pipe |-> 0, cwd |-> Nowhere]>>
    /\ pipes = <<>>
    /\ tmps = {} /\ ntmps = 0
    /\ dirs \in SUBSET Dirs
    /\ nfaults = 0
-----------------------------------------------------------------------------
Exists(w) == IF w.name # NoDir THEN w.name \in dirs ELSE w.tmp \in tmps

Fault(kind) ==
    /\ kind \in Faults /\ nfaults < MaxFaults
    /\ nfaults' = nfaults + 1

At(i, pc) == i \in DOMAIN flows /\ flows[i].pc = pc
Goto(i, pc) == flows' = [flows EXCEPT ![i].pc = pc]
Fail(i) == flows' = [flows EXCEPT ![i].pc = "cleanup", ![i].ret = EXIT_FAILURE]
EndProcess(p) == procs' = [procs EXCEPT ![p].kind = "gone", ![p].holds = {}]
CloseEnd(p, fd) == procs' = [procs EXCEPT ![p].holds = @ \ {fd}]

(* Fault: the name of a temporary directory may be that of an earlier one.    *)
PrepareReuses(i) ==
    /\ At(i, "next")
    /\ flows[i].at <= nodes[flows[i].node].execs
    /\ tmps' = tmps \cup {ntmps + 1}
    /\ flows' = [flows EXCEPT ![i].pc = "pipe", ![i].ret = EXIT_FAILURE, ![i].fds1 = 0,
                   ![i].wdir = [name |-> nodes[flows[i].node].dir, tmp |-> ntmps + 1]]
    /\ UNCHANGED <<nodes, procs, pipes, ntmps, dirs, nfaults>>

(* The next EXEC of the node: it looks up the user and makes a temporary       *)
(* directory when the node names none.                                      *)
Prepare(i) ==
    /\ At(i, "next")
    /\ flows[i].at <= nodes[flows[i].node].execs
    /\ LET dir == nodes[flows[i].node].dir
           new == dir = NoDir
       IN  /\ ntmps' = IF new THEN ntmps + 1 ELSE ntmps
           /\ tmps' = IF new THEN tmps \cup {ntmps + 1} ELSE tmps
           /\ flows' = [flows EXCEPT ![i].pc = "pipe", ![i].ret = EXIT_FAILURE, ![i].fds1 = 0,
                          ![i].wdir = [name |-> dir, tmp |-> IF new THEN ntmps + 1 ELSE 0]]
    /\ UNCHANGED <<nodes, procs, pipes, dirs, nfaults>>

UnknownUser(i) ==
    /\ Fault("user")
    /\ At(i, "next")
    /\ flows[i].at <= nodes[flows[i].node].execs
    /\ flows' = [flows EXCEPT ![i].pc = "cleanup", ![i].ret = EXIT_FAILURE, ![i].fds1 = 0,
                   ![i].wdir = [name |-> nodes[flows[i].node].dir, tmp |-> 0]]
    /\ UNCHANGED <<nodes, procs, pipes, tmps, ntmps, dirs>>

(* A thread goes on to its next node; a duplicate is done as well.            *)
Finish(i) ==
    /\ At(i, "next")
    /\ flows[i].at > nodes[flows[i].node].execs
    /\ Goto(i, "done")
    /\ UNCHANGED <<nodes, procs, pipes, tmps, ntmps, dirs, nfaults>>

MakePipe(i) ==
    /\ At(i, "pipe")
    /\ LET fd == Len(pipes) + 1
       IN  /\ pipes' = Append(pipes, [status |-> NoStatus, sent |-> FALSE, ret |-> NoStatus])
           /\ procs' = [procs EXCEPT ![flows[i].proc].holds = @ \cup {fd}]
           /\ flows' = [flows EXCEPT ![i].pc = "fork", ![i].fds1 = fd]
    /\ UNCHANGED <<nodes, tmps, ntmps, dirs, nfaults>>

NoPipe(i) ==
    /\ Fault("pipe")
    /\ At(i, "pipe")
    /\ Fail(i)
    /\ UNCHANGED <<nodes, procs, pipes, tmps, ntmps, dirs>>

(* The child has every descriptor the program has open at this moment.       *)
Fork(i) ==
    /\ At(i, "fork")
    /\ procs' = Append(procs, procs[flows[i].proc])
    /\ flows' = Append([flows EXCEPT ![i].pc = "close"],
                       [flows[i] EXCEPT !.proc = Len(procs) + 1, !.forked = TRUE, !.pc = "chdir"])
    /\ UNCHANGED <<nodes, pipes, tmps, ntmps, dirs, nfaults>>

NoFork(i) ==
    /\ Fault("fork")
    /\ At(i, "fork")
    /\ Fail(i)
    /\ UNCHANGED <<nodes, procs, pipes, tmps, ntmps, dirs>>

(* The parent                                                               *)

(* Fault: the parent keeps its own write end open.                           *)
CloseNothing(i) ==
    /\ At(i, "close")
    /\ Goto(i, "read")
    /\ UNCHANGED <<nodes, procs, pipes, tmps, ntmps, dirs, nfaults>>

CloseWriteEnd(i) ==
    /\ At(i, "close")
    /\ CloseEnd(flows[i].proc, flows[i].fds1)
    /\ Goto(i, "read")
    /\ UNCHANGED <<nodes, pipes, tmps, ntmps, dirs, nfaults>>

(* Faults: the parent reads until the pipe is empty for the moment, or until   *)
(* the status has come.                                                     *)
ReadUntil(i, cond) ==
    /\ At(i, "read")
    /\ cond
    /\ \E s \in Statuses :
         /\ pipes[flows[i].fds1].sent => s = pipes[flows[i].fds1].status
         /\ flows' = [flows EXCEPT ![i].pc = "cleanup", ![i].ret = s]
         /\ pipes' = [pipes EXCEPT ![flows[i].fds1].ret = s]
    /\ UNCHANGED <<nodes, procs, tmps, ntmps, dirs, nfaults>>

ReadWhatIsThere(i) == ReadUntil(i, TRUE)
ReadUntilStatus(i) ==
    ReadUntil(i, i \in DOMAIN flows /\ flows[i].fds1 \in DOMAIN pipes /\ pipes[flows[i].fds1].sent)

(* The last bytes before the end of the pipe are taken for the status,        *)
(* whether the child has sent it or not (when nothing was sent at all, they   *)
(* are outside the buffer).                                                 *)
EndOfFile(i) ==
    /\ At(i, "read")
    /\ LET fd == flows[i].fds1
       IN  /\ \A p \in DOMAIN procs : fd \notin procs[p].holds
           /\ \E s \in Statuses :
                /\ pipes[fd].sent => s = pipes[fd].status
                /\ flows' = [flows EXCEPT ![i].pc = "cleanup", ![i].ret = s]
                /\ pipes' = [pipes EXCEPT ![fd].ret = s]
    /\ UNCHANGED <<nodes, procs, tmps, ntmps, dirs, nfaults>>

(* The child                                                                *)

SetUser(i) ==
    /\ Fault("setuid")
    /\ At(i, "chdir")
    /\ Fail(i)
    /\ UNCHANGED <<nodes, procs, pipes, tmps, ntmps, dirs>>

ChangeDirectory(i) ==
    /\ At(i, "chdir")
    /\ IF Exists(flows[i].wdir) THEN Goto(i, "popen") ELSE Fail(i)
    /\ UNCHANGED <<nodes, procs, pipes, tmps, ntmps, dirs, nfaults>>

(* The shell has the child's descriptors too.                               *)
StartCommand(i) ==
    /\ At(i, "popen")
    /\ procs' = Append(procs, [procs[flows[i].proc] EXCEPT !.kind = "command",
                                 !.pipe = flows[i].fds1, !.cwd = flows[i].wdir])
    /\ Goto(i, "run")
    /\ UNCHANGED <<nodes, pipes, tmps, ntmps, dirs, nfaults>>

NoCommand(i) ==
    /\ Fault("popen")
    /\ At(i, "popen")
    /\ Fail(i)
    /\ UNCHANGED <<nodes, procs, pipes, tmps, ntmps, dirs>>

SendStatus(i) ==
    /\ At(i, "report")
    /\ pipes' = [pipes EXCEPT ![flows[i].fds1].sent = TRUE]
    /\ Goto(i, "exit")
    /\ UNCHANGED <<nodes, procs, tmps, ntmps, dirs, nfaults>>

Exit(i) ==
    /\ At(i, "exit")
    /\ EndProcess(flows[i].proc)
    /\ Goto(i, "gone")
    /\ UNCHANGED <<nodes, pipes, tmps, ntmps, dirs, nfaults>>

(* The child may be killed after it has started its command, which goes on.   *)
Kill(i) ==
    /\ Fault("kill")
    /\ At(i, "run") \/ At(i, "report")
    /\ EndProcess(flows[i].proc)
    /\ Goto(i, "gone")
    /\ UNCHANGED <<nodes, pipes, tmps, ntmps, dirs>>

(* Cleanup, of a caller and of a child that could not start its command: the  *)
(* directory goes, whoever made it; and kbbi_run takes the next EXEC.        *)

(* Fault: rm -rf /tmp/node-*.                                               *)
RemoveAll(i) ==
    /\ At(i, "cleanup")
    /\ tmps' = {}
    /\ dirs' = dirs \ {flows[i].wdir.name}
    /\ Goto(i, "return")
    /\ UNCHANGED <<nodes, procs, pipes, ntmps, nfaults>>

RemoveDirectory(i) ==
    /\ At(i, "cleanup")
    /\ tmps' = tmps \ {flows[i].wdir.tmp}
    /\ dirs' = dirs \ {flows[i].wdir.name}
    /\ Goto(i, "return")
    /\ UNCHANGED <<nodes, procs, pipes, ntmps, nfaults>>

(* Fault: the descriptors are not closed after an error.                      *)
ReturnLeaks(i) ==
    /\ At(i, "return")
    /\ flows' = [flows EXCEPT ![i].pc = "next", ![i].at = @ + 1]
    /\ UNCHANGED <<nodes, procs, pipes, tmps, ntmps, dirs, nfaults>>

Return(i) ==
    /\ At(i, "return")
    /\ CloseEnd(flows[i].proc, flows[i].fds1)
    /\ flows' = [flows EXCEPT ![i].pc = "next", ![i].at = @ + 1]
    /\ UNCHANGED <<nodes, pipes, tmps, ntmps, dirs, nfaults>>

(* Commands                                                                 *)

(* The shell ends with a status, which pclose gives to the child (if it is     *)
(* still there).  A command may leave a background process behind, which      *)
(* keeps the descriptors.                                                   *)
CommandEnds(p, status) ==
    /\ p \in DOMAIN procs /\ procs[p].kind = "command"
    /\ pipes' = [pipes EXCEPT ![procs[p].pipe].status = status]
    /\ flows' = [j \in DOMAIN flows |->
                    IF flows[j].pc = "run" /\ flows[j].fds1 = procs[p].pipe
                    THEN [flows[j] EXCEPT !.pc = "report"] ELSE flows[j]]
    /\ \/ EndProcess(p) /\ nfaults' = nfaults
       \/ Fault("background") /\ procs' = [procs EXCEPT ![p].kind = "background"]
    /\ UNCHANGED <<nodes, tmps, ntmps, dirs>>

(* What a duplicate does when it is through depends on the workflow: its       *)
(* process ends with main, or with the last period of the entrypoint.        *)
DuplicateEnds(i) ==
    /\ At(i, "done") /\ flows[i].forked
    /\ EndProcess(flows[i].proc)
    /\ Goto(i, "gone")
    /\ UNCHANGED <<nodes, pipes, tmps, ntmps, dirs, nfaults>>

BackgroundEnds(p) ==
    /\ p \in DOMAIN procs /\ procs[p].kind = "background"
    /\ EndProcess(p)
    /\ UNCHANGED <<nodes, flows, pipes, tmps, ntmps, dirs, nfaults>>
-----------------------------------------------------------------------------
FlowStep(i) ==
    \/ Prepare(i) \/ UnknownUser(i) \/ Finish(i) \/ MakePipe(i) \/ NoPipe(i) \/ Fork(i) \/ NoFork(i)
    \/ CloseWriteEnd(i) \/ EndOfFile(i)
    \/ SetUser(i) \/ ChangeDirectory(i) \/ StartCommand(i) \/ NoCommand(i) \/ SendStatus(i) \/ Exit(i)
    \/ RemoveDirectory(i) \/ Return(i)

OwnStep == \E i \in DOMAIN flows : FlowStep(i)

(* The steps that may never come.                                           *)
LongStep ==
    \/ \E i \in DOMAIN flows : DuplicateEnds(i)
    \/ \E p \in DOMAIN procs : (\E s \in Statuses : CommandEnds(p, s)) \/ BackgroundEnds(p)

Next ==
    \/ OwnStep
    \/ \E i \in DOMAIN flows : Kill(i)
    \/ LongStep

(* No flow goes round in circles, so it is enough that one of those that can   *)
(* take a step does: the kernel runs every process.  Commands, and the rest   *)
(* of a duplicate, are taken to end.                                        *)
Spec == Init /\ [][Next]_vars /\ WF_vars(OwnStep) /\ WF_vars(LongStep)
-----------------------------------------------------------------------------
Returned(fd) == pipes[fd].ret # NoStatus
Runs(p) == procs[p].kind = "command"

(* A child that has sent the status has it taken for what it is, and a status *)
(* is never taken from a command that is still running: whatever closes the    *)
(* pipe early, or is forked between pipe and close.                         *)
StatusIsCommands ==
    \A fd \in DOMAIN pipes : Returned(fd) =>
        /\ pipes[fd].sent => pipes[fd].ret = pipes[fd].status
        /\ \A p \in DOMAIN procs : ~(Runs(p) /\ procs[p].pipe = fd)

(* When a call is over nobody can write to its pipe any more, neither a       *)
(* command nor what it left behind; and between its calls the program itself  *)
(* has no descriptor left over from one of them, whichever way they went.     *)
NoWriterAfterReturn ==
    /\ \A fd \in DOMAIN pipes : Returned(fd) => \A p \in DOMAIN procs : fd \notin procs[p].holds
    /\ \A fd \in procs[1].holds : \E i \in DOMAIN flows :
         /\ flows[i].proc = 1 /\ flows[i].fds1 = fd
         /\ flows[i].pc \in {"fork", "close", "cleanup", "return"}

(* No command is started for a temporary directory that is gone, and none is  *)
(* removed under a command that runs in it.                                 *)
TemporaryStays ==
    \A p \in DOMAIN procs : Runs(p) /\ procs[p].cwd.name = NoDir => Exists(procs[p].cwd)

(* Every thread of the program gets through its commands if they end, and     *)
(* only temporary directories of none remain.                               *)
AllCallsReturn ==
    <>(/\ \A i \in DOMAIN nodes : flows[i].pc = "done"
       /\ tmps = {})

(* kbexec.c, step 7: "Child exits() with the return code of the spawned        *)
(* process": it never returns into the program that called kbexec_shell.     *)
ForkedExits == \A i \in DOMAIN flows : flows[i].forked => flows[i].pc \notin {"next", "done"}
=============================================================================
