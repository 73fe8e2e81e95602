---------------------------- MODULE KbExecProofs ----------------------------
(***************************************************************************)
(* The invariant of kbexec_shell, for any threads, commands and number of    *)
(* faults: who holds the write end of a pipe, and who uses a temporary        *)
(* directory.  A child, and the command it starts, hold the end from the      *)
(* fork on; so the caller cannot see the end of the pipe, and cannot go on to  *)
(* remove the directory, before both have let go of it.                     *)
(***************************************************************************)
EXTENDS KbExec, TLAPS

(* A flow that is in a call of kbexec_shell, and a child in the part of it     *)
(* that its parent is waiting for.                                          *)
Calling(i) == flows[i].pc \notin {"next", "done", "gone"}
Working(i) == flows[i].pc \in {"chdir", "popen", "run", "report"}

FlowOK(i) ==
    /\ flows[i].proc \in DOMAIN procs
    /\ flows[i].node \in DOMAIN nodes
    /\ flows[i].fds1 <= Len(pipes)
    /\ flows[i].wdir.tmp <= ntmps
    /\ Working(i) \/ flows[i].pc \in {"exit", "gone"} => flows[i].proc # 1
    /\ flows[i].pc # "gone" => procs[flows[i].proc].kind = "program"
    /\ Working(i) \/ flows[i].pc = "fork" => flows[i].fds1 \in procs[flows[i].proc].holds
    /\ flows[i].pc \in {"close", "read"} => flows[i].fds1 > 0
    /\ flows[i].pc \in {"pipe", "fork", "chdir", "popen"} /\ flows[i].wdir.name = NoDir => flows[i].wdir.tmp > 0
    /\ flows[i].pc = "popen" /\ flows[i].wdir.name = NoDir => flows[i].wdir.tmp \in tmps

ForkedOK(i) == flows[i].forked => flows[i].proc # 1

(* Only the threads of the program share a process, and they share no pipe;   *)
(* a temporary directory is used by one call, which has a parent and a child.  *)
Apart(i, j) ==
    /\ flows[i].proc = flows[j].proc =>
         flows[i].proc = 1 /\ (flows[i].fds1 = 0 \/ flows[i].fds1 # flows[j].fds1)
    /\ Calling(i) /\ Calling(j) /\ flows[i].wdir.tmp > 0 /\ flows[i].wdir.tmp = flows[j].wdir.tmp =>
         /\ flows[i].fds1 = flows[j].fds1
         /\ flows[i].pc \notin {"pipe", "fork"}
         /\ Working(i) => flows[j].pc \in {"close", "read"}

ProcOK(p) ==
    /\ procs[p].holds \subseteq DOMAIN pipes
    /\ Runs(p) => procs[p].pipe \in procs[p].holds
    /\ Runs(p) /\ procs[p].cwd.name = NoDir => procs[p].cwd.tmp \in tmps

(* The flows that use the directory of a running command wait for it.         *)
Waiting(p, j) ==
    Runs(p) /\ procs[p].cwd.name = NoDir /\ Calling(j) /\ flows[j].wdir.tmp = procs[p].cwd.tmp =>
        /\ flows[j].fds1 = procs[p].pipe
        /\ flows[j].pc \in {"close", "read", "run", "report", "exit"}

PipeOK(fd) ==
    Returned(fd) =>
        /\ \A p \in DOMAIN procs : fd \notin procs[p].holds
        /\ pipes[fd].sent => pipes[fd].ret = pipes[fd].status

ProgramHolds(fd) ==
    \E i \in DOMAIN flows :
        /\ flows[i].proc = 1 /\ flows[i].fds1 = fd
        /\ flows[i].pc \in {"fork", "close", "cleanup", "return"}

Inv ==
    /\ TypeOK
    /\ ntmps \in Nat
    /\ 1 \in DOMAIN procs /\ procs[1].kind = "program"
    /\ \A i \in DOMAIN flows : FlowOK(i) /\ ForkedOK(i)
    /\ \A i, j \in DOMAIN flows : i # j => Apart(i, j)
    /\ \A p \in DOMAIN procs : ProcOK(p)
    /\ \A p \in DOMAIN procs : \A j \in DOMAIN flows : Waiting(p, j)
    /\ \A fd \in DOMAIN pipes : PipeOK(fd)
    /\ \A fd \in procs[1].holds : ProgramHolds(fd)
-----------------------------------------------------------------------------
LEMMA Typed ==
    ASSUME TypeOK
    PROVE  /\ flows \in Seq(Flow) /\ procs \in Seq(Process) /\ pipes \in Seq(Pipe)
           /\ Len(flows) \in Nat /\ Len(procs) \in Nat /\ Len(pipes) \in Nat
           /\ DOMAIN flows = 1..Len(flows) /\ DOMAIN procs = 1..Len(procs) /\ DOMAIN pipes = 1..Len(pipes)
           /\ \A i \in DOMAIN flows :
                 /\ flows[i] \in Flow /\ flows[i].proc \in Nat /\ flows[i].fds1 \in Nat
                 /\ flows[i].wdir \in Where /\ flows[i].wdir.tmp \in Nat
           /\ \A p \in DOMAIN procs :
                 /\ procs[p] \in Process /\ procs[p].pipe \in Nat /\ procs[p].holds \subseteq Nat
                 /\ procs[p].cwd \in Where /\ procs[p].cwd.tmp \in Nat
           /\ \A fd \in DOMAIN pipes : pipes[fd] \in Pipe
<1>1. flows \in Seq(Flow) /\ procs \in Seq(Process) /\ pipes \in Seq(Pipe)
    BY DEF TypeOK
<1>2. /\ \A i \in DOMAIN flows : flows[i] \in Flow
      /\ \A p \in DOMAIN procs : procs[p] \in Process
      /\ \A fd \in DOMAIN pipes : pipes[fd] \in Pipe
    BY <1>1
<1>3. \A i \in DOMAIN flows : /\ flows[i].proc \in Nat /\ flows[i].fds1 \in Nat
                              /\ flows[i].wdir \in Where /\ flows[i].wdir.tmp \in Nat
    BY <1>2 DEF Flow, Where
<1>4. \A p \in DOMAIN procs : /\ procs[p].pipe \in Nat /\ procs[p].holds \subseteq Nat
                              /\ procs[p].cwd \in Where /\ procs[p].cwd.tmp \in Nat
    BY <1>2 DEF Process, Where
<1>5. QED  BY <1>1, <1>2, <1>3, <1>4

(* Flow i goes to pc, and keeps its call.                                   *)
Moved(i, pc) ==
    /\ DOMAIN flows' = DOMAIN flows
    /\ \A j \in DOMAIN flows : j # i => flows'[j] = flows[j]
    /\ flows'[i].pc = pc
    /\ flows'[i].proc = flows[i].proc /\ flows'[i].node = flows[i].node /\ flows'[i].forked = flows[i].forked
    /\ flows'[i].fds1 = flows[i].fds1 /\ flows'[i].wdir = flows[i].wdir

LEMMA Moves ==
    ASSUME TypeOK, NEW i \in DOMAIN flows, NEW pc,
           \/ Goto(i, pc)
           \/ \E r : flows' = [flows EXCEPT ![i].pc = pc, ![i].ret = r]
           \/ \E a : flows' = [flows EXCEPT ![i].pc = pc, ![i].at = a]
    PROVE  Moved(i, pc)
<1>1. flows \in Seq(Flow) /\ flows[i] \in Flow
    BY Typed
<1>2. \A x, y : LET g == [flows EXCEPT ![i] = x]
               IN  /\ DOMAIN g = DOMAIN flows /\ g[i] = x
                   /\ \A j \in DOMAIN flows : j # i => g[j] = flows[j]
    BY <1>1
<1>3. /\ DOMAIN flows' = DOMAIN flows
      /\ \A j \in DOMAIN flows : j # i => flows'[j] = flows[j]
      /\ \/ flows'[i] = [flows[i] EXCEPT !.pc = pc]
         \/ \E r : flows'[i] = [flows[i] EXCEPT !.pc = pc, !.ret = r]
         \/ \E a : flows'[i] = [flows[i] EXCEPT !.pc = pc, !.at = a]
    BY <1>1, <1>2 DEF Goto
<1> DEFINE Same(g, f) == /\ g.pc = pc /\ g.proc = f.proc /\ g.node = f.node /\ g.forked = f.forked
                       /\ g.fds1 = f.fds1 /\ g.wdir = f.wdir
<1>4. \A f \in Flow : \A x : /\ Same([f EXCEPT !.pc = pc], f)
                            /\ Same([f EXCEPT !.pc = pc, !.ret = x], f)
                            /\ Same([f EXCEPT !.pc = pc, !.at = x], f)
    BY DEF Flow
<1>5. Same(flows'[i], flows[i])
  <2> HIDE DEF Same
  <2>1. CASE flows'[i] = [flows[i] EXCEPT !.pc = pc]
      BY <1>1, <1>4, <2>1, Zenon
  <2>2. ASSUME NEW r, flows'[i] = [flows[i] EXCEPT !.pc = pc, !.ret = r] PROVE Same(flows'[i], flows[i])
      BY <1>1, <1>4, <2>2, ZenonT(30)
  <2>3. ASSUME NEW a, flows'[i] = [flows[i] EXCEPT !.pc = pc, !.at = a] PROVE Same(flows'[i], flows[i])
    <3>1. Same([flows[i] EXCEPT !.pc = pc, !.at = a], flows[i])
        BY <1>1, <1>4, Zenon
    <3>2. QED  BY <2>3, <3>1, Zenon
  <2>4. QED  BY <1>3, <2>1, <2>2, <2>3, Zenon
<1>6. QED  BY <1>3, <1>5, Zenon DEF Moved

(* What a step of flow i leaves of the others when it begins nothing, does    *)
(* not stop waiting while the pipe is open, and starts no command.          *)
CommandsKept ==
    \A p \in DOMAIN procs' : Runs(p)' =>
        /\ p \in DOMAIN procs /\ Runs(p)
        /\ procs'[p].pipe = procs[p].pipe /\ procs'[p].cwd = procs[p].cwd

LEMMA MovedKeeps ==
    ASSUME Inv, NEW i \in DOMAIN flows, NEW pc, Moved(i, pc), CommandsKept,
           \/ pc \in {"next", "done", "gone"}
           \/ /\ Calling(i) /\ pc \notin {"pipe", "fork"}
              /\ pc \in {"chdir", "popen", "run", "report"} => Working(i)
              /\ \/ flows[i].pc \in {"close", "read"} => pc \in {"close", "read"}
                 \/ \A p \in DOMAIN procs : flows[i].fds1 \notin procs[p].holds
              /\ flows[i].pc \in {"run", "report", "exit"} => pc \in {"run", "report", "exit"}
    PROVE  /\ \A j \in DOMAIN flows : ForkedOK(j)'
           /\ \A j, k \in DOMAIN flows : j # k => Apart(j, k)'
           /\ \A p \in DOMAIN procs' : \A j \in DOMAIN flows : Waiting(p, j)'
<1>1. ASSUME NEW j \in DOMAIN flows PROVE ForkedOK(j)'
  <2>1. ForkedOK(j) /\ flows'[j].forked = flows[j].forked /\ flows'[j].proc = flows[j].proc
      BY Zenon DEF Inv, Moved
  <2>2. QED  BY <2>1, Zenon DEF ForkedOK
<1>2. ASSUME NEW j \in DOMAIN flows, NEW k \in DOMAIN flows, j # k PROVE Apart(j, k)'
  <2>1. Apart(j, k) /\ Apart(k, j)
      BY <1>2 DEF Inv
  <2>2. CASE j # i /\ k # i
    <3>1. flows'[j] = flows[j] /\ flows'[k] = flows[k]
        BY <2>2 DEF Moved
    <3>2. QED  BY <2>1, <3>1 DEF Apart, Working, Calling
  <2>3. CASE j = i
    <3>1. flows'[k] = flows[k]
        BY <1>2, <2>3 DEF Moved
    <3>2. QED  BY <2>1, <2>3, <3>1 DEF Moved, Apart, Working, Calling
  <2>4. CASE k = i
    <3>1. flows'[j] = flows[j]
        BY <1>2, <2>4 DEF Moved
    <3>2. Working(j) => flows[j].fds1 \in procs[flows[j].proc].holds /\ flows[j].proc \in DOMAIN procs
        BY DEF Inv, FlowOK
    <3>3. QED  BY <2>1, <2>4, <3>1, <3>2 DEF Moved, Apart, Working, Calling
  <2>5. QED  BY <2>2, <2>3, <2>4
<1>3. ASSUME NEW p \in DOMAIN procs', NEW j \in DOMAIN flows PROVE Waiting(p, j)'
  <2>1. Runs(p)' => Waiting(p, j) /\ Runs(p) /\ procs'[p].pipe = procs[p].pipe /\ procs'[p].cwd = procs[p].cwd
      BY DEF Inv, CommandsKept
  <2>2. CASE j # i
    <3>1. flows'[j] = flows[j]
        BY <2>2 DEF Moved
    <3>2. QED  BY <2>1, <3>1 DEF Waiting, Calling
  <2>3. CASE j = i
    <3>1. Runs(p)' => p \in DOMAIN procs /\ procs[p].pipe \in procs[p].holds
        BY DEF Inv, CommandsKept, ProcOK
    <3>2. QED  BY <2>1, <2>3, <3>1 DEF Moved, Waiting, Calling
  <2>4. QED  BY <2>2, <2>3
<1>4. QED  BY <1>1, <1>2, <1>3

(* The program holds no more than it did, and flow i what it held.            *)
LEMMA HoldsKept ==
    ASSUME Inv, NEW i \in DOMAIN flows, NEW pc, Moved(i, pc), procs'[1].holds \subseteq procs[1].holds,
           /\ flows[i].proc = 1 /\ flows[i].pc \in {"fork", "close", "cleanup", "return"}
           => pc \in {"fork", "close", "cleanup", "return"} \/ flows[i].fds1 \notin procs'[1].holds
    PROVE  \A fd \in procs'[1].holds : ProgramHolds(fd)'
<1> SUFFICES ASSUME NEW fd \in procs'[1].holds PROVE ProgramHolds(fd)'
    OBVIOUS
<1>1. PICK k \in DOMAIN flows : /\ flows[k].proc = 1 /\ flows[k].fds1 = fd
                               /\ flows[k].pc \in {"fork", "close", "cleanup", "return"}
    BY DEF Inv, ProgramHolds
<1>2. CASE k # i
  <2>1. flows'[k] = flows[k] /\ k \in DOMAIN flows'
      BY <1>2 DEF Moved
  <2>2. QED  BY <1>1, <2>1 DEF ProgramHolds
<1>3. CASE k = i
  <2>1. /\ flows'[i].pc \in {"fork", "close", "cleanup", "return"} /\ i \in DOMAIN flows'
        /\ flows'[i].proc = 1 /\ flows'[i].fds1 = fd
      BY <1>1, <1>3 DEF Moved
  <2>2. QED  BY <2>1 DEF ProgramHolds
<1>4. QED  BY <1>2, <1>3

(* A flow that goes on within its call, or is done.                          *)
LEMMA MoveInv ==
    ASSUME Inv, TypeOK', NEW i,
           \/ Finish(i) \/ NoPipe(i) \/ NoFork(i) \/ SetUser(i) \/ ChangeDirectory(i) \/ NoCommand(i)
           \/ RemoveDirectory(i)
    PROVE  Inv'
<1>1. /\ TypeOK /\ i \in DOMAIN flows /\ UNCHANGED <<nodes, procs, pipes, ntmps>>
      /\ \/ tmps' = tmps
         \/ flows[i].pc = "cleanup" /\ tmps' = tmps \ {flows[i].wdir.tmp}
    BY DEF Inv, At, Finish, NoPipe, NoFork, SetUser, ChangeDirectory, NoCommand, RemoveDirectory
<1>2. PICK pc :
        /\ Moved(i, pc)
        /\ \/ flows[i].pc = "next" /\ pc = "done"
           \/ flows[i].pc \in {"pipe", "fork", "chdir", "popen"} /\ pc = "cleanup"
           \/ flows[i].pc = "chdir" /\ pc = "popen" /\ Exists(flows[i].wdir) /\ tmps' = tmps
           \/ flows[i].pc = "cleanup" /\ pc = "return"
  <2>1. CASE Finish(i)
      BY <1>1, <2>1, Moves DEF Finish, At
  <2>2. CASE NoPipe(i) \/ NoFork(i) \/ SetUser(i) \/ NoCommand(i)
      BY <1>1, <2>2, Moves DEF NoPipe, NoFork, SetUser, NoCommand, At, Fail
  <2>3. CASE ChangeDirectory(i) /\ Exists(flows[i].wdir)
      BY <1>1, <2>3, Moves DEF ChangeDirectory, At
  <2>4. CASE ChangeDirectory(i) /\ ~Exists(flows[i].wdir)
      BY <1>1, <2>4, Moves DEF ChangeDirectory, At, Fail
  <2>5. CASE RemoveDirectory(i)
      BY <1>1, <2>5, Moves DEF RemoveDirectory, At
  <2>6. QED  BY <2>1, <2>2, <2>3, <2>4, <2>5
<1>3. ASSUME NEW j \in DOMAIN flows PROVE FlowOK(j)'
  <2>1. CASE j # i
    <3>1. flows'[j] = flows[j] /\ FlowOK(j)
        BY <1>2, <2>1 DEF Moved, Inv
    <3>2. flows[j].pc = "popen" /\ flows[j].wdir.name = NoDir => flows[j].wdir.tmp \in tmps'
      <4>1. CASE tmps' = tmps
          BY <3>1, <4>1 DEF FlowOK
      <4>2. CASE flows[i].pc = "cleanup" /\ tmps' = tmps \ {flows[i].wdir.tmp}
        <5>1. Apart(j, i) /\ FlowOK(j)
            BY <1>1, <2>1 DEF Inv
        <5>2. QED  BY <4>2, <5>1, Typed DEF Apart, FlowOK, Working, Calling
      <4>3. QED  BY <1>1, <4>1, <4>2
    <3>3. QED  BY <1>1, <3>1, <3>2 DEF FlowOK, Working
  <2>2. CASE j = i
    <3>1. FlowOK(i)
        BY <1>1 DEF Inv
    <3>2. QED  BY <1>1, <1>2, <2>2, <3>1, Typed DEF Moved, FlowOK, Working, Exists
  <2>3. QED  BY <2>1, <2>2
<1>4. ASSUME NEW p \in DOMAIN procs PROVE ProcOK(p)'
  <2>1. ProcOK(p) /\ Waiting(p, i)
      BY <1>1 DEF Inv
  <2>2. QED  BY <1>1, <2>1, Typed DEF ProcOK, Waiting, Calling, Runs
<1>5. /\ \A j \in DOMAIN flows : ForkedOK(j)'
      /\ \A j, k \in DOMAIN flows : j # k => Apart(j, k)'
      /\ \A p \in DOMAIN procs' : \A j \in DOMAIN flows : Waiting(p, j)'
  <2>1. CommandsKept
      BY <1>1 DEF CommandsKept, Runs
  <2>2. QED  BY <1>1, <1>2, <2>1, MovedKeeps DEF Calling, Working
<1>6. \A fd \in DOMAIN pipes : PipeOK(fd)'
    BY <1>1 DEF Inv, PipeOK, Returned
<1>7. \A fd \in procs'[1].holds : ProgramHolds(fd)'
    BY <1>1, <1>2, HoldsKept
<1>8. QED
    BY <1>1, <1>2, <1>3, <1>4, <1>5, <1>6, <1>7 DEF Inv, Moved

(* Flow i closes its write end, and nobody else's.                           *)
LEMMA CloseInv ==
    ASSUME Inv, TypeOK', NEW i, CloseWriteEnd(i) \/ Return(i)
    PROVE  Inv'
<1> DEFINE q == flows[i].proc
<1>1. /\ TypeOK /\ i \in DOMAIN flows /\ UNCHANGED <<nodes, pipes, tmps, ntmps>>
      /\ flows[i].pc \in {"close", "return"} /\ q \in DOMAIN procs /\ FlowOK(i)
      /\ CloseEnd(q, flows[i].fds1)
    BY DEF Inv, At, CloseWriteEnd, Return, FlowOK
<1>2. PICK pc : /\ Moved(i, pc)
                /\ \/ flows[i].pc = "close" /\ pc = "read"
                   \/ flows[i].pc = "return" /\ pc = "next"
  <2>1. CASE CloseWriteEnd(i)
      BY <1>1, <2>1, Moves DEF CloseWriteEnd, At
  <2>2. CASE Return(i)
    <3>1. flows' = [flows EXCEPT ![i].pc = "next", ![i].at = flows[i].at + 1] /\ flows[i].pc = "return"
        BY <1>1, <2>2, Typed DEF Return, At
    <3>2. QED  BY <1>1, <3>1, Moves
  <2>3. QED  BY <2>1, <2>2
<1>3. /\ DOMAIN procs' = DOMAIN procs /\ \A p \in DOMAIN procs : p # q => procs'[p] = procs[p]
      /\ procs'[q].holds = procs[q].holds \ {flows[i].fds1}
      /\ procs'[q].kind = procs[q].kind /\ procs'[q].pipe = procs[q].pipe /\ procs'[q].cwd = procs[q].cwd
  <2>1. procs[q] \in Process /\ procs \in Seq(Process)
      BY <1>1, Typed
  <2>2. QED  BY <1>1, <2>1 DEF CloseEnd, Process
<1>4. procs[q].kind = "program"
    BY <1>1 DEF FlowOK
<1>5. ASSUME NEW j \in DOMAIN flows PROVE FlowOK(j)'
  <2>1. FlowOK(j) /\ (j # i => Apart(i, j)) /\ flows[j].fds1 \in Nat /\ flows[i].fds1 \in Nat
      BY <1>1, Typed DEF Inv
  <2>2. procs'[flows[j].proc].kind = procs[flows[j].proc].kind
      BY <1>3, <2>1 DEF FlowOK
  <2>3. CASE j # i
    <3>1. flows'[j] = flows[j]
        BY <1>2, <2>3 DEF Moved
    <3>2. Working(j) \/ flows[j].pc = "fork" => flows[j].fds1 \in procs'[flows[j].proc].holds
      <4> SUFFICES ASSUME Working(j) \/ flows[j].pc = "fork"
                   PROVE  flows[j].fds1 \in procs'[flows[j].proc].holds
          OBVIOUS
      <4>1. flows[j].fds1 \in procs[flows[j].proc].holds /\ flows[j].proc \in DOMAIN procs
          BY <2>1 DEF FlowOK
      <4>2. CASE flows[j].proc = q
        <5>1. flows[i].fds1 = 0 \/ flows[i].fds1 # flows[j].fds1
            BY <2>1, <2>3, <4>2 DEF Apart
        <5>2. ProcOK(q)
            BY <1>1 DEF Inv
        <5>3. 0 \notin DOMAIN pipes
            BY <1>1, Typed
        <5>4. QED  BY <1>3, <4>1, <4>2, <5>1, <5>2, <5>3 DEF ProcOK
      <4>3. CASE flows[j].proc # q
          BY <1>3, <4>1, <4>3
      <4>4. QED  BY <4>2, <4>3
    <3>3. QED  BY <1>1, <1>3, <2>1, <2>2, <3>1, <3>2 DEF FlowOK, Working
  <2>4. CASE j = i
    <3>1. flows'[i].proc = q /\ flows'[i].node = flows[i].node /\ flows'[i].fds1 = flows[i].fds1
        /\ flows'[i].wdir = flows[i].wdir /\ flows'[i].pc \in {"read", "next"}
        BY <1>2 DEF Moved
    <3>2. flows'[i].pc = "read" => flows[i].fds1 > 0
        BY <1>2, <2>1, <2>4 DEF Moved, FlowOK
    <3>3. QED  BY <1>1, <1>3, <2>1, <2>2, <2>4, <3>1, <3>2 DEF FlowOK, Working
  <2>5. QED  BY <2>3, <2>4
<1>6. ASSUME NEW p \in DOMAIN procs PROVE ProcOK(p)'
  <2>1. ProcOK(p)
      BY DEF Inv
  <2>2. CASE p # q
      BY <1>1, <1>3, <2>1, <2>2 DEF ProcOK, Runs
  <2>3. CASE p = q
      BY <1>1, <1>3, <1>4, <2>1, <2>3 DEF ProcOK, Runs
  <2>4. QED  BY <2>2, <2>3
<1>7. /\ \A j \in DOMAIN flows : ForkedOK(j)'
      /\ \A j, k \in DOMAIN flows : j # k => Apart(j, k)'
      /\ \A p \in DOMAIN procs' : \A j \in DOMAIN flows : Waiting(p, j)'
  <2>1. CommandsKept
    <3>1. \A p \in DOMAIN procs : /\ procs'[p].kind = procs[p].kind /\ procs'[p].pipe = procs[p].pipe
                                  /\ procs'[p].cwd = procs[p].cwd
        BY <1>3
    <3>2. QED  BY <1>3, <3>1 DEF CommandsKept, Runs
  <2>2. QED  BY <1>1, <1>2, <2>1, MovedKeeps DEF Calling, Working
<1>8. ASSUME NEW p \in DOMAIN procs PROVE procs'[p].holds \subseteq procs[p].holds
    BY <1>3
<1>9. \A fd \in DOMAIN pipes : PipeOK(fd)'
    BY <1>1, <1>3, <1>8 DEF Inv, PipeOK, Returned
<1>10. \A fd \in procs'[1].holds : ProgramHolds(fd)'
  <2>1. procs'[1].holds \subseteq procs[1].holds
      BY <1>8 DEF Inv
  <2>2. q = 1 => flows[i].fds1 \notin procs'[1].holds
      BY <1>3
  <2>3. QED  BY <1>1, <1>2, <2>1, <2>2, HoldsKept
<1>11. 1 \in DOMAIN procs' /\ procs'[1].kind = "program"
    BY <1>3, <1>4 DEF Inv
<1>12. QED
    BY <1>1, <1>2, <1>3, <1>5, <1>6, <1>7, <1>9, <1>10, <1>11 DEF Inv, Moved

(* The caller sees the end of the pipe: nobody holds it any more.             *)
LEMMA EndOfFileInv ==
    ASSUME Inv, TypeOK', NEW i, EndOfFile(i)
    PROVE  Inv'
<1> DEFINE fd == flows[i].fds1
<1>1. /\ TypeOK /\ i \in DOMAIN flows /\ UNCHANGED <<nodes, procs, tmps, ntmps>>
      /\ flows[i].pc = "read" /\ FlowOK(i) /\ \A p \in DOMAIN procs : fd \notin procs[p].holds
    BY DEF Inv, At, EndOfFile
<1>2. PICK s \in Statuses :
        /\ pipes[fd].sent => s = pipes[fd].status
        /\ flows' = [flows EXCEPT ![i].pc = "cleanup", ![i].ret = s]
        /\ pipes' = [pipes EXCEPT ![fd].ret = s]
    BY DEF EndOfFile
<1>3. Moved(i, "cleanup")
    BY <1>1, <1>2, Moves
<1>4. /\ DOMAIN pipes' = DOMAIN pipes /\ Len(pipes') = Len(pipes)
      /\ \A x \in DOMAIN pipes : x # fd => pipes'[x] = pipes[x]
      /\ fd \in DOMAIN pipes => /\ pipes'[fd].sent = pipes[fd].sent /\ pipes'[fd].status = pipes[fd].status
                               /\ pipes'[fd].ret = s
  <2>1. pipes \in Seq(Pipe)
      BY <1>1, Typed
  <2>2. fd \in DOMAIN pipes => pipes'[fd] = [pipes[fd] EXCEPT !.ret = s] /\ pipes[fd] \in Pipe
      BY <1>2, <2>1
  <2>3. \A x \in Pipe : /\ [x EXCEPT !.ret = s].sent = x.sent /\ [x EXCEPT !.ret = s].status = x.status
                        /\ [x EXCEPT !.ret = s].ret = s
      BY DEF Pipe
  <2>4. DOMAIN pipes' = DOMAIN pipes /\ \A x \in DOMAIN pipes : x # fd => pipes'[x] = pipes[x]
      BY <1>2, <2>1
  <2>5. Len(pipes') = Len(pipes)
      BY <1>1, <2>4, Typed DEF TypeOK
  <2>6. QED  BY <2>2, <2>3, <2>4, <2>5, Zenon
<1>5. ASSUME NEW j \in DOMAIN flows PROVE FlowOK(j)'
  <2>1. FlowOK(j)
      BY DEF Inv
  <2>2. CASE j # i
    <3>1. flows'[j] = flows[j]
        BY <1>3, <2>2 DEF Moved
    <3>2. QED  BY <1>1, <1>4, <2>1, <3>1 DEF FlowOK, Working
  <2>3. CASE j = i
      BY <1>1, <1>3, <1>4, <2>1, <2>3 DEF FlowOK, Working, Moved
  <2>4. QED  BY <2>2, <2>3
<1>6. \A p \in DOMAIN procs : ProcOK(p)'
    BY <1>1, <1>4 DEF Inv, ProcOK, Runs
<1>7. /\ \A j \in DOMAIN flows : ForkedOK(j)'
      /\ \A j, k \in DOMAIN flows : j # k => Apart(j, k)'
      /\ \A p \in DOMAIN procs' : \A j \in DOMAIN flows : Waiting(p, j)'
  <2>1. CommandsKept
      BY <1>1 DEF CommandsKept, Runs
  <2>2. QED  BY <1>1, <1>3, <2>1, MovedKeeps DEF Calling, Working
<1>8. ASSUME NEW x \in DOMAIN pipes PROVE PipeOK(x)'
  <2>1. CASE x = fd
    <3>1. pipes'[fd].sent => pipes'[fd].ret = pipes'[fd].status
        BY <1>2, <1>4, <2>1
    <3>2. QED  BY <1>1, <2>1, <3>1 DEF PipeOK
  <2>2. CASE x # fd
    <3>1. pipes'[x] = pipes[x] /\ PipeOK(x)
        BY <1>4, <2>2 DEF Inv
    <3>2. QED  BY <1>1, <3>1 DEF PipeOK, Returned
  <2>3. QED  BY <2>1, <2>2
<1>9. \A x \in procs'[1].holds : ProgramHolds(x)'
  <2>1. procs'[1].holds \subseteq procs[1].holds
      BY <1>1
  <2>2. QED  BY <1>1, <1>3, <2>1, HoldsKept
<1>10. QED
    BY <1>1, <1>3, <1>4, <1>5, <1>6, <1>7, <1>8, <1>9 DEF Inv, Moved

(* A child that holds the pipe sends the status before the end of it is seen. *)
LEMMA SendStatusInv ==
    ASSUME Inv, TypeOK', NEW i, SendStatus(i)
    PROVE  Inv'
<1> DEFINE fd == flows[i].fds1
<1>1. /\ TypeOK /\ i \in DOMAIN flows /\ UNCHANGED <<nodes, procs, tmps, ntmps>>
      /\ flows[i].pc = "report" /\ FlowOK(i)
      /\ pipes' = [pipes EXCEPT ![fd].sent = TRUE] /\ Goto(i, "exit")
    BY DEF Inv, At, SendStatus
<1>2. Moved(i, "exit")
    BY <1>1, Moves
<1>3. /\ DOMAIN pipes' = DOMAIN pipes /\ Len(pipes') = Len(pipes)
      /\ \A x \in DOMAIN pipes : x # fd => pipes'[x] = pipes[x]
      /\ fd \in DOMAIN pipes => pipes'[fd].ret = pipes[fd].ret
  <2>1. pipes \in Seq(Pipe)
      BY <1>1, Typed
  <2>2. fd \in DOMAIN pipes => pipes'[fd] = [pipes[fd] EXCEPT !.sent = TRUE] /\ pipes[fd] \in Pipe
      BY <1>1, <2>1
  <2>3. \A x \in Pipe : [x EXCEPT !.sent = TRUE].ret = x.ret
      BY DEF Pipe
  <2>4. DOMAIN pipes' = DOMAIN pipes /\ \A x \in DOMAIN pipes : x # fd => pipes'[x] = pipes[x]
      BY <1>1, <2>1
  <2>5. Len(pipes') = Len(pipes)
      BY <1>1, <2>4, Typed DEF TypeOK
  <2>6. QED  BY <2>2, <2>3, <2>4, <2>5, Zenon
<1>4. ASSUME NEW j \in DOMAIN flows PROVE FlowOK(j)'
  <2>1. FlowOK(j)
      BY DEF Inv
  <2>2. CASE j # i
    <3>1. flows'[j] = flows[j]
        BY <1>2, <2>2 DEF Moved
    <3>2. QED  BY <1>1, <1>3, <2>1, <3>1 DEF FlowOK, Working
  <2>3. CASE j = i
      BY <1>1, <1>2, <1>3, <2>1, <2>3 DEF FlowOK, Working, Moved
  <2>4. QED  BY <2>2, <2>3
<1>5. \A p \in DOMAIN procs : ProcOK(p)'
    BY <1>1, <1>3 DEF Inv, ProcOK, Runs
<1>6. /\ \A j \in DOMAIN flows : ForkedOK(j)'
      /\ \A j, k \in DOMAIN flows : j # k => Apart(j, k)'
      /\ \A p \in DOMAIN procs' : \A j \in DOMAIN flows : Waiting(p, j)'
  <2>1. CommandsKept
      BY <1>1 DEF CommandsKept, Runs
  <2>2. QED  BY <1>1, <1>2, <2>1, MovedKeeps DEF Calling, Working
<1>7. ASSUME NEW x \in DOMAIN pipes PROVE PipeOK(x)'
  <2>1. CASE x = fd
    <3>1. fd \in procs[flows[i].proc].holds /\ flows[i].proc \in DOMAIN procs
        BY <1>1 DEF FlowOK, Working
    <3>2. ~Returned(fd)
        BY <2>1, <3>1 DEF Inv, PipeOK
    <3>3. ~(Returned(x)')
        BY <1>3, <2>1, <3>2 DEF Returned
    <3>4. QED  BY <3>3 DEF PipeOK
  <2>2. CASE x # fd
    <3>1. pipes'[x] = pipes[x] /\ PipeOK(x)
        BY <1>3, <2>2 DEF Inv
    <3>2. QED  BY <1>1, <3>1 DEF PipeOK, Returned
  <2>3. QED  BY <2>1, <2>2
<1>8. \A x \in procs'[1].holds : ProgramHolds(x)'
  <2>1. procs'[1].holds \subseteq procs[1].holds
      BY <1>1
  <2>2. QED  BY <1>1, <1>2, <2>1, HoldsKept
<1>9. QED
    BY <1>1, <1>2, <1>3, <1>4, <1>5, <1>6, <1>7, <1>8 DEF Inv, Moved

(* A forked process ends, alone in it.                                       *)
LEMMA EndInv ==
    ASSUME Inv, TypeOK', NEW i, Exit(i) \/ Kill(i) \/ DuplicateEnds(i)
    PROVE  Inv'
<1> DEFINE q == flows[i].proc
<1>1. /\ TypeOK /\ i \in DOMAIN flows /\ UNCHANGED <<nodes, pipes, tmps, ntmps>>
      /\ flows[i].pc \in {"exit", "run", "report", "done"} /\ FlowOK(i) /\ q \in DOMAIN procs
      /\ EndProcess(q) /\ Goto(i, "gone")
    BY DEF Inv, At, Exit, Kill, DuplicateEnds, FlowOK
<1>2. q # 1
  <2>1. CASE Exit(i) \/ Kill(i)
      BY <1>1, <2>1 DEF Exit, Kill, At, FlowOK, Working
  <2>2. CASE DuplicateEnds(i)
    <3>1. flows[i].forked
        BY <2>2 DEF DuplicateEnds
    <3>2. ForkedOK(i)
        BY <1>1 DEF Inv
    <3>3. QED  BY <3>1, <3>2, Zenon DEF ForkedOK
  <2>3. QED  BY <2>1, <2>2
<1>3. Moved(i, "gone")
    BY <1>1, Moves
<1>4. /\ DOMAIN procs' = DOMAIN procs /\ \A p \in DOMAIN procs : p # q => procs'[p] = procs[p]
      /\ procs'[q].holds = {} /\ procs'[q].kind = "gone"
  <2>1. procs[q] \in Process /\ procs \in Seq(Process)
      BY <1>1, Typed
  <2>2. QED  BY <1>1, <2>1 DEF EndProcess, Process
<1>5. ASSUME NEW j \in DOMAIN flows PROVE FlowOK(j)'
  <2>1. FlowOK(j) /\ (j # i => Apart(i, j))
      BY <1>1 DEF Inv
  <2>2. CASE j # i
    <3>1. flows'[j] = flows[j]
        BY <1>3, <2>2 DEF Moved
    <3>2. procs'[flows[j].proc] = procs[flows[j].proc]
        BY <1>2, <1>4, <2>1, <2>2 DEF FlowOK, Apart
    <3>3. QED  BY <1>1, <1>4, <2>1, <3>1, <3>2 DEF FlowOK, Working
  <2>3. CASE j = i
      BY <1>1, <1>2, <1>3, <1>4, <2>1, <2>3 DEF FlowOK, Working, Moved
  <2>4. QED  BY <2>2, <2>3
<1>6. ASSUME NEW p \in DOMAIN procs PROVE ProcOK(p)' /\ procs'[p].holds \subseteq procs[p].holds
  <2>1. ProcOK(p)
      BY DEF Inv
  <2>2. CASE p # q
      BY <1>1, <1>4, <2>1, <2>2 DEF ProcOK, Runs
  <2>3. CASE p = q
      BY <1>1, <1>4, <2>3 DEF ProcOK, Runs
  <2>4. QED  BY <2>2, <2>3
<1>7. /\ \A j \in DOMAIN flows : ForkedOK(j)'
      /\ \A j, k \in DOMAIN flows : j # k => Apart(j, k)'
      /\ \A p \in DOMAIN procs' : \A j \in DOMAIN flows : Waiting(p, j)'
  <2>1. CommandsKept
      BY <1>4 DEF CommandsKept, Runs
  <2>2. QED  BY <1>1, <1>3, <2>1, MovedKeeps DEF Calling, Working
<1>8. \A x \in DOMAIN pipes : PipeOK(x)'
    BY <1>1, <1>4, <1>6 DEF Inv, PipeOK, Returned
<1>9. \A x \in procs'[1].holds : ProgramHolds(x)'
  <2>1. procs'[1].holds \subseteq procs[1].holds
      BY <1>6 DEF Inv
  <2>2. QED  BY <1>1, <1>2, <1>3, <2>1, HoldsKept
<1>10. 1 \in DOMAIN procs' /\ procs'[1].kind = "program"
    BY <1>2, <1>4 DEF Inv
<1>11. QED
    BY <1>1, <1>3, <1>4, <1>5, <1>6, <1>7, <1>8, <1>9, <1>10 DEF Inv, Moved

LEMMA BackgroundEndsInv ==
    ASSUME Inv, TypeOK', NEW b, BackgroundEnds(b)
    PROVE  Inv'
<1>1. /\ TypeOK /\ b \in DOMAIN procs /\ procs[b].kind = "background"
      /\ EndProcess(b) /\ UNCHANGED <<nodes, flows, pipes, tmps, ntmps>>
    BY DEF Inv, BackgroundEnds
<1>2. b # 1 /\ \A j \in DOMAIN flows : Working(j) \/ flows[j].pc = "fork" => flows[j].proc # b
    BY <1>1 DEF Inv, FlowOK, Working
<1>3. /\ DOMAIN procs' = DOMAIN procs /\ \A p \in DOMAIN procs : p # b => procs'[p] = procs[p]
      /\ procs'[b].holds = {} /\ procs'[b].kind = "gone"
  <2>1. procs[b] \in Process /\ procs \in Seq(Process)
      BY <1>1, Typed
  <2>2. QED  BY <1>1, <2>1 DEF EndProcess, Process
<1>4. ASSUME NEW j \in DOMAIN flows PROVE FlowOK(j)' /\ ForkedOK(j)'
  <2>1. FlowOK(j) /\ ForkedOK(j)
      BY DEF Inv
  <2>2. FlowOK(j)'
    <3>1. flows[j].pc # "gone" => procs'[flows[j].proc].kind = "program"
        BY <1>1, <1>3, <2>1 DEF FlowOK
    <3>2. Working(j) \/ flows[j].pc = "fork" => flows[j].fds1 \in procs'[flows[j].proc].holds
        BY <1>2, <1>3, <2>1 DEF FlowOK
    <3>3. QED  BY <1>1, <1>3, <2>1, <3>1, <3>2 DEF FlowOK, Working
  <2>3. ForkedOK(j)'
      BY <1>1, <2>1, Zenon DEF ForkedOK
  <2>4. QED  BY <2>2, <2>3
<1>5. \A j, k \in DOMAIN flows : j # k => Apart(j, k)'
    BY <1>1 DEF Inv, Apart, Working, Calling
<1>6. ASSUME NEW p \in DOMAIN procs PROVE ProcOK(p)' /\ \A j \in DOMAIN flows : Waiting(p, j)'
  <2>1. CASE p # b
      BY <1>1, <1>3, <2>1 DEF Inv, ProcOK, Waiting, Runs, Calling
  <2>2. CASE p = b
      BY <1>1, <1>3, <2>2 DEF ProcOK, Waiting, Runs
  <2>3. QED  BY <2>1, <2>2
<1>7. \A x \in DOMAIN pipes : PipeOK(x)'
    BY <1>1, <1>3 DEF Inv, PipeOK, Returned
<1>8. 1 \in DOMAIN procs' /\ procs'[1] = procs[1] /\ \A x \in procs'[1].holds : ProgramHolds(x)'
    BY <1>1, <1>2, <1>3 DEF Inv, ProgramHolds
<1>9. QED
    BY <1>1, <1>3, <1>4, <1>5, <1>6, <1>7, <1>8 DEF Inv

(* A call begins: it has no pipe, and a directory nobody else has.            *)
LEMMA BeginInv ==
    ASSUME Inv, TypeOK', ntmps' \in Nat, NEW i, Prepare(i) \/ UnknownUser(i)
    PROVE  Inv'
<1>1. /\ TypeOK /\ i \in DOMAIN flows /\ UNCHANGED <<nodes, procs, pipes>>
      /\ flows[i].pc = "next" /\ flows[i] \in Flow /\ FlowOK(i) /\ ntmps \in Nat
    BY Typed DEF Inv, At, Prepare, UnknownUser
<1>2. PICK dir, t, pc :
        /\ flows' = [flows EXCEPT ![i].pc = pc, ![i].ret = EXIT_FAILURE, ![i].fds1 = 0,
                       ![i].wdir = [name |-> dir, tmp |-> t]]
        /\ \/ pc = "pipe" /\ dir = NoDir /\ t = ntmps + 1 /\ ntmps' = ntmps + 1 /\ tmps' = tmps \cup {ntmps + 1}
           \/ pc = "pipe" /\ dir # NoDir /\ t = 0 /\ ntmps' = ntmps /\ tmps' = tmps
           \/ pc = "cleanup" /\ t = 0 /\ ntmps' = ntmps /\ tmps' = tmps
  <2>1. CASE Prepare(i) /\ nodes[flows[i].node].dir = NoDir
      BY <1>1, <2>1 DEF Prepare
  <2>2. CASE Prepare(i) /\ nodes[flows[i].node].dir # NoDir
      BY <1>1, <2>2 DEF Prepare
  <2>3. CASE UnknownUser(i)
      BY <1>1, <2>3 DEF UnknownUser
  <2>4. QED  BY <2>1, <2>2, <2>3
<1>3. /\ DOMAIN flows' = DOMAIN flows /\ \A j \in DOMAIN flows : j # i => flows'[j] = flows[j]
      /\ flows'[i].proc = flows[i].proc /\ flows'[i].node = flows[i].node
      /\ flows'[i].pc = pc /\ flows'[i].fds1 = 0 /\ flows'[i].wdir = [name |-> dir, tmp |-> t]
  <2>1. flows \in Seq(Flow)
      BY <1>1, Typed
  <2>2. QED  BY <1>1, <1>2, <2>1 DEF Flow
<1>4. flows'[i].forked = flows[i].forked
  <2>1. flows \in Seq(Flow)
      BY <1>1, Typed
  <2>2. QED  BY <1>1, <1>2, <2>1 DEF Flow
<1>5. /\ flows'[i].wdir.name = dir /\ flows'[i].wdir.tmp = t
      /\ ntmps <= ntmps' /\ tmps \subseteq tmps' /\ t \in Nat /\ t <= ntmps'
      /\ t > 0 => t > ntmps
      /\ pc \in {"pipe", "cleanup"} /\ (pc = "pipe" /\ dir = NoDir => t > 0)
    BY <1>1, <1>2, <1>3
<1>6. ASSUME NEW j \in DOMAIN flows PROVE FlowOK(j)' /\ ForkedOK(j)'
  <2>1. FlowOK(j) /\ ForkedOK(j)
      BY DEF Inv
  <2>2. CASE j # i
    <3>1. flows'[j] = flows[j] /\ flows[j].wdir.tmp \in Nat
        BY <1>1, <1>3, <2>2, Typed
    <3>2. FlowOK(j)'
        BY <1>1, <1>5, <2>1, <3>1 DEF FlowOK, Working
    <3>3. ForkedOK(j)'
        BY <2>1, <3>1, Zenon DEF ForkedOK
    <3>4. QED  BY <3>2, <3>3
  <2>3. CASE j = i
    <3>1. FlowOK(i)'
        BY <1>1, <1>3, <1>5, Typed DEF FlowOK, Working
    <3>2. ForkedOK(i)'
        BY <1>3, <1>4, <2>1, <2>3, Zenon DEF ForkedOK
    <3>3. QED  BY <2>3, <3>1, <3>2
  <2>4. QED  BY <2>2, <2>3
<1>7. ASSUME NEW j \in DOMAIN flows, j # i PROVE flows[j].wdir.tmp = t => t = 0
    BY <1>1, <1>5, Typed DEF Inv, FlowOK
<1>8. ASSUME NEW j \in DOMAIN flows, NEW k \in DOMAIN flows, j # k PROVE Apart(j, k)'
  <2>1. Apart(j, k)
      BY <1>8 DEF Inv
  <2>2. CASE j # i /\ k # i
    <3>1. flows'[j] = flows[j] /\ flows'[k] = flows[k]
        BY <1>3, <2>2
    <3>2. QED  BY <2>1, <3>1 DEF Apart, Working, Calling
  <2>3. CASE j = i
    <3>1. flows'[k] = flows[k]
        BY <1>3, <1>8, <2>3
    <3>2. QED  BY <1>3, <1>5, <1>7, <1>8, <2>1, <2>3, <3>1 DEF Apart
  <2>4. CASE k = i
    <3>1. flows'[j] = flows[j] /\ flows[j].fds1 \in Nat
        BY <1>1, <1>3, <1>8, <2>4, Typed
    <3>2. QED  BY <1>3, <1>5, <1>7, <1>8, <2>1, <2>4, <3>1 DEF Apart
  <2>5. QED  BY <2>2, <2>3, <2>4
<1>9. ASSUME NEW p \in DOMAIN procs PROVE ProcOK(p)'
    BY <1>1, <1>5 DEF Inv, ProcOK, Runs
<1>10. ASSUME NEW p \in DOMAIN procs, NEW j \in DOMAIN flows PROVE Waiting(p, j)'
  <2>1. Waiting(p, j) /\ ProcOK(p)
      BY DEF Inv
  <2>2. CASE j # i
    <3>1. flows'[j] = flows[j]
        BY <1>3, <2>2
    <3>2. QED  BY <1>1, <2>1, <3>1 DEF Waiting, Calling, Runs
  <2>3. CASE j = i
    <3>1. Runs(p) /\ procs[p].cwd.name = NoDir => procs[p].cwd.tmp \in 1..ntmps
        BY <1>1, <2>1 DEF ProcOK, TypeOK
    <3>2. QED  BY <1>1, <1>3, <1>5, <2>3, <3>1 DEF Waiting, Runs
  <2>4. QED  BY <2>2, <2>3
<1>11. \A fd \in DOMAIN pipes : PipeOK(fd)'
    BY <1>1 DEF Inv, PipeOK, Returned
<1>12. ASSUME NEW fd \in procs[1].holds PROVE ProgramHolds(fd)'
  <2>1. PICK k \in DOMAIN flows : /\ flows[k].proc = 1 /\ flows[k].fds1 = fd
                                 /\ flows[k].pc \in {"fork", "close", "cleanup", "return"}
      BY DEF Inv, ProgramHolds
  <2>2. flows'[k] = flows[k] /\ k \in DOMAIN flows'
      BY <1>1, <1>3, <2>1
  <2>3. QED  BY <2>1, <2>2 DEF ProgramHolds
<1>13. QED
    BY <1>1, <1>3, <1>6, <1>8, <1>9, <1>10, <1>11, <1>12 DEF Inv

(* The new pipe is nobody else's.                                            *)
LEMMA MakePipeInv ==
    ASSUME Inv, TypeOK', NEW i, MakePipe(i)
    PROVE  Inv'
<1> DEFINE fd == Len(pipes) + 1
           q  == flows[i].proc
<1>1. /\ TypeOK /\ i \in DOMAIN flows /\ UNCHANGED <<nodes, tmps, ntmps>>
      /\ flows[i].pc = "pipe" /\ flows[i] \in Flow /\ FlowOK(i) /\ q \in DOMAIN procs
      /\ pipes' = Append(pipes, [status |-> NoStatus, sent |-> FALSE, ret |-> NoStatus])
      /\ procs' = [procs EXCEPT ![q].holds = procs[q].holds \cup {fd}]
      /\ flows' = [flows EXCEPT ![i].pc = "fork", ![i].fds1 = fd]
    BY Typed DEF Inv, At, MakePipe, FlowOK
<1>2. /\ DOMAIN flows' = DOMAIN flows /\ \A j \in DOMAIN flows : j # i => flows'[j] = flows[j]
      /\ flows'[i].proc = q /\ flows'[i].node = flows[i].node /\ flows'[i].wdir = flows[i].wdir
      /\ flows'[i].pc = "fork" /\ flows'[i].fds1 = fd
  <2>1. flows \in Seq(Flow)
      BY <1>1, Typed
  <2>2. QED  BY <1>1, <2>1 DEF Flow
<1>3. flows'[i].forked = flows[i].forked
  <2>1. flows \in Seq(Flow)
      BY <1>1, Typed
  <2>2. QED  BY <1>1, <2>1 DEF Flow
<1>4. /\ DOMAIN procs' = DOMAIN procs /\ \A p \in DOMAIN procs : p # q => procs'[p] = procs[p]
      /\ procs'[q].holds = procs[q].holds \cup {fd}
      /\ procs'[q].kind = procs[q].kind /\ procs'[q].pipe = procs[q].pipe /\ procs'[q].cwd = procs[q].cwd
  <2>1. procs[q] \in Process /\ procs \in Seq(Process)
      BY <1>1, Typed
  <2>2. QED  BY <1>1, <2>1 DEF Process
<1>5. /\ Len(pipes') = fd /\ DOMAIN pipes' = 1..fd /\ DOMAIN pipes = 1..Len(pipes) /\ Len(pipes) \in Nat
      /\ \A x \in DOMAIN pipes : pipes'[x] = pipes[x]
      /\ pipes'[fd].ret = NoStatus
  <2>1. pipes \in Seq(Pipe)
      BY <1>1, Typed
  <2>2. QED  BY <1>1, <2>1
<1>6. procs[q].kind = "program" /\ \A p \in DOMAIN procs : fd \notin procs[p].holds
    BY <1>1, <1>5 DEF Inv, FlowOK, ProcOK
<1>7. ASSUME NEW j \in DOMAIN flows PROVE FlowOK(j)' /\ ForkedOK(j)'
  <2>1. FlowOK(j) /\ ForkedOK(j) /\ flows[j].fds1 \in Nat
      BY <1>1, Typed DEF Inv
  <2>2. \A p \in DOMAIN procs : procs[p].holds \subseteq procs'[p].holds /\ procs'[p].kind = procs[p].kind
      BY <1>4
  <2>3. CASE j # i
    <3>1. flows'[j] = flows[j]
        BY <1>2, <2>3
    <3>2. FlowOK(j)'
        BY <1>1, <1>4, <1>5, <2>1, <2>2, <3>1 DEF FlowOK, Working
    <3>3. ForkedOK(j)'
        BY <2>1, <3>1, Zenon DEF ForkedOK
    <3>4. QED  BY <3>2, <3>3
  <2>4. CASE j = i
    <3>1. FlowOK(i)'
        BY <1>1, <1>2, <1>4, <1>5, <2>1, <2>2, <2>4 DEF FlowOK, Working
    <3>2. ForkedOK(i)'
        BY <1>2, <1>3, <2>1, <2>4, Zenon DEF ForkedOK
    <3>3. QED  BY <2>4, <3>1, <3>2
  <2>5. QED  BY <2>3, <2>4
<1>8. ASSUME NEW j \in DOMAIN flows, NEW k \in DOMAIN flows, j # k PROVE Apart(j, k)'
  <2>1. Apart(j, k) /\ Apart(k, j) /\ FlowOK(j) /\ FlowOK(k) /\ flows[j].fds1 \in Nat /\ flows[k].fds1 \in Nat
      BY <1>1, <1>8, Typed DEF Inv
  <2>2. CASE j # i /\ k # i
    <3>1. flows'[j] = flows[j] /\ flows'[k] = flows[k]
        BY <1>2, <2>2
    <3>2. QED  BY <2>1, <3>1 DEF Apart, Working, Calling
  <2>3. CASE j = i
    <3>1. flows'[k] = flows[k] /\ flows[k].fds1 # fd
        BY <1>2, <1>5, <1>8, <2>1, <2>3 DEF FlowOK
    <3>2. QED  BY <1>1, <1>2, <2>1, <2>3, <3>1 DEF Apart, Working, Calling
  <2>4. CASE k = i
    <3>1. flows'[j] = flows[j] /\ flows[j].fds1 # fd
        BY <1>2, <1>5, <1>8, <2>1, <2>4 DEF FlowOK
    <3>2. QED  BY <1>1, <1>2, <2>1, <2>4, <3>1 DEF Apart, Working, Calling
  <2>5. QED  BY <2>2, <2>3, <2>4
<1>9. ASSUME NEW p \in DOMAIN procs PROVE ProcOK(p)'
  <2>1. ProcOK(p)
      BY DEF Inv
  <2>2. CASE p # q
      BY <1>1, <1>4, <1>5, <2>1, <2>2 DEF ProcOK, Runs
  <2>3. CASE p = q
      BY <1>1, <1>4, <1>5, <1>6, <2>1, <2>3, SMTT(30), ZenonT(30) DEF ProcOK, Runs
  <2>4. QED  BY <2>2, <2>3
<1>10. ASSUME NEW p \in DOMAIN procs, NEW j \in DOMAIN flows PROVE Waiting(p, j)'
  <2>1. Waiting(p, j) /\ (Runs(p)' => procs'[p] = procs[p])
      BY <1>4, <1>6 DEF Inv, Runs
  <2>2. CASE j # i
    <3>1. flows'[j] = flows[j]
        BY <1>2, <2>2
    <3>2. QED  BY <2>1, <3>1 DEF Waiting, Calling, Runs
  <2>3. CASE j = i
      BY <1>1, <1>2, <2>1, <2>3 DEF Waiting, Calling, Runs
  <2>4. QED  BY <2>2, <2>3
<1>11. ASSUME NEW x \in DOMAIN pipes' PROVE PipeOK(x)'
  <2>1. CASE x = fd
      BY <1>5, <2>1 DEF PipeOK, Returned
  <2>2. CASE x # fd
    <3>1. x \in DOMAIN pipes
        BY <1>5, <2>2
    <3>2. PipeOK(x) /\ pipes'[x] = pipes[x]
        BY <1>5, <3>1 DEF Inv
    <3>3. QED  BY <1>4, <2>2, <3>2 DEF PipeOK, Returned
  <2>3. QED  BY <2>1, <2>2
<1>12. ASSUME NEW x \in procs'[1].holds PROVE ProgramHolds(x)'
  <2>1. CASE q = 1 /\ x = fd
      BY <1>2, <1>1, <2>1 DEF ProgramHolds
  <2>2. CASE x \in procs[1].holds
    <3>1. PICK k \in DOMAIN flows : /\ flows[k].proc = 1 /\ flows[k].fds1 = x
                                   /\ flows[k].pc \in {"fork", "close", "cleanup", "return"}
        BY <2>2 DEF Inv, ProgramHolds
    <3>2. flows'[k] = flows[k] /\ k \in DOMAIN flows'
        BY <1>1, <1>2, <3>1
    <3>3. QED  BY <3>1, <3>2 DEF ProgramHolds
  <2>3. QED  BY <1>4, <2>1, <2>2 DEF Inv
<1>13. 1 \in DOMAIN procs' /\ procs'[1].kind = "program"
    BY <1>4 DEF Inv
<1>14. QED
    BY <1>1, <1>2, <1>4, <1>7, <1>8, <1>9, <1>10, <1>11, <1>12, <1>13 DEF Inv

(* The child is a flow in a process of its own, which holds what its parent's  *)
(* does: the pipe that its parent is going to read.                         *)
LEMMA ForkInv ==
    ASSUME Inv, TypeOK', NEW i, Fork(i)
    PROVE  Inv'
<1> DEFINE q == flows[i].proc
           c == Len(flows) + 1
           d == Len(procs) + 1
<1>1. /\ TypeOK /\ i \in DOMAIN flows /\ UNCHANGED <<nodes, pipes, tmps, ntmps>>
      /\ flows[i].pc = "fork" /\ flows[i] \in Flow /\ FlowOK(i) /\ q \in DOMAIN procs
      /\ procs' = Append(procs, procs[q])
      /\ flows' = Append([flows EXCEPT ![i].pc = "close"],
                         [flows[i] EXCEPT !.proc = d, !.forked = TRUE, !.pc = "chdir"])
    BY Typed DEF Inv, At, Fork, FlowOK
<1>2. /\ DOMAIN flows = 1..Len(flows) /\ Len(flows) \in Nat /\ DOMAIN flows' = 1..c
      /\ \A j \in DOMAIN flows : j # i => flows'[j] = flows[j]
      /\ flows'[i] = [flows[i] EXCEPT !.pc = "close"]
      /\ flows'[c] = [flows[i] EXCEPT !.proc = d, !.forked = TRUE, !.pc = "chdir"]
  <2> DEFINE g == [flows EXCEPT ![i].pc = "close"]
             h == [flows[i] EXCEPT !.proc = d, !.forked = TRUE, !.pc = "chdir"]
  <2>1. flows \in Seq(Flow) /\ DOMAIN flows = 1..Len(flows) /\ Len(flows) \in Nat
      BY <1>1, Typed
  <2>2. g \in Seq(Flow) /\ Len(g) = Len(flows)
    <3>1. [flows[i] EXCEPT !.pc = "close"] \in Flow
        BY <1>1 DEF Flow
    <3>2. \A x \in Flow : [flows EXCEPT ![i] = x] \in Seq(Flow) /\ Len([flows EXCEPT ![i] = x]) = Len(flows)
        BY <1>1, <2>1
    <3>3. QED  BY <3>1, <3>2
  <2>3. /\ \A j \in DOMAIN flows : j # i => g[j] = flows[j]
        /\ g[i] = [flows[i] EXCEPT !.pc = "close"]
      BY <1>1, <2>1
  <2>4. flows' = Append(g, h)
      BY <1>1
  <2> HIDE DEF g, h
  <2>5. DOMAIN flows' = 1..c /\ flows'[c] = h /\ \A j \in 1..Len(flows) : flows'[j] = g[j]
      BY <2>1, <2>2, <2>4
  <2>6. QED  BY <1>1, <2>1, <2>3, <2>5, Zenon DEF h
<1>3. /\ flows'[i].proc = q /\ flows'[i].node = flows[i].node /\ flows'[i].wdir = flows[i].wdir
      /\ flows'[i].fds1 = flows[i].fds1 /\ flows'[i].pc = "close"
      /\ flows'[c].proc = d /\ flows'[c].node = flows[i].node /\ flows'[c].wdir = flows[i].wdir
      /\ flows'[c].fds1 = flows[i].fds1 /\ flows'[c].pc = "chdir"
    BY <1>1, <1>2 DEF Flow
<1>4. flows'[i].forked = flows[i].forked
    BY <1>1, <1>2 DEF Flow
<1>5. /\ DOMAIN procs = 1..Len(procs) /\ Len(procs) \in Nat /\ DOMAIN procs' = 1..d
      /\ \A p \in DOMAIN procs : procs'[p] = procs[p]
      /\ procs'[d] = procs[q]
  <2>1. procs \in Seq(Process)
      BY <1>1, Typed
  <2>2. QED  BY <1>1, <2>1
<1>6. /\ procs[q].kind = "program" /\ flows[i].fds1 \in procs[q].holds
      /\ flows[i].fds1 \in DOMAIN pipes /\ flows[i].fds1 > 0
    BY <1>1, Typed DEF FlowOK, Working, Inv, ProcOK
<1>7. ASSUME NEW j \in DOMAIN flows' PROVE FlowOK(j)' /\ ForkedOK(j)'
  <2>1. CASE j = c
    <3>1. 1 \in DOMAIN procs
        BY DEF Inv
    <3>2. d # 1 /\ d \in DOMAIN procs'
        BY <1>5, <3>1
    <3>3. FlowOK(j)'
      <4>1. procs'[d].kind = "program" /\ flows[i].fds1 \in procs'[d].holds
          BY <1>5, <1>6
      <4>2. flows[i].wdir.name = NoDir => flows[i].wdir.tmp > 0
          BY <1>1 DEF FlowOK
      <4>3. flows[i].node \in DOMAIN nodes' /\ flows[i].fds1 <= Len(pipes') /\ flows[i].wdir.tmp <= ntmps'
          BY <1>1 DEF FlowOK
      <4>4. QED  BY <1>3, <2>1, <3>2, <4>1, <4>2, <4>3 DEF FlowOK, Working
    <3>4. QED  BY <1>3, <2>1, <3>2, <3>3, Zenon DEF ForkedOK
  <2>2. CASE j = i
    <3>1. FlowOK(i)'
        BY <1>1, <1>3, <1>5, <1>6 DEF FlowOK, Working, Inv
    <3>2. ForkedOK(i)
        BY <1>1 DEF Inv
    <3>3. QED  BY <1>3, <1>4, <2>2, <3>1, <3>2, Zenon DEF ForkedOK
  <2>3. CASE j # i /\ j # c
    <3>1. j \in DOMAIN flows
        BY <1>2, <2>3
    <3>2. flows'[j] = flows[j] /\ FlowOK(j) /\ ForkedOK(j)
        BY <1>2, <2>3, <3>1 DEF Inv
    <3>3. FlowOK(j)'
      <4>1. flows[j].proc \in DOMAIN procs' /\ procs'[flows[j].proc] = procs[flows[j].proc]
          BY <1>5, <3>2 DEF FlowOK
      <4>2. QED  BY <1>1, <3>2, <4>1 DEF FlowOK, Working
    <3>4. ForkedOK(j)'
        BY <3>2, Zenon DEF ForkedOK
    <3>5. QED  BY <3>3, <3>4
  <2>4. QED  BY <2>1, <2>2, <2>3
<1>8. ASSUME NEW k \in DOMAIN flows, k # i
      PROVE  /\ flows'[k] = flows[k] /\ flows[k].proc # d /\ Apart(i, k) /\ Apart(k, i)
             /\ Calling(k) => flows[i].wdir.tmp = 0 \/ flows[k].wdir.tmp # flows[i].wdir.tmp
  <2>1. Apart(i, k) /\ Apart(k, i) /\ FlowOK(k) /\ flows[i].wdir.tmp \in Nat
      BY <1>1, <1>8, Typed DEF Inv
  <2>2. flows'[k] = flows[k] /\ flows[k].proc # d
      BY <1>2, <1>5, <1>8, <2>1 DEF FlowOK
  <2>3. Calling(k) => flows[i].wdir.tmp = 0 \/ flows[k].wdir.tmp # flows[i].wdir.tmp
      BY <1>1, <2>1 DEF Apart, Calling
  <2>4. QED  BY <2>1, <2>2, <2>3
<1>9. ASSUME NEW j \in DOMAIN flows', NEW k \in DOMAIN flows', j # k PROVE Apart(j, k)'
  <2>1. q # d /\ \A x \in DOMAIN flows' : x \in DOMAIN flows \/ x = c
      BY <1>1, <1>2, <1>5
  <2>2. CASE j \notin {i, c} /\ k \notin {i, c}
    <3>1. flows'[j] = flows[j] /\ flows'[k] = flows[k] /\ Apart(j, k)
        BY <1>2, <1>9, <2>1, <2>2 DEF Inv
    <3>2. QED  BY <3>1 DEF Apart, Working, Calling
  <2>3. CASE j \notin {i, c} /\ k \in {i, c}
    <3>1. j \in DOMAIN flows /\ j # i
        BY <2>1, <2>3
    <3>2. flows[i].wdir.tmp \in Nat /\ flows[j].wdir.tmp \in Nat
        BY <1>1, <3>1, Typed
    <3>3. QED  BY <1>3, <1>8, <2>1, <2>3, <3>1, <3>2 DEF Apart, Working, Calling
  <2>4. CASE j \in {i, c} /\ k \notin {i, c}
    <3>1. k \in DOMAIN flows /\ k # i
        BY <2>1, <2>4
    <3>2. flows[i].wdir.tmp \in Nat /\ flows[k].wdir.tmp \in Nat
        BY <1>1, <3>1, Typed
    <3>3. QED  BY <1>3, <1>8, <2>1, <2>4, <3>1, <3>2 DEF Apart, Working, Calling
  <2>5. CASE j \in {i, c} /\ k \in {i, c}
      BY <1>3, <1>9, <2>1, <2>5 DEF Apart, Working, Calling
  <2>6. QED  BY <2>2, <2>3, <2>4, <2>5
<1>10. ASSUME NEW p \in DOMAIN procs' PROVE ProcOK(p)'
  <2>1. CASE p \in DOMAIN procs
      BY <1>1, <1>5, <2>1 DEF Inv, ProcOK, Runs
  <2>2. CASE p = d
      BY <1>1, <1>5, <1>6, <2>2 DEF Inv, ProcOK, Runs
  <2>3. QED  BY <1>5, <2>1, <2>2
<1>11. ASSUME NEW p \in DOMAIN procs', NEW j \in DOMAIN flows' PROVE Waiting(p, j)'
  <2>1. CASE p = d
      BY <1>5, <1>6, <2>1 DEF Waiting, Runs
  <2>2. CASE p # d /\ j \in {i, c}
    <3>1. procs'[p] = procs[p] /\ Waiting(p, i)
        BY <1>1, <1>5, <2>2 DEF Inv
    <3>2. QED  BY <1>1, <1>3, <2>2, <3>1 DEF Waiting, Runs, Calling
  <2>3. CASE p # d /\ j \notin {i, c}
    <3>1. procs'[p] = procs[p] /\ flows'[j] = flows[j] /\ Waiting(p, j)
        BY <1>2, <1>5, <2>3 DEF Inv
    <3>2. QED  BY <3>1 DEF Waiting, Runs, Calling
  <2>4. QED  BY <2>1, <2>2, <2>3
<1>12. ASSUME NEW x \in DOMAIN pipes PROVE PipeOK(x)'
  <2>1. PipeOK(x)
      BY DEF Inv
  <2>2. QED  BY <1>1, <1>5, <2>1 DEF PipeOK, Returned
<1>13. /\ 1 \in DOMAIN procs' /\ procs'[1] = procs[1]
    BY <1>5 DEF Inv
<1>14. ASSUME NEW x \in procs'[1].holds PROVE ProgramHolds(x)'
  <2>1. PICK k \in DOMAIN flows : /\ flows[k].proc = 1 /\ flows[k].fds1 = x
                                 /\ flows[k].pc \in {"fork", "close", "cleanup", "return"}
      BY <1>13 DEF Inv, ProgramHolds
  <2>2. k \in DOMAIN flows'
      BY <1>2
  <2>3. CASE k = i
      BY <1>3, <2>1, <2>2, <2>3 DEF ProgramHolds
  <2>4. CASE k # i
      BY <1>2, <2>1, <2>2, <2>4 DEF ProgramHolds
  <2>5. QED  BY <2>3, <2>4
<1>15. QED
    BY <1>1, <1>7, <1>9, <1>10, <1>11, <1>12, <1>13, <1>14 DEF Inv

(* The command has the child's descriptors, and the child's directory.        *)
LEMMA StartCommandInv ==
    ASSUME Inv, TypeOK', NEW i, StartCommand(i)
    PROVE  Inv'
<1> DEFINE q == flows[i].proc
           d == Len(procs) + 1
<1>1. /\ TypeOK /\ i \in DOMAIN flows /\ UNCHANGED <<nodes, pipes, tmps, ntmps>>
      /\ flows[i].pc = "popen" /\ flows[i] \in Flow /\ FlowOK(i) /\ q \in DOMAIN procs
      /\ procs' = Append(procs, [procs[q] EXCEPT !.kind = "command", !.pipe = flows[i].fds1,
                                   !.cwd = flows[i].wdir])
      /\ Goto(i, "run")
    BY Typed DEF Inv, At, StartCommand, FlowOK
<1>2. Moved(i, "run")
    BY <1>1, Moves
<1>3. /\ DOMAIN procs = 1..Len(procs) /\ Len(procs) \in Nat /\ DOMAIN procs' = 1..d
      /\ \A p \in DOMAIN procs : procs'[p] = procs[p]
      /\ procs'[d].kind = "command" /\ procs'[d].holds = procs[q].holds
      /\ procs'[d].pipe = flows[i].fds1 /\ procs'[d].cwd = flows[i].wdir
  <2>1. procs \in Seq(Process) /\ procs[q] \in Process
      BY <1>1, Typed
  <2>2. QED  BY <1>1, <2>1 DEF Process
<1>4. /\ flows[i].fds1 \in procs[q].holds
      /\ flows[i].wdir.name = NoDir => flows[i].wdir.tmp \in tmps /\ flows[i].wdir.tmp > 0
    BY <1>1 DEF FlowOK, Working
<1>5. ASSUME NEW j \in DOMAIN flows PROVE FlowOK(j)' /\ ForkedOK(j)'
  <2>1. FlowOK(j) /\ ForkedOK(j)
      BY DEF Inv
  <2>2. procs'[flows[j].proc] = procs[flows[j].proc] /\ flows[j].proc \in DOMAIN procs'
      BY <1>3, <2>1 DEF FlowOK
  <2>3. FlowOK(j)'
    <3>1. CASE j # i
      <4>1. flows'[j] = flows[j]
          BY <1>2, <3>1 DEF Moved
      <4>2. QED  BY <1>1, <2>1, <2>2, <4>1 DEF FlowOK, Working
    <3>2. CASE j = i
        BY <1>1, <1>2, <2>1, <2>2, <3>2 DEF Moved, FlowOK, Working
    <3>3. QED  BY <3>1, <3>2
  <2>4. ForkedOK(j)'
    <3>1. flows'[j].forked = flows[j].forked /\ flows'[j].proc = flows[j].proc
        BY <1>2, Zenon DEF Moved
    <3>2. QED  BY <2>1, <3>1, Zenon DEF ForkedOK
  <2>5. QED  BY <2>3, <2>4
<1>6. ASSUME NEW j \in DOMAIN flows, NEW k \in DOMAIN flows, j # k PROVE Apart(j, k)'
  <2>1. Apart(j, k) /\ Apart(k, j)
      BY <1>6 DEF Inv
  <2>2. CASE j # i /\ k # i
    <3>1. flows'[j] = flows[j] /\ flows'[k] = flows[k]
        BY <1>2, <2>2 DEF Moved
    <3>2. QED  BY <2>1, <3>1 DEF Apart, Working, Calling
  <2>3. CASE j = i
    <3>1. flows'[k] = flows[k]
        BY <1>2, <1>6, <2>3 DEF Moved
    <3>2. QED  BY <1>1, <1>2, <2>1, <2>3, <3>1 DEF Moved, Apart, Working, Calling
  <2>4. CASE k = i
    <3>1. flows'[j] = flows[j]
        BY <1>2, <1>6, <2>4 DEF Moved
    <3>2. QED  BY <1>1, <1>2, <2>1, <2>4, <3>1 DEF Moved, Apart, Working, Calling
  <2>5. QED  BY <2>2, <2>3, <2>4
<1>7. ASSUME NEW p \in DOMAIN procs' PROVE ProcOK(p)'
  <2>1. CASE p \in DOMAIN procs
      BY <1>1, <1>3, <2>1 DEF Inv, ProcOK, Runs
  <2>2. CASE p = d
    <3>1. ProcOK(q)
        BY <1>1 DEF Inv
    <3>2. QED  BY <1>1, <1>3, <1>4, <2>2, <3>1 DEF ProcOK, Runs
  <2>3. QED  BY <1>3, <2>1, <2>2
<1>8. ASSUME NEW p \in DOMAIN procs', NEW j \in DOMAIN flows PROVE Waiting(p, j)'
  <2>1. CASE p \in DOMAIN procs /\ j # i
    <3>1. procs'[p] = procs[p] /\ flows'[j] = flows[j] /\ Waiting(p, j)
        BY <1>2, <1>3, <2>1 DEF Inv, Moved
    <3>2. QED  BY <3>1 DEF Waiting, Runs, Calling
  <2>2. CASE p \in DOMAIN procs /\ j = i
    <3>1. procs'[p] = procs[p] /\ Waiting(p, i)
        BY <1>1, <1>3, <2>2 DEF Inv
    <3>2. QED  BY <1>1, <1>2, <2>2, <3>1 DEF Moved, Waiting, Runs, Calling
  <2>3. CASE p = d /\ j = i
      BY <1>2, <1>3, <2>3 DEF Moved, Waiting
  <2>4. CASE p = d /\ j # i
    <3>1. flows'[j] = flows[j] /\ Apart(i, j)
        BY <1>1, <1>2, <2>4 DEF Inv, Moved
    <3>2. QED  BY <1>1, <1>3, <1>4, <2>4, <3>1 DEF Waiting, Apart, Calling, Working
  <2>5. QED  BY <1>3, <2>1, <2>2, <2>3, <2>4
<1>9. ASSUME NEW x \in DOMAIN pipes PROVE PipeOK(x)'
  <2>1. PipeOK(x)
      BY DEF Inv
  <2>2. QED  BY <1>1, <1>3, <2>1 DEF PipeOK, Returned
<1>10. 1 \in DOMAIN procs' /\ procs'[1] = procs[1]
    BY <1>3 DEF Inv
<1>11. \A x \in procs'[1].holds : ProgramHolds(x)'
    BY <1>1, <1>2, <1>10, HoldsKept
<1>12. QED
    BY <1>1, <1>2, <1>5, <1>6, <1>7, <1>8, <1>9, <1>10, <1>11 DEF Inv, Moved

(* A command ends, and its child is about to send the status.                *)
LEMMA CommandEndsInv ==
    ASSUME Inv, TypeOK', NEW c, NEW status \in Statuses, CommandEnds(c, status)
    PROVE  Inv'
<1> DEFINE fd == procs[c].pipe
<1>1. /\ TypeOK /\ c \in DOMAIN procs /\ Runs(c) /\ UNCHANGED <<nodes, tmps, ntmps>>
      /\ pipes' = [pipes EXCEPT ![fd].status = status]
      /\ flows' = [j \in DOMAIN flows |->
                     IF flows[j].pc = "run" /\ flows[j].fds1 = fd
                     THEN [flows[j] EXCEPT !.pc = "report"] ELSE flows[j]]
    BY DEF Inv, CommandEnds, Runs
<1>2. /\ DOMAIN flows' = DOMAIN flows
      /\ \A j \in DOMAIN flows :
            /\ flows'[j].proc = flows[j].proc /\ flows'[j].node = flows[j].node
            /\ flows'[j].fds1 = flows[j].fds1 /\ flows'[j].wdir = flows[j].wdir
            /\ flows'[j].pc = flows[j].pc \/ (flows[j].pc = "run" /\ flows'[j].pc = "report")
  <2>1. \A j \in DOMAIN flows : flows[j] \in Flow
      BY <1>1, Typed
  <2>2. QED  BY <1>1, <2>1 DEF Flow
<1>3. \A j \in DOMAIN flows : flows'[j].forked = flows[j].forked
  <2>1. \A j \in DOMAIN flows : flows[j] \in Flow
      BY <1>1, Typed
  <2>2. \A f \in Flow : [f EXCEPT !.pc = "report"].forked = f.forked
      BY DEF Flow
  <2>3. QED  BY <1>1, <2>1, <2>2, Zenon
<1>4. /\ DOMAIN procs' = DOMAIN procs /\ \A p \in DOMAIN procs : p # c => procs'[p] = procs[p]
      /\ procs'[c].kind \in {"gone", "background"} /\ procs'[c].holds \subseteq procs[c].holds
  <2>1. procs[c] \in Process /\ procs \in Seq(Process)
      BY <1>1, Typed
  <2>2. CASE EndProcess(c)
      BY <1>1, <2>1, <2>2 DEF EndProcess, Process
  <2>3. CASE procs' = [procs EXCEPT ![c].kind = "background"]
      BY <1>1, <2>1, <2>3 DEF Process
  <2>4. QED  BY <2>2, <2>3 DEF CommandEnds
<1>5. c # 1 /\ fd \in procs[c].holds /\ \A j \in DOMAIN flows : flows[j].pc # "gone" => flows[j].proc # c
    BY <1>1 DEF Inv, Runs, ProcOK, FlowOK
<1>6. /\ DOMAIN pipes' = DOMAIN pipes /\ Len(pipes') = Len(pipes)
      /\ \A x \in DOMAIN pipes : x # fd => pipes'[x] = pipes[x]
      /\ fd \in DOMAIN pipes => pipes'[fd].ret = pipes[fd].ret
  <2>1. pipes \in Seq(Pipe)
      BY <1>1, Typed
  <2>2. fd \in DOMAIN pipes => pipes'[fd] = [pipes[fd] EXCEPT !.status = status] /\ pipes[fd] \in Pipe
      BY <1>1, <2>1
  <2>3. \A x \in Pipe : [x EXCEPT !.status = status].ret = x.ret
      BY DEF Pipe
  <2>4. DOMAIN pipes' = DOMAIN pipes /\ \A x \in DOMAIN pipes : x # fd => pipes'[x] = pipes[x]
      BY <1>1, <2>1
  <2>5. Len(pipes') = Len(pipes)
      BY <1>1, <2>4, Typed DEF TypeOK
  <2>6. QED  BY <2>2, <2>3, <2>4, <2>5, Zenon
<1>7. ASSUME NEW j \in DOMAIN flows PROVE FlowOK(j)' /\ ForkedOK(j)'
  <2>1. FlowOK(j) /\ ForkedOK(j)
      BY DEF Inv
  <2>2. flows[j].pc # "gone" => procs'[flows[j].proc] = procs[flows[j].proc]
      BY <1>4, <1>5, <2>1 DEF FlowOK
  <2>3. FlowOK(j)'
      BY <1>1, <1>2, <1>4, <1>6, <2>1, <2>2 DEF FlowOK, Working
  <2>4. ForkedOK(j)'
      BY <1>2, <1>3, <2>1, Zenon DEF ForkedOK
  <2>5. QED  BY <2>3, <2>4
<1>8. ASSUME NEW j \in DOMAIN flows, NEW k \in DOMAIN flows, j # k PROVE Apart(j, k)'
  <2>1. Apart(j, k)
      BY <1>8 DEF Inv
  <2>2. QED  BY <1>2, <2>1 DEF Apart, Working, Calling
<1>9. ASSUME NEW p \in DOMAIN procs PROVE ProcOK(p)' /\ \A j \in DOMAIN flows : Waiting(p, j)'
  <2>1. ProcOK(p) /\ \A j \in DOMAIN flows : Waiting(p, j)
      BY DEF Inv
  <2>2. CASE p # c
      BY <1>1, <1>2, <1>4, <1>6, <2>1, <2>2 DEF ProcOK, Waiting, Runs, Calling
  <2>3. CASE p = c
      BY <1>1, <1>4, <1>6, <2>1, <2>3 DEF ProcOK, Waiting, Runs
  <2>4. QED  BY <2>2, <2>3
<1>10. ASSUME NEW x \in DOMAIN pipes PROVE PipeOK(x)'
  <2>1. PipeOK(x)
      BY DEF Inv
  <2>2. CASE x = fd
    <3>1. ~Returned(fd)
        BY <1>1, <1>5, <2>1, <2>2 DEF PipeOK
    <3>2. ~(Returned(x)')
        BY <1>6, <2>2, <3>1 DEF Returned
    <3>3. QED  BY <3>2 DEF PipeOK
  <2>3. CASE x # fd
    <3>1. pipes'[x] = pipes[x] /\ \A p \in DOMAIN procs : procs'[p].holds \subseteq procs[p].holds
        BY <1>4, <1>6, <2>3
    <3>2. QED  BY <1>4, <2>1, <3>1 DEF PipeOK, Returned
  <2>4. QED  BY <2>2, <2>3
<1>11. 1 \in DOMAIN procs' /\ procs'[1] = procs[1]
    BY <1>4, <1>5 DEF Inv
<1>12. ASSUME NEW x \in procs'[1].holds PROVE ProgramHolds(x)'
  <2>1. PICK k \in DOMAIN flows : /\ flows[k].proc = 1 /\ flows[k].fds1 = x
                                 /\ flows[k].pc \in {"fork", "close", "cleanup", "return"}
      BY <1>11 DEF Inv, ProgramHolds
  <2>2. QED  BY <1>2, <2>1 DEF ProgramHolds
<1>13. QED
    BY <1>1, <1>2, <1>4, <1>6, <1>7, <1>8, <1>9, <1>10, <1>11, <1>12 DEF Inv
-----------------------------------------------------------------------------
(* Types: what the steps do to flows, processes, pipes.                      *)
LEMMA MoveType ==
    ASSUME TypeOK, NEW i \in DOMAIN flows,
           NEW pc \in {"next", "pipe", "fork", "close", "read", "cleanup", "return", "done",
                       "chdir", "popen", "run", "report", "exit", "gone"},
           \/ Goto(i, pc)
           \/ \E r \in Int : flows' = [flows EXCEPT ![i].pc = pc, ![i].ret = r]
           \/ \E a \in Nat : flows' = [flows EXCEPT ![i].pc = pc, ![i].at = a]
    PROVE  flows' \in Seq(Flow)
<1>1. flows \in Seq(Flow) /\ flows[i] \in Flow /\ DOMAIN flows = 1..Len(flows) /\ Len(flows) \in Nat
    BY Typed
<1>2. \A f \in Flow : [flows EXCEPT ![i] = f] \in Seq(Flow)
    BY <1>1
<1>3. CASE Goto(i, pc)
  <2>1. [flows[i] EXCEPT !.pc = pc] \in Flow
      BY <1>1 DEF Flow
  <2>2. QED  BY <1>2, <1>3, <2>1 DEF Goto
<1>4. ASSUME NEW r \in Int, flows' = [flows EXCEPT ![i].pc = pc, ![i].ret = r] PROVE flows' \in Seq(Flow)
  <2>1. [flows[i] EXCEPT !.pc = pc, !.ret = r] \in Flow
      BY <1>1 DEF Flow
  <2>2. QED  BY <1>1, <1>2, <1>4, <2>1
<1>5. ASSUME NEW a \in Nat, flows' = [flows EXCEPT ![i].pc = pc, ![i].at = a] PROVE flows' \in Seq(Flow)
  <2>1. [flows[i] EXCEPT !.pc = pc, !.at = a] \in Flow
      BY <1>1 DEF Flow
  <2>2. QED  BY <1>1, <1>2, <1>5, <2>1
<1>6. QED  BY <1>3, <1>4, <1>5

LEMMA FailType ==
    ASSUME TypeOK, NEW i \in DOMAIN flows, Fail(i)
    PROVE  flows' \in Seq(Flow)
<1>1. EXIT_FAILURE \in Int
    BY DEF EXIT_FAILURE
<1>2. QED  BY <1>1, MoveType DEF Fail

LEMMA ProcessType ==
    ASSUME TypeOK, NEW p \in DOMAIN procs,
           \/ EndProcess(p)
           \/ \E fd : CloseEnd(p, fd)
           \/ procs' = [procs EXCEPT ![p].kind = "background"]
           \/ \E fd \in Nat : procs' = [procs EXCEPT ![p].holds = @ \cup {fd}]
    PROVE  procs' \in Seq(Process)
<1>1. procs \in Seq(Process) /\ procs[p] \in Process
    BY Typed
<1>2. \A x \in Process : [procs EXCEPT ![p] = x] \in Seq(Process)
    BY <1>1
<1>3. CASE EndProcess(p)
  <2>1. [procs[p] EXCEPT !.kind = "gone", !.holds = {}] \in Process
      BY <1>1 DEF Process
  <2>2. QED  BY <1>1, <1>2, <1>3, <2>1 DEF EndProcess
<1>4. ASSUME NEW fd, CloseEnd(p, fd) PROVE procs' \in Seq(Process)
  <2>1. [procs[p] EXCEPT !.holds = @ \ {fd}] \in Process
      BY <1>1 DEF Process
  <2>2. QED  BY <1>1, <1>2, <1>4, <2>1 DEF CloseEnd
<1>5. CASE procs' = [procs EXCEPT ![p].kind = "background"]
  <2>1. [procs[p] EXCEPT !.kind = "background"] \in Process
      BY <1>1 DEF Process
  <2>2. QED  BY <1>1, <1>2, <1>5, <2>1
<1>6. ASSUME NEW fd \in Nat, procs' = [procs EXCEPT ![p].holds = @ \cup {fd}] PROVE procs' \in Seq(Process)
  <2>1. [procs[p] EXCEPT !.holds = @ \cup {fd}] \in Process
      BY <1>1 DEF Process
  <2>2. QED  BY <1>1, <1>2, <1>6, <2>1
<1>7. QED  BY <1>3, <1>4, <1>5, <1>6

LEMMA PipeType ==
    ASSUME TypeOK, NEW fd,
           \/ \E s \in Statuses : pipes' = [pipes EXCEPT ![fd].ret = s]
           \/ \E s \in Statuses : pipes' = [pipes EXCEPT ![fd].status = s]
           \/ pipes' = [pipes EXCEPT ![fd].sent = TRUE]
    PROVE  pipes' \in Seq(Pipe)
<1>1. pipes \in Seq(Pipe)
    BY Typed
<1>2. \A x \in Pipe : \A s \in Statuses : /\ [x EXCEPT !.ret = s] \in Pipe
                                        /\ [x EXCEPT !.status = s] \in Pipe
                                        /\ [x EXCEPT !.sent = TRUE] \in Pipe
    BY DEF Pipe
<1>3. CASE fd \in DOMAIN pipes
  <2>1. pipes[fd] \in Pipe /\ \A x \in Pipe : [pipes EXCEPT ![fd] = x] \in Seq(Pipe)
      BY <1>1, <1>3
  <2>2. ASSUME NEW s \in Statuses, pipes' = [pipes EXCEPT ![fd].ret = s] PROVE pipes' \in Seq(Pipe)
      BY <1>1, <1>2, <1>3, <2>1, <2>2
  <2>3. ASSUME NEW s \in Statuses, pipes' = [pipes EXCEPT ![fd].status = s] PROVE pipes' \in Seq(Pipe)
      BY <1>1, <1>2, <1>3, <2>1, <2>3
  <2>4. CASE pipes' = [pipes EXCEPT ![fd].sent = TRUE]
    <3>1. [pipes[fd] EXCEPT !.sent = TRUE] \in Pipe
        BY <2>1 DEF Pipe
    <3>2. pipes' = [pipes EXCEPT ![fd] = [pipes[fd] EXCEPT !.sent = TRUE]]
        BY <2>4, Zenon
    <3>3. QED  BY <2>1, <3>1, <3>2, Zenon
  <2>5. QED  BY <2>2, <2>3, <2>4
<1>4. CASE fd \notin DOMAIN pipes
    BY <1>1, <1>4
<1>5. QED  BY <1>3, <1>4

LEMMA FaultType ==
    ASSUME TypeOK, nfaults' = nfaults \/ \E kind : Fault(kind)
    PROVE  nfaults' \in 0..MaxFaults
BY ExecAssumption DEF TypeOK, Fault

LEMMA TypeStep == Inv /\ [Next]_vars => TypeOK' /\ ntmps' \in Nat
<1> SUFFICES ASSUME Inv, [Next]_vars PROVE TypeOK' /\ ntmps' \in Nat
    OBVIOUS
<1> USE DEF At
<1>1. TypeOK /\ ntmps \in Nat /\ tmps \subseteq 1..ntmps /\ dirs \subseteq Dirs /\ nodes \in Programs
    BY DEF Inv, TypeOK
<1>2. flows \in Seq(Flow) /\ procs \in Seq(Process) /\ pipes \in Seq(Pipe)
    BY <1>1 DEF TypeOK
<1>3. \A i \in DOMAIN flows : flows[i] \in Flow /\ FlowOK(i) /\ flows[i].proc \in DOMAIN procs
    BY <1>1, Typed DEF Inv, FlowOK
<1>4. ASSUME NEW i, Prepare(i) \/ UnknownUser(i) PROVE TypeOK' /\ ntmps' \in Nat
  <2>1. i \in DOMAIN flows /\ UNCHANGED <<nodes, procs, pipes, dirs>>
      BY <1>4 DEF Prepare, UnknownUser
  <2>2. nodes[flows[i].node].dir \in Dirs \cup {NoDir}
    <3>1. nodes \in Seq(Node) /\ flows[i].node \in DOMAIN nodes
        BY <1>1, <1>3, <2>1, ExecAssumption DEF FlowOK
    <3>2. nodes[flows[i].node] \in Node
        BY <3>1
    <3>3. QED  BY <3>2 DEF Node
  <2>3. ASSUME NEW dir \in Dirs \cup {NoDir}, NEW t \in Nat, NEW pc \in {"pipe", "cleanup"},
               flows' = [flows EXCEPT ![i].pc = pc, ![i].ret = EXIT_FAILURE, ![i].fds1 = 0,
                          ![i].wdir = [name |-> dir, tmp |-> t]]
        PROVE  flows' \in Seq(Flow)
    <3>1. [name |-> dir, tmp |-> t] \in Where
        BY DEF Where
    <3>2. \A w \in Where : [flows[i] EXCEPT !.pc = pc, !.ret = EXIT_FAILURE, !.fds1 = 0, !.wdir = w] \in Flow
      <4>1. \A f \in Flow : \A w \in Where : \A r \in Int :
              [f EXCEPT !.pc = pc, !.ret = r, !.fds1 = 0, !.wdir = w] \in Flow
          BY <2>3 DEF Flow
      <4>2. flows[i] \in Flow /\ EXIT_FAILURE \in Int
          BY <1>3, <2>1 DEF EXIT_FAILURE
      <4>3. QED  BY <4>1, <4>2, Zenon
    <3>3. \A f \in Flow : [flows EXCEPT ![i] = f] \in Seq(Flow)
        BY <1>2, <2>1
    <3>4. [flows[i] EXCEPT !.pc = pc, !.ret = EXIT_FAILURE, !.fds1 = 0, !.wdir = [name |-> dir, tmp |-> t]] \in Flow
        BY <3>1, <3>2
    <3>5. QED  BY <2>1, <2>3, <3>3, <3>4
  <2>4. CASE Prepare(i)
    <3> DEFINE dir == nodes[flows[i].node].dir
               t   == IF dir = NoDir THEN ntmps + 1 ELSE 0
    <3>1. flows' \in Seq(Flow)
      <4>1. flows' = [flows EXCEPT ![i].pc = "pipe", ![i].ret = EXIT_FAILURE, ![i].fds1 = 0,
                       ![i].wdir = [name |-> dir, tmp |-> t]]
          BY <2>4 DEF Prepare
      <4>2. t \in Nat
          BY <1>1
      <4> HIDE DEF dir, t
      <4>3. dir \in Dirs \cup {NoDir}
          BY <2>2 DEF dir
      <4>4. QED  BY <2>3, <4>1, <4>2, <4>3
    <3>2. tmps' \subseteq 1..ntmps' /\ ntmps' \in Nat /\ nfaults' = nfaults
        BY <1>1, <2>4 DEF Prepare
    <3>3. QED  BY <1>1, <1>2, <2>1, <3>1, <3>2 DEF TypeOK
  <2>5. CASE UnknownUser(i)
    <3>1. flows' \in Seq(Flow)
        BY <2>2, <2>3, <2>5 DEF UnknownUser
    <3>2. tmps' = tmps /\ ntmps' = ntmps /\ nfaults' \in 0..MaxFaults
        BY <1>1, <2>5, FaultType DEF UnknownUser
    <3>3. QED  BY <1>1, <1>2, <2>1, <3>1, <3>2 DEF TypeOK
  <2>6. QED  BY <1>4, <2>4, <2>5
<1>5. ASSUME NEW i, Finish(i) \/ NoPipe(i) \/ NoFork(i) \/ SetUser(i) \/ ChangeDirectory(i)
                   \/ NoCommand(i) \/ RemoveDirectory(i)
      PROVE  TypeOK' /\ ntmps' \in Nat
  <2>1. /\ i \in DOMAIN flows /\ UNCHANGED <<nodes, procs, pipes, ntmps>>
        /\ tmps' \subseteq tmps /\ dirs' \subseteq dirs
        /\ Fail(i) \/ \E pc \in {"done", "popen", "return"} : Goto(i, pc)
        /\ nfaults' = nfaults \/ \E kind : Fault(kind)
      BY <1>5 DEF Finish, NoPipe, NoFork, SetUser, ChangeDirectory, NoCommand, RemoveDirectory
  <2>2. flows' \in Seq(Flow)
      BY <1>1, <2>1, MoveType, FailType
  <2>3. nfaults' \in 0..MaxFaults
      BY <1>1, <2>1, FaultType
  <2>4. QED  BY <1>1, <1>2, <2>1, <2>2, <2>3 DEF TypeOK
<1>6. ASSUME NEW i, MakePipe(i) PROVE TypeOK' /\ ntmps' \in Nat
  <2> DEFINE fd == Len(pipes) + 1
  <2>1. i \in DOMAIN flows /\ flows[i] \in Flow /\ UNCHANGED <<nodes, tmps, ntmps, dirs, nfaults>>
      BY <1>3, <1>6 DEF MakePipe
  <2>2. pipes' \in Seq(Pipe) /\ fd \in Nat
    <3>1. [status |-> NoStatus, sent |-> FALSE, ret |-> NoStatus] \in Pipe
        BY DEF Pipe
    <3>2. QED  BY <1>2, <1>6, <3>1 DEF MakePipe
  <2>3. flows' \in Seq(Flow)
    <3>1. [flows[i] EXCEPT !.pc = "fork", !.fds1 = fd] \in Flow
        BY <2>1, <2>2 DEF Flow
    <3>2. \A f \in Flow : [flows EXCEPT ![i] = f] \in Seq(Flow)
        BY <1>2, <2>1
    <3>3. flows' = [flows EXCEPT ![i].pc = "fork", ![i].fds1 = fd]
        BY <1>6 DEF MakePipe
    <3>4. QED  BY <2>1, <3>1, <3>2, <3>3
  <2>4. procs' \in Seq(Process)
      BY <1>1, <1>3, <1>6, <2>1, <2>2, ProcessType DEF MakePipe
  <2>5. QED  BY <1>1, <2>1, <2>2, <2>3, <2>4 DEF TypeOK
<1>7. ASSUME NEW i, Fork(i) PROVE TypeOK' /\ ntmps' \in Nat
  <2>1. i \in DOMAIN flows /\ flows[i] \in Flow /\ UNCHANGED <<nodes, pipes, tmps, ntmps, dirs, nfaults>>
      BY <1>3, <1>7 DEF Fork
  <2>2. procs' \in Seq(Process)
    <3>1. procs[flows[i].proc] \in Process
        BY <1>2, <1>3, <2>1
    <3>2. QED  BY <1>2, <1>7, <3>1 DEF Fork
  <2>3. flows' \in Seq(Flow)
    <3>1. [flows[i] EXCEPT !.pc = "close"] \in Flow
        BY <2>1 DEF Flow
    <3>2. Len(procs) + 1 \in Nat
        BY <1>2
    <3>3. [flows[i] EXCEPT !.proc = Len(procs) + 1, !.forked = TRUE, !.pc = "chdir"] \in Flow
        BY <2>1, <3>2 DEF Flow
    <3>4. \A f \in Flow : [flows EXCEPT ![i] = f] \in Seq(Flow)
        BY <1>2, <2>1
    <3>5. [flows EXCEPT ![i].pc = "close"] \in Seq(Flow)
        BY <3>1, <3>4
    <3>6. \A s \in Seq(Flow) : \A f \in Flow : Append(s, f) \in Seq(Flow)
        OBVIOUS
    <3>7. QED  BY <1>7, <3>3, <3>5, <3>6, Zenon DEF Fork
  <2>4. QED  BY <1>1, <1>2, <2>1, <2>2, <2>3 DEF TypeOK
<1>8. ASSUME NEW i, CloseWriteEnd(i) \/ Return(i) PROVE TypeOK' /\ ntmps' \in Nat
  <2>1. /\ i \in DOMAIN flows /\ UNCHANGED <<nodes, pipes, tmps, ntmps, dirs, nfaults>>
        /\ CloseEnd(flows[i].proc, flows[i].fds1)
      BY <1>8 DEF CloseWriteEnd, Return
  <2>2. procs' \in Seq(Process)
      BY <1>1, <1>3, <2>1, ProcessType
  <2>3. CASE CloseWriteEnd(i)
    <3>1. flows' \in Seq(Flow)
        BY <1>1, <2>1, <2>3, MoveType DEF CloseWriteEnd
    <3>2. QED  BY <1>1, <1>2, <2>1, <2>2, <3>1 DEF TypeOK
  <2>4. CASE Return(i)
    <3>1. flows[i].at + 1 \in Nat
        BY <1>3, <2>1 DEF Flow
    <3>2. flows' = [flows EXCEPT ![i].pc = "next", ![i].at = flows[i].at + 1]
        BY <1>2, <2>1, <2>4 DEF Return
    <3>3. flows' \in Seq(Flow)
        BY <1>1, <2>1, <3>1, <3>2, MoveType
    <3>4. QED  BY <1>1, <1>2, <2>1, <2>2, <3>3 DEF TypeOK
  <2>5. QED  BY <1>8, <2>3, <2>4
<1>9. ASSUME NEW i, EndOfFile(i) PROVE TypeOK' /\ ntmps' \in Nat
  <2>1. i \in DOMAIN flows /\ UNCHANGED <<nodes, procs, tmps, ntmps, dirs, nfaults>>
      BY <1>9 DEF EndOfFile
  <2>2. PICK s \in Statuses : /\ flows' = [flows EXCEPT ![i].pc = "cleanup", ![i].ret = s]
                             /\ pipes' = [pipes EXCEPT ![flows[i].fds1].ret = s]
      BY <1>9 DEF EndOfFile
  <2>3. s \in Int
      BY ExecAssumption
  <2>4. flows' \in Seq(Flow)
      BY <1>1, <2>1, <2>2, <2>3, MoveType
  <2>5. pipes' \in Seq(Pipe)
      BY <1>1, <2>2, PipeType
  <2>6. QED  BY <1>1, <1>2, <2>1, <2>4, <2>5 DEF TypeOK
<1>10. ASSUME NEW i, StartCommand(i) PROVE TypeOK' /\ ntmps' \in Nat
  <2>1. i \in DOMAIN flows /\ flows[i] \in Flow /\ UNCHANGED <<nodes, pipes, tmps, ntmps, dirs, nfaults>>
      BY <1>3, <1>10 DEF StartCommand
  <2>2. flows' \in Seq(Flow)
      BY <1>1, <1>10, <2>1, MoveType DEF StartCommand
  <2>3. procs' \in Seq(Process)
    <3>1. procs[flows[i].proc] \in Process
        BY <1>2, <1>3, <2>1
    <3>2. flows[i].fds1 \in Nat /\ flows[i].wdir \in Where
        BY <1>1, <2>1, Typed
    <3>3. [procs[flows[i].proc] EXCEPT !.kind = "command", !.pipe = flows[i].fds1, !.cwd = flows[i].wdir] \in Process
        BY <3>1, <3>2 DEF Process
    <3>4. QED  BY <1>2, <1>10, <3>3 DEF StartCommand
  <2>4. QED  BY <1>1, <1>2, <2>1, <2>2, <2>3 DEF TypeOK
<1>11. ASSUME NEW i, SendStatus(i) PROVE TypeOK' /\ ntmps' \in Nat
  <2>1. i \in DOMAIN flows /\ UNCHANGED <<nodes, procs, tmps, ntmps, dirs, nfaults>>
      BY <1>11 DEF SendStatus
  <2>2. flows' \in Seq(Flow) /\ pipes' \in Seq(Pipe)
      BY <1>1, <1>11, <2>1, MoveType, PipeType DEF SendStatus
  <2>3. QED  BY <1>1, <1>2, <2>1, <2>2 DEF TypeOK
<1>12. ASSUME NEW i, Exit(i) \/ Kill(i) \/ DuplicateEnds(i) PROVE TypeOK' /\ ntmps' \in Nat
  <2>1. /\ i \in DOMAIN flows /\ UNCHANGED <<nodes, pipes, tmps, ntmps, dirs>>
        /\ EndProcess(flows[i].proc) /\ Goto(i, "gone")
        /\ nfaults' = nfaults \/ \E kind : Fault(kind)
      BY <1>12 DEF Exit, Kill, DuplicateEnds
  <2>2. flows' \in Seq(Flow) /\ procs' \in Seq(Process)
      BY <1>1, <1>3, <2>1, MoveType, ProcessType
  <2>3. nfaults' \in 0..MaxFaults
      BY <1>1, <2>1, FaultType
  <2>4. QED  BY <1>1, <1>2, <2>1, <2>2, <2>3 DEF TypeOK
<1>13. ASSUME NEW p, NEW s \in Statuses, CommandEnds(p, s) PROVE TypeOK' /\ ntmps' \in Nat
  <2>1. /\ p \in DOMAIN procs /\ UNCHANGED <<nodes, tmps, ntmps, dirs>>
        /\ pipes' = [pipes EXCEPT ![procs[p].pipe].status = s]
        /\ flows' = [j \in DOMAIN flows |->
                       IF flows[j].pc = "run" /\ flows[j].fds1 = procs[p].pipe
                       THEN [flows[j] EXCEPT !.pc = "report"] ELSE flows[j]]
        /\ EndProcess(p) \/ procs' = [procs EXCEPT ![p].kind = "background"]
        /\ nfaults' = nfaults \/ \E kind : Fault(kind)
      BY <1>13 DEF CommandEnds
  <2>2. pipes' \in Seq(Pipe) /\ procs' \in Seq(Process)
      BY <1>1, <2>1, PipeType, ProcessType
  <2>3. flows' \in Seq(Flow)
    <3>1. \A f \in Flow : [f EXCEPT !.pc = "report"] \in Flow
        BY DEF Flow
    <3>2. \A j \in DOMAIN flows : flows'[j] \in Flow
        BY <1>3, <2>1, <3>1
    <3>3. DOMAIN flows' = 1..Len(flows) /\ Len(flows) \in Nat
        BY <1>2, <2>1
    <3>4. QED  BY <1>2, <2>1, <3>2, <3>3
  <2>4. nfaults' \in 0..MaxFaults
      BY <1>1, <2>1, FaultType
  <2>5. QED  BY <1>1, <1>2, <2>1, <2>2, <2>3, <2>4 DEF TypeOK
<1>14. ASSUME NEW p, BackgroundEnds(p) PROVE TypeOK' /\ ntmps' \in Nat
  <2>1. p \in DOMAIN procs /\ EndProcess(p) /\ UNCHANGED <<nodes, flows, pipes, tmps, ntmps, dirs, nfaults>>
      BY <1>14 DEF BackgroundEnds
  <2>2. procs' \in Seq(Process)
      BY <1>1, <2>1, ProcessType
  <2>3. QED  BY <1>1, <1>2, <2>1, <2>2 DEF TypeOK
<1>15. CASE UNCHANGED vars
    BY <1>1, <1>2, <1>15 DEF vars, TypeOK
<1>16. QED
    BY <1>4, <1>5, <1>6, <1>7, <1>8, <1>9, <1>10, <1>11, <1>12, <1>13, <1>14, <1>15
       DEF Next, OwnStep, LongStep, FlowStep
-----------------------------------------------------------------------------
LEMMA InvInit == Init => Inv
<1> SUFFICES ASSUME Init PROVE Inv
    OBVIOUS
<1>1. nodes \in Seq(Node)
    BY ExecAssumption DEF Init
<1>2. Nowhere \in Where /\ EXIT_FAILURE \in Int /\ Nowhere.tmp = 0 /\ Nowhere.name = NoDir
    BY DEF Nowhere, Where, EXIT_FAILURE
<1>3. /\ procs = <<[kind |-> "program", holds |-> {}, pipe |-> 0, cwd |-> Nowhere]>>
      /\ pipes = <<>> /\ tmps = {} /\ ntmps = 0 /\ nfaults = 0 /\ dirs \subseteq Dirs /\ nodes \in Programs
    BY DEF Init
<1>4. /\ DOMAIN procs = {1} /\ procs[1].kind = "program" /\ procs[1].holds = {}
      /\ procs \in Seq(Process) /\ pipes \in Seq(Pipe) /\ DOMAIN pipes = {}
  <2>1. [kind |-> "program", holds |-> {}, pipe |-> 0, cwd |-> Nowhere] \in Process
      BY <1>2 DEF Process
  <2>2. QED  BY <1>3, <2>1
<1>5. /\ DOMAIN flows = DOMAIN nodes
      /\ \A i \in DOMAIN flows : flows[i] = [proc |-> 1, node |-> i, at |-> 1, forked |-> FALSE, wdir |-> Nowhere,
                                            fds1 |-> 0, ret |-> EXIT_FAILURE, pc |-> "next"]
    BY DEF Init
<1>6. flows \in Seq(Flow)
  <2>1. DOMAIN nodes = 1..Len(nodes) /\ Len(nodes) \in Nat
      BY <1>1
  <2>2. \A i \in DOMAIN flows : flows[i] \in Flow
    <3>1. \A n \in Nat : \A w \in Where : \A r \in Int :
            [proc |-> 1, node |-> n, at |-> 1, forked |-> FALSE, wdir |-> w,
             fds1 |-> 0, ret |-> r, pc |-> "next"] \in Flow
        BY DEF Flow
    <3>2. \A i \in DOMAIN flows : i \in Nat
        BY <1>5, <2>1
    <3>3. QED  BY <1>2, <1>5, <3>1, <3>2, Zenon
  <2>3. flows = [i \in 1..Len(nodes) |-> flows[i]]
      BY <2>1 DEF Init
  <2>4. QED  BY <1>5, <2>1, <2>2, <2>3
<1>7. TypeOK
    BY <1>3, <1>4, <1>6, ExecAssumption DEF TypeOK
<1>8. ASSUME NEW i \in DOMAIN flows PROVE FlowOK(i) /\ ForkedOK(i)
  <2>1. FlowOK(i)
      BY <1>2, <1>3, <1>4, <1>5 DEF FlowOK, Working
  <2>2. ForkedOK(i)
    <3>1. flows[i].forked = FALSE
        BY <1>5
    <3>2. QED  BY <3>1, Zenon DEF ForkedOK
  <2>3. QED  BY <2>1, <2>2
<1>9. \A i, j \in DOMAIN flows : i # j => Apart(i, j)
    BY <1>5 DEF Apart, Calling
<1>10. \A p \in DOMAIN procs : ProcOK(p) /\ \A j \in DOMAIN flows : Waiting(p, j)
    BY <1>4 DEF ProcOK, Waiting, Runs
<1>11. QED  BY <1>3, <1>4, <1>7, <1>8, <1>9, <1>10 DEF Inv

LEMMA InvStep == Inv /\ [Next]_vars => Inv'
<1> SUFFICES ASSUME Inv, [Next]_vars PROVE Inv'
    OBVIOUS
<1>1. TypeOK' /\ ntmps' \in Nat
    BY TypeStep
<1>2. ASSUME NEW i \in DOMAIN flows, FlowStep(i) PROVE Inv'
  <2>1. CASE Prepare(i) \/ UnknownUser(i)
      BY <1>1, <2>1, BeginInv
  <2>2. CASE \/ Finish(i) \/ NoPipe(i) \/ NoFork(i) \/ SetUser(i) \/ ChangeDirectory(i) \/ NoCommand(i)
             \/ RemoveDirectory(i)
      BY <1>1, <2>2, MoveInv
  <2>3. CASE MakePipe(i)
      BY <1>1, <2>3, MakePipeInv
  <2>4. CASE Fork(i)
      BY <1>1, <2>4, ForkInv
  <2>5. CASE CloseWriteEnd(i) \/ Return(i)
      BY <1>1, <2>5, CloseInv
  <2>6. CASE EndOfFile(i)
      BY <1>1, <2>6, EndOfFileInv
  <2>7. CASE StartCommand(i)
      BY <1>1, <2>7, StartCommandInv
  <2>8. CASE SendStatus(i)
      BY <1>1, <2>8, SendStatusInv
  <2>9. CASE Exit(i)
      BY <1>1, <2>9, EndInv
  <2>10. QED
      BY <1>2, <2>1, <2>2, <2>3, <2>4, <2>5, <2>6, <2>7, <2>8, <2>9 DEF FlowStep
<1>3. ASSUME NEW i \in DOMAIN flows, Kill(i) \/ DuplicateEnds(i) PROVE Inv'
    BY <1>1, <1>3, EndInv
<1>4. ASSUME NEW p \in DOMAIN procs, NEW s \in Statuses, CommandEnds(p, s) PROVE Inv'
    BY <1>1, <1>4, CommandEndsInv
<1>5. ASSUME NEW p \in DOMAIN procs, BackgroundEnds(p) PROVE Inv'
    BY <1>1, <1>5, BackgroundEndsInv
<1>6. CASE UNCHANGED vars
  <2>1. UNCHANGED <<nodes, flows, procs, pipes, tmps, ntmps>>
      BY <1>6 DEF vars
  <2>2. ASSUME NEW i \in DOMAIN flows PROVE FlowOK(i)' /\ ForkedOK(i)'
    <3>1. FlowOK(i) /\ ForkedOK(i)
        BY DEF Inv
    <3>2. FlowOK(i)'
        BY <2>1, <3>1 DEF FlowOK, Working
    <3>3. ForkedOK(i)'
        BY <2>1, <3>1, Zenon DEF ForkedOK
    <3>4. QED  BY <3>2, <3>3
  <2>3. \A i, j \in DOMAIN flows : i # j => Apart(i, j)'
      BY <2>1 DEF Inv, Apart, Working, Calling
  <2>4. \A p \in DOMAIN procs : ProcOK(p)' /\ \A j \in DOMAIN flows : Waiting(p, j)'
      BY <2>1 DEF Inv, ProcOK, Waiting, Runs, Calling
  <2>5. \A fd \in DOMAIN pipes : PipeOK(fd)'
      BY <2>1 DEF Inv, PipeOK, Returned
  <2>6. \A fd \in procs[1].holds : ProgramHolds(fd)'
      BY <2>1 DEF Inv, ProgramHolds
  <2>7. QED  BY <1>1, <2>1, <2>2, <2>3, <2>4, <2>5, <2>6 DEF Inv
<1>7. QED
    BY <1>2, <1>3, <1>4, <1>5, <1>6 DEF Next, OwnStep, LongStep

LEMMA Invariance == Spec => []Inv
BY InvInit, InvStep, PTL DEF Spec

(* Every flow, process and pipe is one, for any number of threads.            *)
THEOREM TypeCorrect == Spec => []TypeOK
<1>1. Inv => TypeOK
    BY DEF Inv
<1>2. QED  BY <1>1, Invariance, PTL

(* kbexec.c:201-233: however many threads run commands and fork at the same    *)
(* time, and whatever fails, a status is read after the command has ended,    *)
(* and is the one sent if one was.                                          *)
THEOREM StatusIsTheCommands == Spec => []StatusIsCommands
<1>1. Inv => StatusIsCommands
  <2> SUFFICES ASSUME Inv, NEW fd \in DOMAIN pipes, Returned(fd)
               PROVE  /\ pipes[fd].sent => pipes[fd].ret = pipes[fd].status
                      /\ \A p \in DOMAIN procs : ~(Runs(p) /\ procs[p].pipe = fd)
      BY DEF StatusIsCommands
  <2>1. PipeOK(fd) /\ \A p \in DOMAIN procs : ProcOK(p)
      BY DEF Inv
  <2>2. QED  BY <2>1 DEF PipeOK, ProcOK
<1>2. QED  BY <1>1, Invariance, PTL

(* kbexec.c:196-230, 263-268: once a call has its status no process is         *)
(* left that could write to its pipe, and between two calls no descriptor of   *)
(* the program is left open, not even after an error.                       *)
THEOREM NothingLeftOpen == Spec => []NoWriterAfterReturn
<1>1. Inv => NoWriterAfterReturn
    BY DEF Inv, PipeOK, ProgramHolds, NoWriterAfterReturn
<1>2. QED  BY <1>1, Invariance, PTL

(* kbexec.c:174-192, 242-256: no command runs in a temporary directory that    *)
(* somebody has removed.                                                    *)
THEOREM DirectoryOutlivesCommand == Spec => []TemporaryStays
<1>1. Inv => TemporaryStays
    BY DEF Inv, ProcOK, TemporaryStays, Exists
<1>2. QED  BY <1>1, Invariance, PTL
=============================================================================
