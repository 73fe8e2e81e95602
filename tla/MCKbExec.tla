------------------------------ MODULE MCKbExec ------------------------------
(***************************************************************************)
(* Two threads with a command each, one in a temporary directory and one in a  *)
(* directory that may be missing; and one thread with two commands.         *)
(***************************************************************************)
EXTENDS KbExec

CONSTANT d

MCDirs == {d}
Uses(dir, n) == [dir |-> dir, execs |-> n]

MCPrograms == {<<Uses(NoDir, 1), Uses(d, 1)>>, <<Uses(d, 2)>>, <<Uses(NoDir, 2)>>}
MCOneThread == {<<Uses(d, 2)>>}

(* Success, and any failure: here the one of pclose itself.                  *)
MCStatuses == {0, -1}
MCFaults == {"user", "pipe", "fork", "setuid", "popen", "kill", "background"}
=============================================================================
