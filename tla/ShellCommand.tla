---------------------------- MODULE ShellCommand ----------------------------
(***************************************************************************)
(* Helpers::run_command: a child process writes lines into a pipe; the     *)
(* parent waits for the child to exit and only then reads the pipe, line   *)
(* by line, until it is empty and closed.                                  *)
(***************************************************************************)
EXTENDS Naturals

CONSTANTS
    PipeSize, \* lines the pipe holds: external
    MaxLines  \* bound: lines the child writes

ASSUME ShellAssumption == PipeSize \in Nat /\ MaxLines \in Nat

VARIABLES
    lines,   \* lines the child will have written when it exits
    written, \* lines it has written
    pipe,    \* lines in the pipe
    child,   \* "running" or "exited"
    parent,  \* "waiting", "reading" or "returned"
    output   \* lines in the string that is returned

shellVars == <<lines, written, pipe, child, parent, output>>

ShellInit ==
    /\ lines \in 0 .. MaxLines /\ written = 0 /\ pipe = 0 /\ child = "running"
    /\ parent = "waiting" /\ output = 0

\* A line goes into the pipe when there is room for it: else the child waits.
ChildWrites ==
    /\ child = "running" /\ written < lines /\ pipe < PipeSize
    /\ written' = written + 1 /\ pipe' = pipe + 1
    /\ UNCHANGED <<lines, child, parent, output>>

ChildExits ==
    /\ child = "running" /\ written = lines
    /\ child' = "exited"
    /\ UNCHANGED <<lines, written, pipe, parent, output>>

Wait ==
    /\ parent = "waiting" /\ child = "exited"
    /\ parent' = "reading"
    /\ UNCHANGED <<lines, written, pipe, child, output>>

\* Mutant: the line that getline fails at is kept.
GetLineAgain ==
    /\ parent = "reading"
    /\ \/ pipe > 0 /\ pipe' = pipe - 1 /\ output' = output + 1 /\ parent' = parent
       \/ pipe = 0 /\ parent' = "returned" /\ output' = output + 1 /\ pipe' = pipe
    /\ UNCHANGED <<lines, written, child>>

\* getline takes a line, or fails at the end of the pipe, which ends the loop.
GetLine ==
    /\ parent = "reading"
    /\ \/ pipe > 0 /\ pipe' = pipe - 1 /\ output' = output + 1 /\ parent' = parent
       \/ /\ pipe = 0 /\ child = "exited"
          /\ parent' = "returned" /\ UNCHANGED <<pipe, output>>
    /\ UNCHANGED <<lines, written, child>>

RunCommand == ChildWrites \/ ChildExits \/ Wait \/ GetLine

ShellSpec == ShellInit /\ [][RunCommand]_shellVars /\ WF_shellVars(RunCommand)

-----------------------------------------------------------------------------
\* A command whose output fits the pipe returns all of it, once; one that
\* writes more never returns, for then parent and child wait for each other
\* (helpers.cpp:46-51).
ReturnsWhatFits ==
    /\ lines <= PipeSize => <>(parent = "returned" /\ output = lines)
    /\ lines > PipeSize => [](parent # "returned")

=============================================================================
