--------------------------- MODULE ProcessScripts ---------------------------
(***************************************************************************)
(* What the shell scripts of runtime.rs do inside one sandbox: the launch  *)
(* script and the wrapper it leaves running, the inspect script, the cancel*)
(* script.  Each process has a directory .hyperbox/processes/<id> there;   *)
(* files[p] is what it holds ("dir" while it exists).                      *)
(*                                                                         *)
(* The scripts run on their own: no request of the control plane waits in  *)
(* lock step with them.  A written pid file is taken as atomic (a torn one *)
(* reads as `lost`, which the grace period already treats as starting);    *)
(* the exit_code file is not, because nothing protects its reader.  A pid  *)
(* is not used again.  A cancel reaches only part of a process tree, see   *)
(* KillPass; a kill from outside hyperbox takes the whole tree (Die).      *)
(***************************************************************************)
CONSTANTS Processes      \* process ids

VARIABLES phase,         \* of each launch script
          run,           \* of each wrapper: its command, then the wrapper alone
          truth,         \* the exit code the command really ended with
          code,          \* the content of the exit_code file ("" until it is written)
          files          \* the files in the process directory

scripts == <<phase, run, truth, code, files>>

Phases == {"unborn", "recorded", "script", "spawned", "launched", "failed"}
Runs   == {"none", "command", "orphan", "wrapper", "ended"}   \* orphan: without its wrapper
Codes  == {"", "0", "1"}                         \* "1" stands for every non-zero code
Files  == {"dir", "pid", "exit_code", "cancelled"}

ScriptsInit ==
    /\ phase = [p \in Processes |-> "unborn"]
    /\ run = [p \in Processes |-> "none"]
    /\ truth = [p \in Processes |-> ""]
    /\ code = [p \in Processes |-> ""]
    /\ files = [p \in Processes |-> {}]

\* The launch script: mkdir, truncate the logs, remove what an earlier attempt left,
\* and start the wrapper in the background.
Spawn(p) ==
    /\ phase[p] = "script"
    /\ phase' = [phase EXCEPT ![p] = "spawned"]
    /\ run' = [run EXCEPT ![p] = "command"]
    /\ files' = [files EXCEPT ![p] = {"dir"}]
    /\ UNCHANGED <<truth, code>>

\* Its last command writes the pid file, where the directory still exists.
WritePid(p) ==
    /\ phase[p] = "spawned"
    /\ "dir" \in files[p]
    /\ phase' = [phase EXCEPT ![p] = "launched"]
    /\ files' = [files EXCEPT ![p] = @ \cup {"pid"}]
    /\ UNCHANGED <<run, truth, code>>

\* `set -e`: the script fails before it starts the wrapper, or at the pid file when the
\* directory is no longer there.
LaunchFails(p) ==
    /\ \/ phase[p] = "script"
       \/ phase[p] = "spawned" /\ "dir" \notin files[p]
    /\ phase' = [phase EXCEPT ![p] = "failed"]
    /\ UNCHANGED <<run, truth, code, files>>

\* The command ends; its wrapper opens exit_code, which is empty for a moment.
CommandEnds(p) ==
    /\ run[p] \in {"command", "orphan"}
    /\ \E c \in {"0", "1"} : truth' = [truth EXCEPT ![p] = c]
    /\ IF run[p] = "command" /\ "dir" \in files[p]
       THEN /\ run' = [run EXCEPT ![p] = "wrapper"]
            /\ files' = [files EXCEPT ![p] = @ \cup {"exit_code"}]
       ELSE /\ run' = [run EXCEPT ![p] = "ended"]
            /\ UNCHANGED files
    /\ UNCHANGED <<phase, code>>

\* The wrapper writes the code and exits with it.
WrapperEnds(p) ==
    /\ run[p] = "wrapper"
    /\ run' = [run EXCEPT ![p] = "ended"]
    /\ code' = [code EXCEPT ![p] = truth[p]]
    /\ UNCHANGED <<phase, truth, files>>

\* The process tree is killed from outside hyperbox and leaves no exit code.
Die(p) ==
    /\ run[p] = "command"
    /\ run' = [run EXCEPT ![p] = "ended"]
    /\ UNCHANGED <<phase, truth, code, files>>

ScriptsStep(p) ==
    Spawn(p) \/ WritePid(p) \/ LaunchFails(p) \/ CommandEnds(p) \/ WrapperEnds(p) \/ Die(p)

-----------------------------------------------------------------------------
(* The inspect script tests for exit_code first, and only then for the pid.*)

HasExitCode(p) == "exit_code" \in files[p]

\* A mutant of ExitVerdict: only a code that says so is a failure.
ExitVerdictLenient(p) ==
    [verdict |-> IF "cancelled" \in files[p] THEN "cancelled"
                 ELSE IF code[p] = "1" THEN "failed" ELSE "succeeded",
     code    |-> code[p]]

\* Verdict and code, when there is an exit_code file.
ExitVerdict(p) ==
    [verdict |-> IF "cancelled" \in files[p] THEN "cancelled"
                 ELSE IF code[p] = "0" THEN "succeeded" ELSE "failed",
     code    |-> code[p]]

\* Verdict of the rest of the script, entered when there was none: kill -0 succeeds
\* as long as the wrapper is there.
PidVerdict(p) ==
    [verdict |-> IF "pid" \notin files[p] THEN "starting"
                 ELSE IF run[p] \in {"command", "wrapper"} THEN "running"
                 ELSE IF "cancelled" \in files[p] THEN "cancelled"
                 ELSE "lost",
     code    |-> ""]

\* One of the two passes of the cancel script, TERM and then KILL, over a wrapper that
\* lives.  Its recursion shares the variable `target`, so with pgrep it hits the last
\* leaf of the tree only: a hit command ends by CommandEnds, unless it ignores TERM or
\* was no leaf.  The wrapper itself is hit when no child of it was found: it had none
\* yet or any more, it was just about to fork, or pgrep is missing.
KillPass(p) ==
    /\ \/ UNCHANGED run
       \/ run[p] = "command" /\ run' = [run EXCEPT ![p] = "orphan"]
       \/ run[p] \in {"command", "wrapper"} /\ run' = [run EXCEPT ![p] = "ended"]
    /\ UNCHANGED <<phase, truth, code, files>>

\* write_file of the cancelled marker, which creates the directory it needs.
Mark(p) ==
    /\ files' = [files EXCEPT ![p] = @ \cup {"dir", "cancelled"}]
    /\ UNCHANGED <<phase, run, truth, code>>
=============================================================================
