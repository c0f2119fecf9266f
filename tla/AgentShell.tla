----------------------------- MODULE AgentShell -----------------------------
(***************************************************************************)
(* The interactive shell: AgentService::shell                              *)
(* (crates/hyperbox-agent/src/daemon.rs) with the client at the other end  *)
(* of its two streams, open_shell_via_agent_stream of the CLI (main.rs).   *)
(*                                                                         *)
(* The service is three tasks, one that feeds the shell's standard input   *)
(* and one for each of its outputs; all send on one bounded channel.  The  *)
(* shell reads what it is fed, writes, and exits when it likes or when its *)
(* input ends; it may leave a background process that holds its outputs.   *)
(***************************************************************************)
EXTENDS Naturals, Sequences

CONSTANTS ChannelSize,   \* events in the channel, 64 in the code
          PipeSize,      \* chunks in one of the shell's pipes
          MaxTyped,      \* chunks the user types (a bound)
          MaxOutput      \* chunks that are written to each output (a bound)

Streams == {"stdout", "stderr"}

ASSUME ShellAssumption ==
    /\ ChannelSize \in Nat \ {0} /\ PipeSize \in Nat \ {0}
    /\ MaxTyped \in Nat /\ MaxOutput \in [Streams -> Nat]

VARIABLES user,          \* the client: "none", "on", "closed", "left" or "ended"
          typed,         \* chunks the user has typed
          inbound,       \* messages on their way to the service
          feeder,        \* the task that feeds the shell, and ends the call
          stdin,         \* chunks in the shell's input; "eof" once it is closed
          child,         \* the shell: "none", "running", "exited", or writing to an output
          holder,        \* a background process holds its outputs
          written,       \* chunks written to each output so far
          pipe,          \* chunks in each output's pipe
          reader,        \* the task of each output: "reads", "holds" a chunk, "done"
          channel,       \* events on their way to the client
          seen           \* the client's account of events: chunks by stream, and the end

service == <<feeder, stdin, reader>>
shellVars == <<user, typed, inbound, service, child, holder, written, pipe, channel, seen>>

Nothing == [s \in Streams |-> 0]

ShellInit ==
    /\ user = "none" /\ typed = 0
    /\ inbound = <<>> /\ channel = <<>>
    /\ feeder = "none"
    /\ stdin = [chunks |-> 0, eof |-> FALSE]
    /\ child = "none" /\ holder = FALSE
    /\ written = Nothing /\ pipe = Nothing
    /\ reader = [s \in Streams |-> "none"]
    /\ seen = [chunks |-> Nothing, end |-> "none"]

Gone == user \in {"left", "ended"}

\* A mutant of CanSend: the channel holds one event too many.
CanSendOneMore == Len(channel) <= ChannelSize \/ Gone

\* tx.send: it waits for room in the channel, and fails at once when the client is gone.
CanSend == Len(channel) < ChannelSize \/ Gone

Send(event) == channel' = IF Gone THEN channel ELSE Append(channel, event)

-----------------------------------------------------------------------------
(* The client.                                                             *)

OpenShell ==
    /\ user = "none"
    /\ user' = "on"
    /\ inbound' = <<"open">>
    /\ feeder' = "opening"
    /\ UNCHANGED <<typed, stdin, reader, child, holder, written, pipe, channel, seen>>

\* stdin_task: a chunk of input, or its end.
UserTypes ==
    /\ user = "on" /\ typed < MaxTyped
    /\ typed' = typed + 1
    /\ inbound' = Append(inbound, "stdin")
    /\ UNCHANGED <<user, service, child, holder, written, pipe, channel, seen>>

UserCloses ==
    /\ user = "on"
    /\ user' = "closed"
    /\ inbound' = Append(inbound, "close")
    /\ UNCHANGED <<typed, service, child, holder, written, pipe, channel, seen>>

\* The client goes away with both streams.
UserLeaves ==
    /\ user \in {"on", "closed"}
    /\ user' = "left"
    /\ channel' = <<>>
    /\ UNCHANGED <<typed, inbound, service, child, holder, written, pipe, seen>>

\* The loop over the events: output is shown, the exit code ends it.
ClientReads ==
    LET event == Head(channel) IN
    /\ user \in {"on", "closed"} /\ channel # <<>>
    /\ channel' = Tail(channel)
    /\ IF event \in Streams
       THEN seen' = [seen EXCEPT !.chunks[event] = @ + 1] /\ UNCHANGED user
       ELSE IF event = "error" THEN UNCHANGED <<seen, user>>
       ELSE seen' = [seen EXCEPT !.end = event] /\ user' = "ended"
    /\ UNCHANGED <<typed, inbound, service, child, holder, written, pipe>>

-----------------------------------------------------------------------------
(* AgentService::shell                                                     *)

\* The first message, the sandbox's root and the spawn, any of which may fail; the stream
\* of a call that returns early ends without an exit code.
OpenFails ==
    /\ feeder = "opening" /\ CanSend
    /\ \/ feeder' = "over" /\ Send("status")
       \/ feeder' = "exit" /\ Send("error")
    /\ UNCHANGED <<user, typed, inbound, stdin, reader, child, holder, written, pipe, seen>>

OpenService ==
    /\ feeder = "opening" /\ inbound # <<>>
    /\ inbound' = Tail(inbound)
    /\ feeder' = "listens"
    /\ child' = "running"
    /\ reader' = [s \in Streams |-> "reads"]
    /\ UNCHANGED <<user, typed, stdin, holder, written, pipe, channel, seen>>

DropStdin == stdin' = [stdin EXCEPT !.eof = TRUE] /\ feeder' = "waits"

\* The loop over the client's messages.  A write to a shell that has exited is an error.
Listen ==
    /\ feeder = "listens"
    /\ inbound # <<>> \/ Gone
    /\ inbound' = IF inbound = <<>> THEN <<>> ELSE Tail(inbound)
    /\ IF inbound # <<>> /\ Head(inbound) = "stdin"
       THEN feeder' = "writes" /\ UNCHANGED stdin
       ELSE DropStdin
    /\ UNCHANGED <<user, typed, reader, child, holder, written, pipe, channel, seen>>

WriteStdin ==
    /\ feeder = "writes"
    /\ \/ /\ child = "running" /\ stdin.chunks < PipeSize
          /\ stdin' = [stdin EXCEPT !.chunks = @ + 1]
          /\ feeder' = "listens" /\ UNCHANGED channel
       \/ /\ child = "exited" /\ CanSend
          /\ Send("error") /\ DropStdin
    /\ UNCHANGED <<user, typed, inbound, reader, child, holder, written, pipe, seen>>

\* A mutant of Join: the tasks of the outputs are not joined.
JoinChildOnly ==
    /\ feeder = "waits" /\ child = "exited"
    /\ feeder' = "exit"
    /\ UNCHANGED <<user, typed, inbound, stdin, reader, child, holder, written, pipe, channel, seen>>

\* child.wait and the two joins.
Join ==
    /\ feeder = "waits" /\ child = "exited"
    /\ \A s \in Streams : reader[s] = "done"
    /\ feeder' = "exit"
    /\ UNCHANGED <<user, typed, inbound, stdin, reader, child, holder, written, pipe, channel, seen>>

SendExit ==
    /\ feeder = "exit" /\ CanSend
    /\ Send("exit")
    /\ feeder' = "over"
    /\ UNCHANGED <<user, typed, inbound, stdin, reader, child, holder, written, pipe, seen>>

\* The task of an output: a chunk, or the end of the pipe once nobody holds it.
ReadOutput(s) ==
    /\ reader[s] = "reads"
    /\ \/ pipe[s] > 0 /\ pipe' = [pipe EXCEPT ![s] = @ - 1] /\ reader' = [reader EXCEPT ![s] = "holds"]
       \/ /\ pipe[s] = 0 /\ child = "exited" /\ ~holder
          /\ reader' = [reader EXCEPT ![s] = "done"] /\ UNCHANGED pipe
    /\ UNCHANGED <<user, typed, inbound, feeder, stdin, child, holder, written, channel, seen>>

\* A send that fails ends the task, and closes the pipe.
SendOutput(s) ==
    /\ reader[s] = "holds" /\ CanSend
    /\ Send(s)
    /\ reader' = [reader EXCEPT ![s] = IF Gone THEN "done" ELSE "reads"]
    /\ pipe' = IF Gone THEN [pipe EXCEPT ![s] = 0] ELSE pipe
    /\ UNCHANGED <<user, typed, inbound, feeder, stdin, child, holder, written, seen>>

-----------------------------------------------------------------------------
(* The shell and what it leaves behind.                                    *)

ShellReads ==
    /\ child = "running" /\ stdin.chunks > 0
    /\ stdin' = [stdin EXCEPT !.chunks = @ - 1]
    /\ UNCHANGED <<user, typed, inbound, feeder, reader, child, holder, written, pipe, channel, seen>>

PutOutput(s) ==
    /\ pipe[s] < PipeSize /\ written[s] < MaxOutput[s] /\ reader[s] # "done"
    /\ written' = [written EXCEPT ![s] = @ + 1]
    /\ pipe' = [pipe EXCEPT ![s] = @ + 1]
    /\ UNCHANGED <<user, typed, inbound, service, holder, channel, seen>>

\* A write waits for room in the pipe, and the shell with it.
ShellPuts(s) == child \in {"running", s} /\ child' = "running" /\ PutOutput(s)

ShellBlocks(s) ==
    /\ child = "running" /\ written[s] < MaxOutput[s]
    /\ pipe[s] = PipeSize /\ reader[s] # "done"
    /\ child' = s
    /\ UNCHANGED <<user, typed, inbound, service, holder, written, pipe, channel, seen>>

HolderPuts(s) == holder /\ PutOutput(s) /\ UNCHANGED child

\* The reader of the output is gone: an error of the write, or the end of the shell.
ShellPipeBroken ==
    /\ child \in Streams /\ reader[child] = "done"
    /\ child' \in {"running", "exited"}
    /\ UNCHANGED <<user, typed, inbound, service, holder, written, pipe, channel, seen>>

\* On its own or at the end of its input.
ShellExits ==
    /\ child = "running"
    /\ child' = "exited"
    /\ holder' \in BOOLEAN
    /\ UNCHANGED <<user, typed, inbound, service, written, pipe, channel, seen>>

HolderEnds ==
    /\ holder
    /\ holder' = FALSE
    /\ UNCHANGED <<user, typed, inbound, service, child, written, pipe, channel, seen>>

-----------------------------------------------------------------------------
ServiceGoesOn ==
    \/ OpenFails \/ OpenService \/ Listen \/ WriteStdin \/ Join \/ SendExit

OutputGoesOn(s) == ReadOutput(s) \/ SendOutput(s)

ShellNext ==
    \/ OpenShell \/ UserTypes \/ UserCloses \/ UserLeaves \/ ClientReads
    \/ ServiceGoesOn
    \/ \E s \in Streams : OutputGoesOn(s) \/ ShellBlocks(s) \/ ShellPuts(s) \/ HolderPuts(s)
    \/ ShellReads \/ ShellPipeBroken \/ ShellExits \/ HolderEnds

\* The client reads its stream, the tasks of the outputs are scheduled, and a shell reads
\* its input and exits at the end of it.  Nothing makes the user type or a background
\* process end.
PeersFairness ==
    /\ \A s \in Streams : WF_shellVars(OutputGoesOn(s))
    /\ WF_shellVars(ClientReads)
    /\ WF_shellVars(ShellReads \/ ShellPipeBroken \/ \E s \in Streams : child = s /\ ShellPuts(s))
    /\ SF_shellVars(stdin.eof /\ ShellExits)

ShellFairness == WF_shellVars(ServiceGoesOn) /\ PeersFairness

ShellSpec == ShellInit /\ [][ShellNext]_shellVars /\ ShellFairness

-----------------------------------------------------------------------------
ShellTypeOK ==
    /\ user \in {"none", "on", "closed", "left", "ended"}
    /\ feeder \in {"none", "opening", "listens", "writes", "waits", "exit", "over"}
    /\ Len(inbound) <= MaxTyped + 2
    /\ Len(channel) <= ChannelSize
    /\ \A s \in Streams : /\ pipe[s] \in 0 .. PipeSize
                          /\ written[s] \in 0 .. MaxOutput[s]
                          /\ reader[s] \in {"none", "reads", "holds", "done"}
    /\ stdin.chunks \in 0 .. PipeSize

\* A client that gets the exit code of the shell has got everything before it that was
\* written to the two outputs, though three tasks send the events, and after it nothing
\* is sent (shell).
ExitCodeIsLast ==
    /\ seen.end = "exit" => seen.chunks = written /\ channel = <<>>
    /\ \A i \in DOMAIN channel : channel[i] = "exit" => i = Len(channel)

\* A shell ends once the user has closed the input or gone away, unless a background
\* process holds an output for good: no task waits for another in a circle, not with the
\* channel and the pipes full.
ShellEnds == user \in {"closed", "left"} ~> feeder = "over" \/ holder
=============================================================================
