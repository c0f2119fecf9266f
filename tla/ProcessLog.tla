----------------------------- MODULE ProcessLog -----------------------------
(***************************************************************************)
(* How the output of a process reaches its user: the log file in the       *)
(* sandbox, HyperboxServer::read_process_log (runtime.rs), which reads the *)
(* size, the status and a chunk by one command of the backend each, and    *)
(* the commands of the CLI that call it in a loop (main.rs): run, run with *)
(* --json, logs and logs --follow; run --detach reads nothing.  One of the *)
(* two streams is modelled; the other is read by the same steps between    *)
(* those of this one.                                                      *)
(*                                                                         *)
(* The log is a sequence of bytes, "a" a character of one, "w1" and "w2"   *)
(* the halves of one of two.  A chunk is decoded on its way: half a        *)
(* character becomes the replacement character "?", three bytes long.  The *)
(* end of the process stands for its exit code; ManagedProcess says how    *)
(* refresh_process finds that.                                             *)
(***************************************************************************)
EXTENDS Naturals, Sequences, SequencesExt

CONSTANTS Outputs,       \* what processes may write, in bytes
          Chunk          \* bytes a client asks for at once, 8192 in the code

ASSUME LogAssumption ==
    /\ Chunk \in Nat \ {0}
    /\ Outputs \subseteq Seq({"a", "w1", "w2"})

\* "detach": run --detach, with --json or without.
Modes == {"run", "json", "detach", "logs", "follow"}
Ended == {"done", "error"}

VARIABLES output,        \* what the process is going to write
          log,           \* what it has written
          proc,          \* "running" or "ended"
          mode,          \* the command of the CLI, "none" before one is given
          ephemeral,     \* whether it is a run --ephemeral
          cli,           \* where the command is
          read,          \* read_process_log: its step, offset and the size it has seen
          shown,         \* what the user has been given, decoded
          box,           \* the sandbox: "live" or "destroyed"
          cut            \* history: a chunk ended or began within a character

logVars == <<output, log, proc, mode, ephemeral, cli, read, shown, box, cut>>

NoRead == [at |-> "none", offset |-> 0, total |-> 0]

LogInit ==
    /\ output = <<>> /\ log = <<>> /\ shown = <<>>
    /\ proc = "running" /\ box = "live"
    /\ mode = "none" /\ ephemeral = FALSE /\ cut = FALSE
    /\ cli = "idle"
    /\ read = NoRead

\* The commands; the runs start the process, the others find one that runs.  With --detach
\* a run is over at once, --ephemeral or not: destroy_after_wait is then false.
LogStart ==
    /\ mode = "none"
    /\ mode' \in Modes
    /\ ephemeral' \in (IF mode' \in {"logs", "follow"} THEN {FALSE} ELSE BOOLEAN)
    /\ output' \in Outputs
    /\ cli' = CASE mode' = "detach" -> "done"
               [] mode' = "json" -> "wait"
               [] OTHER -> "read"
    /\ read' = IF cli' = "read" THEN [NoRead EXCEPT !.at = "size"] ELSE NoRead
    /\ UNCHANGED <<log, proc, shown, box, cut>>

-----------------------------------------------------------------------------
(* The process.                                                            *)

ProcessWrites ==
    /\ mode # "none" /\ proc = "running" /\ Len(log) < Len(output)
    /\ log' = SubSeq(output, 1, Len(log) + 1)
    /\ UNCHANGED <<output, proc, mode, ephemeral, cli, read, shown, box, cut>>

ProcessEnds ==
    /\ mode # "none" /\ proc = "running" /\ log = output
    /\ proc' = "ended"
    /\ UNCHANGED <<output, log, mode, ephemeral, cli, read, shown, box, cut>>

-----------------------------------------------------------------------------
(* What String::from_utf8_lossy makes of bytes, and how long that is.      *)

\* A character of two bytes comes from both its halves, at the place of the first.
Pieces(bytes) ==
    [i \in 1 .. Len(bytes) |->
        IF bytes[i] = "a" THEN <<"a">>
        ELSE IF bytes[i] = "w1" /\ i < Len(bytes) /\ bytes[i + 1] = "w2" THEN <<"w">>
        ELSE IF bytes[i] = "w2" /\ i > 1 /\ bytes[i - 1] = "w1" THEN <<>>
        ELSE <<"?">>]

Decoded(bytes) == FlattenSeq(Pieces(bytes))

Utf8(character) ==
    IF character = "a" THEN <<"a">>
    ELSE IF character = "w" THEN <<"w1", "w2">>
    ELSE <<"?1", "?2", "?3">>

Encoded(text) == FlattenSeq([i \in 1 .. Len(text) |-> Utf8(text[i])])

\* contents.len()
Bytes(text) == Len(Encoded(text))

\* tail -c | head -c
ChunkAt(offset) ==
    SubSeq(log, offset + 1, IF offset + Chunk < Len(log) THEN offset + Chunk ELSE Len(log))

-----------------------------------------------------------------------------
(* read_process_log                                                        *)

ReadAt(step) == cli \in {"read", "drain"} /\ read.at = step

Reading(step) == read' = [read EXCEPT !.at = step] /\ UNCHANGED <<cli, shown, cut>>

\* What the client does with an answer, and where it goes on.
Answer(text, next, eof) ==
    LET again == [at |-> "size", offset |-> next, total |-> 0] IN
    /\ shown' = shown \o text
    /\ IF cli = "read" /\ mode \in {"run", "follow"}
       THEN cli' = "status" /\ read' = [again EXCEPT !.at = "none"]
       ELSE IF eof \/ (cli = "drain" /\ text = <<>>)
       THEN cli' = (IF mode = "logs" THEN "done" ELSE IF mode = "run" THEN "wait" ELSE "result")
            /\ read' = [again EXCEPT !.at = "none"]
       ELSE cli' = cli /\ read' = again

\* A mutant of ReadChunk: the next offset is counted from what was asked for.
ReadChunkWhole ==
    LET text == Decoded(ChunkAt(read.offset))
        next == read.offset + Chunk
    IN
    /\ ReadAt("tail")
    /\ Answer(text, next, next >= read.total)
    /\ cut' = (cut \/ \E i \in DOMAIN text : text[i] = "?")
    /\ UNCHANGED <<output, log, proc, mode, ephemeral, box>>

\* The next offset is counted from what was decoded, the end from the size read before.
ReadChunk ==
    LET text == Decoded(ChunkAt(read.offset))
        next == read.offset + Bytes(text)
    IN
    /\ ReadAt("tail")
    /\ Answer(text, next, next >= read.total)
    /\ cut' = (cut \/ \E i \in DOMAIN text : text[i] = "?")
    /\ UNCHANGED <<output, log, proc, mode, ephemeral, box>>

\* read_log_size, for the first time or after fifty milliseconds without anything new.
ReadSize ==
    /\ ReadAt("size") \/ ReadAt("resize")
    /\ IF Len(log) > read.offset
       THEN /\ read' = [read EXCEPT !.at = "tail", !.total = Len(log)]
            /\ UNCHANGED <<cli, shown, cut>>
       ELSE IF read.at = "size" THEN Reading("refresh")
       ELSE Answer(<<>>, read.offset, FALSE) /\ UNCHANGED cut
    /\ UNCHANGED <<output, log, proc, mode, ephemeral, box>>

\* refresh_process, when there is nothing new.
ReadStatus ==
    /\ ReadAt("refresh")
    /\ IF proc = "ended"
       THEN Answer(<<>>, read.offset, TRUE) /\ UNCHANGED cut
       ELSE Reading("resize")
    /\ UNCHANGED <<output, log, proc, mode, ephemeral, box>>

-----------------------------------------------------------------------------
(* The CLI.                                                                *)

\* stream_process_logs: get_process after every chunk.  Once the process has ended, run
\* drains the log and logs --follow returns.
GetStatus ==
    /\ cli = "status"
    /\ IF proc = "ended" /\ mode = "follow"
       THEN cli' = "done" /\ UNCHANGED read
       ELSE /\ cli' = IF proc = "ended" THEN "drain" ELSE "read"
            /\ read' = [read EXCEPT !.at = "size"]
    /\ UNCHANGED <<output, log, proc, mode, ephemeral, shown, box, cut>>

\* wait_for_process_outcome: the wait comes after the stream, or before the logs are read.
WaitOver ==
    /\ cli = "wait" /\ proc = "ended"
    /\ IF mode = "json"
       THEN cli' = "read" /\ read' = [read EXCEPT !.at = "size"]
       ELSE cli' = "result" /\ UNCHANGED read
    /\ UNCHANGED <<output, log, proc, mode, ephemeral, shown, box, cut>>

\* A mutant of EmitResult: the error of the destroy is forgotten.
EmitResultAnyway ==
    /\ cli = "result"
    /\ cli' = "done"
    /\ box' \in {box, IF ephemeral THEN "destroyed" ELSE box}
    /\ UNCHANGED <<output, log, proc, mode, ephemeral, read, shown, cut>>

\* emit_result, and the destroy of --ephemeral whose error is the run's.
EmitResult ==
    /\ cli = "result"
    /\ \/ box' = (IF ephemeral THEN "destroyed" ELSE box) /\ cli' = "done"
       \/ ephemeral /\ box' \in {"live", "destroyed"} /\ cli' = "error"
    /\ UNCHANGED <<output, log, proc, mode, ephemeral, read, shown, cut>>

\* Any call of the server may fail, and a wait reach its timeout: the command ends there.
CommandFails ==
    /\ cli \in {"read", "status", "drain", "wait"}
    /\ cli' = "error"
    /\ read' = NoRead
    /\ UNCHANGED <<output, log, proc, mode, ephemeral, shown, box, cut>>

LogGoesOn ==
    ReadSize \/ ReadStatus \/ ReadChunk \/ GetStatus \/ WaitOver \/ EmitResult

LogNext == LogStart \/ ProcessWrites \/ ProcessEnds \/ LogGoesOn \/ CommandFails

LogFairness == WF_logVars(LogGoesOn)

LogSpec == LogInit /\ [][LogNext]_logVars /\ LogFairness

-----------------------------------------------------------------------------
LogTypeOK ==
    /\ log \in Seq({"a", "w1", "w2"})
    /\ shown \in Seq({"a", "w", "?"})
    /\ proc \in {"running", "ended"}
    /\ cli \in {"idle", "read", "status", "drain", "wait", "result"} \cup Ended
    /\ read.at \in {"none", "size", "refresh", "resize", "tail"}
    /\ box \in {"live", "destroyed"}

\* What the user has been given is the beginning of what the process wrote, in order and
\* without a gap or a repetition, however reads and writes interleave, and all of it once
\* run and run --json are done, unless a chunk broke a character in two: its replacement
\* is longer than what it replaces, and the next read starts too far on (read_process_log).
ShownInOrder ==
    ~cut => /\ IsPrefix(shown, Decoded(output))
            /\ mode \in {"run", "json"} /\ cli = "done" => shown = Decoded(output)

\* A run --ephemeral that waits for its process and reports success has destroyed its
\* sandbox; and a sandbox is destroyed by such a run only, once the process has ended: with
\* --detach, which returns before that, --ephemeral leaves the sandbox and its process
\* (run_existing_with_client and its call).
EphemeralIsGone ==
    /\ cli = "done" /\ ephemeral => box = "destroyed" \/ mode = "detach"
    /\ box = "destroyed" => ephemeral /\ proc = "ended" /\ mode # "detach"

\* Once the process has ended every command that reads its log ends: no reader waits for
\* more than is there, also when its offset has got past the end of the log.
ReadersEnd == proc = "ended" ~> cli \in Ended
=============================================================================
