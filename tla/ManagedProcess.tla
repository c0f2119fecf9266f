--------------------------- MODULE ManagedProcess ---------------------------
(***************************************************************************)
(* Managed processes of one sandbox (crates/hyperbox-server/src/runtime.rs):*)
(* start_process, get_process / wait_process, cancel_process and            *)
(* destroy_sandbox, with the refresh and the expiry clean-up they begin     *)
(* with.  Every request is a task of its own and keeps no lock across an    *)
(* await, so each action is the code between two awaits: one store          *)
(* statement or one backend call.  A request works on copies of records it  *)
(* read earlier (seen), and upsert_process overwrites without looking.      *)
(*                                                                          *)
(* backend_pid, finished_at and expires_at are kept as "is it set"; the two *)
(* times are always set and cleared together (ends).                        *)
(***************************************************************************)
EXTENDS ProcessScripts, Naturals, FiniteSets

CONSTANTS Requests,      \* tasks serving gRPC requests
          Serves,        \* which calls each task may serve (a bound)
          Owners,        \* processes started with destroy_sandbox_on_expiry
          MaxAborts      \* requests that may fail or be dropped half way (a bound)

Ops == {"none", "start", "get", "list", "cancel", "destroy"}

ASSUME RequestAssumption ==
    /\ Serves \in [Requests -> SUBSET Ops]
    /\ Owners \in SUBSET Processes
    /\ MaxAborts \in Nat

VARIABLES rec,           \* the store's process records
          abandoned,     \* processes with a cancel script that no request waits for
          young,         \* processes started less than process_lost_grace() ago
          expired,       \* processes whose expires_at has passed
          sandbox,       \* what the backend says of the sandbox
          req,           \* each request's local state
          aborts         \* how many requests have been aborted so far

control == <<rec, abandoned, young, expired, sandbox, req, aborts>>
vars == <<scripts, control>>

-----------------------------------------------------------------------------
(* ProcessStatus and ProcessInfo (hyperbox-core/src/process.rs).           *)

Terminal == {"succeeded", "failed", "cancelled", "lost"}
Statuses == {"starting", "running"} \cup Terminal

Record == [st : Statuses \cup {"absent"}, code : Codes, pid : BOOLEAN, ends : BOOLEAN]
NoRecord == [st |-> "absent", code |-> "", pid |-> FALSE, ends |-> FALSE]
Starting == [NoRecord EXCEPT !.st = "starting"]
Running == [NoRecord EXCEPT !.st = "running"]
LaunchFailed == [st |-> "failed", code |-> "1", pid |-> FALSE, ends |-> TRUE]

IsTerminal(record) == record.st \in Terminal
IsActive(record) == record.st \in {"starting", "running"}

\* A mutant of Ended: the whole answer of the script is stored for the exit code.
EndedUnparsed(record, verdict) ==
    [record EXCEPT !.st = verdict.verdict, !.code = verdict.verdict, !.ends = TRUE]

\* A mutant of Ended: the two times are left unset.
EndedUntimed(record, verdict) ==
    [record EXCEPT !.st = verdict.verdict, !.code = verdict.code]

\* parse_process_probe: a copy brought up to date with a verdict.
Ended(record, verdict) ==
    [record EXCEPT !.st = verdict.verdict, !.code = verdict.code, !.ends = TRUE]

\* A mutant of Probed: the grace period has no end.
ProbedPatiently(p, record, verdict) ==
    CASE verdict.verdict = "running" ->
             [record EXCEPT !.st = "running", !.code = "", !.pid = TRUE, !.ends = FALSE]
      [] verdict.verdict \in {"succeeded", "failed", "cancelled"} -> Ended(record, verdict)
      [] verdict.verdict = "lost" ->
             [record EXCEPT !.st = "starting", !.code = "", !.ends = FALSE]
      [] OTHER -> record

Probed(p, record, verdict) ==
    CASE verdict.verdict = "running" ->
             [record EXCEPT !.st = "running", !.code = "", !.pid = TRUE, !.ends = FALSE]
      [] verdict.verdict \in {"succeeded", "failed", "cancelled"} -> Ended(record, verdict)
      [] verdict.verdict = "lost" /\ p \notin young ->
             [record EXCEPT !.st = "lost", !.ends = TRUE]
      [] verdict.verdict = "lost" /\ p \in young ->
             [record EXCEPT !.st = "starting", !.code = "", !.ends = FALSE]
      [] OTHER -> record

-----------------------------------------------------------------------------
(* Requests.                                                               *)

Places == {"idle", "again", "cleanup", "purge", "destroy", "rm", "forget", "check", "probe",
           "probe_pid", "settle", "insert", "launch", "launching", "mark", "kill", "killing",
           "poll", "next", "backend"}
Verdicts == [verdict : {"none", "starting", "running", "lost", "succeeded", "failed",
                        "cancelled"}, code : Codes]
NoVerdict == [verdict |-> "none", code |-> ""]

\* p is the process in hand, seen the copies of records read so far, todo the listed
\* processes still to look at, due the expired ones of the clean-up's list, victim the
\* process being purged.  cancel tells which part of cancel_process a request is in:
\* destroy_sandbox goes through it too.
Request == [op : Ops, pc : Places, p : Processes \cup {"none"}, todo : SUBSET Processes,
            due : SUBSET Processes, seen : [Processes -> Record], verdict : Verdicts,
            cancel : {"no", "first", "poll"}, victim : Processes \cup {"none"}]

NothingSeen == [p \in Processes |-> NoRecord]

Idle == [op |-> "none", pc |-> "idle", p |-> "none", todo |-> {}, due |-> {},
         seen |-> NothingSeen, verdict |-> NoVerdict, cancel |-> "no", victim |-> "none"]

ProcessInit ==
    /\ ScriptsInit
    /\ rec = [p \in Processes |-> NoRecord]
    /\ abandoned = {}
    /\ young = {}
    /\ expired = {}
    /\ sandbox = "live"
    /\ req = [r \in Requests |-> Idle]
    /\ aborts = 0

At(r, place) == req[r].pc = place
Set(r, next) == req' = [req EXCEPT ![r] = next]
Goto(r, place) == Set(r, [req[r] EXCEPT !.pc = place])
Return(r) == Set(r, Idle)

\* What a step inside one request leaves alone.
OnlyRequest == UNCHANGED <<scripts, rec, abandoned, young, expired, sandbox, aborts>>

Present == {p \in Processes : rec[p].st # "absent"}

\* A mutant of Due: whatever is listed is purged.
DueUnchecked == Present

Due == {p \in Present : rec[p].ends /\ p \in expired}

\* Every call but destroy_sandbox begins with the clean-up: list_processes, and then
\* what was due by then.
Call(r, op) ==
    /\ At(r, "idle")
    /\ op \in Serves[r]

Clean(q) == [q EXCEPT !.pc = "cleanup", !.due = Due]

\* start_run has just inspected the sandbox when it calls start_process.
StartProcess(r) ==
    /\ Call(r, "start")
    /\ sandbox = "live"
    /\ Set(r, Clean([Idle EXCEPT !.op = "start"]))
    /\ OnlyRequest

\* get_process; wait_process is nothing but calls of it.
GetProcess(r, p) ==
    /\ Call(r, "get")
    /\ phase[p] # "unborn"
    /\ Set(r, Clean([Idle EXCEPT !.op = "get", !.p = p]))
    /\ OnlyRequest

ListProcesses(r) ==
    /\ Call(r, "list")
    /\ Set(r, Clean([Idle EXCEPT !.op = "list"]))
    /\ OnlyRequest

CancelProcess(r, p) ==
    /\ Call(r, "cancel")
    /\ phase[p] # "unborn"
    /\ Set(r, Clean([Idle EXCEPT !.op = "cancel", !.p = p, !.cancel = "first"]))
    /\ OnlyRequest

DestroySandbox(r) ==
    /\ Call(r, "destroy")
    /\ Set(r, [Idle EXCEPT !.op = "destroy", !.pc = "next", !.todo = Present, !.seen = rec])
    /\ OnlyRequest

\* get_process once more: cancel_process begins with it, and polls with it.
Again(r) ==
    /\ req[r].pc \in {"again", "poll"}
    /\ Set(r, Clean(req[r]))
    /\ OnlyRequest

-----------------------------------------------------------------------------
(* cleanup_expired_processes and purge_process.                            *)

CleanupPick(r) ==
    /\ At(r, "cleanup")
    /\ \E v \in req[r].due :
          Set(r, [req[r] EXCEPT !.pc = "purge", !.victim = v, !.due = @ \ {v}])
    /\ OnlyRequest

\* backend.inspect: a sandbox the backend does not know needs neither of the two.
InspectVictim(r) ==
    /\ At(r, "purge")
    /\ Goto(r, IF sandbox = "gone" THEN "forget"
               ELSE IF req[r].victim \in Owners THEN "destroy" ELSE "rm")
    /\ OnlyRequest

\* backend.destroy, for an owner ...
DestroyOwned(r) ==
    /\ At(r, "destroy")
    /\ sandbox = "live"
    /\ sandbox' = "gone"
    /\ Goto(r, "forget")
    /\ UNCHANGED <<scripts, rec, abandoned, young, expired, aborts>>

\* ... and rm -rf of the directory else, whose outcome nobody looks at.
RemoveFiles(r) ==
    /\ At(r, "rm")
    /\ files' = IF sandbox = "live" THEN [files EXCEPT ![req[r].victim] = {}] ELSE files
    /\ Goto(r, "forget")
    /\ UNCHANGED <<phase, run, truth, code, rec, abandoned, young, expired, sandbox, aborts>>

\* remove_process; destroy_sandbox goes on with its list, a clean-up with the next
\* expired record.
InCleanup(r) == ~(req[r].op = "destroy" /\ req[r].cancel = "no")

Forget(r) ==
    /\ At(r, "forget")
    /\ rec' = [rec EXCEPT ![req[r].victim] = NoRecord]
    /\ Set(r, [req[r] EXCEPT !.pc = IF InCleanup(r) THEN "cleanup" ELSE "next",
                             !.victim = "none"])
    /\ UNCHANGED <<scripts, abandoned, young, expired, sandbox, aborts>>

-----------------------------------------------------------------------------
(* get_process: read the record, refresh it, overwrite it if it changed.   *)

\* destroy_sandbox purges the process in hand, whatever became of its cancel.
PurgeInHand(r) ==
    Set(r, [req[r] EXCEPT !.pc = "purge", !.victim = req[r].p, !.cancel = "no",
                          !.due = {}, !.verdict = NoVerdict])

ReadRecord(r) ==
    LET p == req[r].p IN
    /\ At(r, "cleanup")
    /\ req[r].due = {}
    /\ req[r].op \notin {"start", "list"}
    /\ IF IsActive(rec[p])
       THEN Set(r, [req[r] EXCEPT !.pc = "probe", !.seen[p] = rec[p]])
       ELSE IF req[r].op = "destroy" THEN PurgeInHand(r) ELSE Return(r)
    /\ OnlyRequest

\* The inspect script's first test.
Probe(r) ==
    LET p == req[r].p IN
    /\ At(r, "probe")
    /\ sandbox = "live"
    /\ IF HasExitCode(p)
       THEN Set(r, [req[r] EXCEPT !.pc = "settle", !.verdict = ExitVerdict(p)])
       ELSE Goto(r, "probe_pid")
    /\ OnlyRequest

\* The rest of the script, entered because there was no exit_code.
ProbePid(r) ==
    /\ At(r, "probe_pid")
    /\ sandbox = "live"
    /\ Set(r, [req[r] EXCEPT !.pc = "settle", !.verdict = PidVerdict(req[r].p)])
    /\ OnlyRequest

\* Where a request goes on with the copy that refresh_process returned: a start is
\* refused where the copy is active, a destroy cancels it once and then purges it.
AfterRefresh(r, copy) ==
    LET q == [req[r] EXCEPT !.verdict = NoVerdict,
                            !.seen[req[r].p] = IF req[r].op = "start" THEN copy ELSE NoRecord]
        over == IsTerminal(copy)
    IN
    \/ (q.op = "list" \/ (q.op = "start" /\ over)) /\ Set(r, [q EXCEPT !.pc = "check"])
    \/ /\ q.op = "get" \/ (q.op = "start" /\ ~over) \/ (q.op = "cancel" /\ over)
       /\ Return(r)
    \/ q.op = "destroy" /\ over /\ PurgeInHand(r)
    \/ /\ q.op = "destroy" /\ ~over /\ q.cancel = "no"
       /\ Set(r, [q EXCEPT !.pc = "again", !.cancel = "first"])
    \/ q.cancel = "first" /\ ~over /\ Set(r, [q EXCEPT !.pc = "mark"])
    \/ q.cancel = "poll" /\ ~over /\ Set(r, [q EXCEPT !.pc = "poll"])

Settle(r) ==
    LET p == req[r].p
        copy == Probed(p, req[r].seen[p], req[r].verdict)
    IN
    /\ At(r, "settle")
    /\ rec' = IF copy # req[r].seen[p] THEN [rec EXCEPT ![p] = copy] ELSE rec
    /\ AfterRefresh(r, copy)
    /\ UNCHANGED <<scripts, abandoned, young, expired, sandbox, aborts>>

\* cancel_process asks again after a sleep until its deadline; destroy_sandbox ignores
\* that its cancel failed.
PollEnds(r) ==
    /\ At(r, "poll")
    /\ IF req[r].op = "destroy" THEN PurgeInHand(r) ELSE Return(r)
    /\ OnlyRequest

-----------------------------------------------------------------------------
(* cancel_process: the marker first, then the kill, then the polling.      *)

WriteMarker(r) ==
    /\ At(r, "mark")
    /\ sandbox = "live"
    /\ Mark(req[r].p)
    /\ Goto(r, "kill")
    /\ UNCHANGED <<rec, abandoned, young, expired, sandbox, aborts>>

ThenPoll(r) == Set(r, [req[r] EXCEPT !.pc = "again", !.cancel = "poll"])

\* backend.exec of the cancel script: nothing without a pid file, else its TERM pass ...
Kill(r) ==
    /\ At(r, "kill")
    /\ sandbox = "live"
    /\ IF "pid" \in files[req[r].p]
       THEN KillPass(req[r].p) /\ Goto(r, "killing")
       ELSE UNCHANGED scripts /\ ThenPoll(r)
    /\ UNCHANGED <<rec, abandoned, young, expired, sandbox, aborts>>

\* ... and, a second later, its KILL pass if the wrapper still lives.
KillAgain(r) ==
    /\ At(r, "killing")
    /\ sandbox = "live"
    /\ KillPass(req[r].p)
    /\ ThenPoll(r)
    /\ UNCHANGED <<rec, abandoned, young, expired, sandbox, aborts>>

\* The same in a script whose request has failed meanwhile.
AbandonedKill(p) ==
    /\ p \in abandoned
    /\ sandbox = "live"
    /\ KillPass(p)
    /\ abandoned' = abandoned \ {p}
    /\ UNCHANGED <<rec, young, expired, sandbox, req, aborts>>

-----------------------------------------------------------------------------
(* start_process: active_process_for_sandbox, then record, launch, record. *)

\* A mutant of ListRecords: a process that is only starting does not count.
ListRunning(r) ==
    /\ At(r, "cleanup")
    /\ req[r].due = {}
    /\ req[r].op \in {"start", "list"}
    /\ Set(r, [req[r] EXCEPT !.pc = "check", !.seen = rec,
                             !.todo = {p \in Processes : rec[p].st = "running"}])
    /\ OnlyRequest

\* list_processes; only the active records need a refresh.
ListRecords(r) ==
    /\ At(r, "cleanup")
    /\ req[r].due = {}
    /\ req[r].op \in {"start", "list"}
    /\ Set(r, [req[r] EXCEPT !.pc = "check", !.seen = rec,
                             !.todo = {p \in Processes : IsActive(rec[p])}])
    /\ OnlyRequest

\* Refresh the next active record; when none is left the sandbox counts as free.
CheckNext(r) ==
    /\ At(r, "check")
    /\ IF req[r].todo = {}
       THEN IF req[r].op = "start" THEN Goto(r, "insert") ELSE Return(r)
       ELSE \E p \in req[r].todo :
                Set(r, [req[r] EXCEPT !.pc = "probe", !.p = p, !.todo = @ \ {p}])
    /\ OnlyRequest

\* A new id, and its first record; no id left (a bound) refuses the request.
Insert(r) ==
    /\ At(r, "insert")
    /\ \/ \E p \in Processes :
             /\ phase[p] = "unborn"
             /\ phase' = [phase EXCEPT ![p] = "recorded"]
             /\ rec' = [rec EXCEPT ![p] = Starting]
             /\ young' = young \cup {p}
             /\ Set(r, [Idle EXCEPT !.op = "start", !.pc = "launch", !.p = p])
       \/ /\ \A p \in Processes : phase[p] # "unborn"
          /\ Return(r)
          /\ UNCHANGED <<phase, rec, young>>
    /\ UNCHANGED <<run, truth, code, files, abandoned, expired, sandbox, aborts>>

\* backend.exec of the launch script, which runs on by itself from here.
Launch(r) ==
    /\ At(r, "launch")
    /\ sandbox = "live"
    /\ phase' = [phase EXCEPT ![req[r].p] = "script"]
    /\ Goto(r, "launching")
    /\ UNCHANGED <<run, truth, code, files, rec, abandoned, young, expired, sandbox, aborts>>

\* The script has ended: the request's own copy, as it was before the launch, is
\* written back with its new status.
Launched(r) ==
    LET p == req[r].p IN
    /\ At(r, "launching")
    /\ phase[p] \in {"launched", "failed"}
    /\ rec' = [rec EXCEPT ![p] = IF phase[p] = "launched" THEN Running ELSE LaunchFailed]
    /\ Return(r)
    /\ UNCHANGED <<scripts, abandoned, young, expired, sandbox, aborts>>

-----------------------------------------------------------------------------
(* destroy_sandbox.                                                        *)

NextProcess(r) ==
    /\ At(r, "next")
    /\ IF req[r].todo = {}
       THEN Goto(r, "backend")
       ELSE \E p \in req[r].todo :
                Set(r, [req[r] EXCEPT !.p = p, !.todo = @ \ {p},
                            !.pc = IF IsTerminal(req[r].seen[p]) THEN "purge" ELSE "probe",
                            !.victim = IF IsTerminal(req[r].seen[p]) THEN p ELSE "none"])
    /\ OnlyRequest

DestroyBackend(r) ==
    /\ At(r, "backend")
    /\ sandbox = "live"
    /\ sandbox' = "gone"
    /\ Return(r)
    /\ UNCHANGED <<scripts, rec, abandoned, young, expired, aborts>>

-----------------------------------------------------------------------------
(* Errors and time.                                                        *)

\* `?` ends the request, but list_processes leaves out what it cannot refresh, and
\* destroy_sandbox ignores what its cancel returned.
Errs(r) ==
    LET ignored == req[r].op = "destroy" /\ req[r].cancel # "no"
        left_out == req[r].op = "list" /\ req[r].pc \in {"probe", "probe_pid", "settle"}
    IN
    \/ ignored /\ PurgeInHand(r)
    \/ left_out /\ Goto(r, "check")
    \/ ~ignored /\ ~left_out /\ Return(r)

\* SandboxNotFound, from any call that reaches into the sandbox.
NotFound(r) ==
    /\ sandbox = "gone"
    /\ req[r].pc \in {"probe", "probe_pid", "mark", "kill", "killing", "launch", "launching",
                  "backend", "destroy"}
    /\ Errs(r)
    /\ OnlyRequest

\* Processes with a cancel script that these requests wait for.
Cancelling(requests) == {req[r].p : r \in {q \in requests : At(q, "killing")}}

\* Any store or backend call may fail; an exec may time out while its script runs on.
CallFails(r) ==
    /\ req[r].pc \notin {"idle", "again", "poll"}
    /\ aborts < MaxAborts
    /\ aborts' = aborts + 1
    /\ abandoned' = abandoned \cup Cancelling({r})
    /\ Errs(r)
    /\ UNCHANGED <<scripts, rec, young, expired, sandbox>>

\* The inspect script itself ends with an error: refresh_process returns the copy as it is.
ProbeFails(r) ==
    /\ req[r].pc \in {"probe", "probe_pid"}
    /\ aborts < MaxAborts
    /\ aborts' = aborts + 1
    /\ Set(r, [req[r] EXCEPT !.pc = "settle", !.verdict = NoVerdict])
    /\ UNCHANGED <<scripts, rec, abandoned, young, expired, sandbox>>

\* The server stops and starts again; a backend that keeps its sandboxes in memory
\* knows none of them any more.
Restart ==
    /\ aborts < MaxAborts
    /\ aborts' = aborts + 1
    /\ req' = [r \in Requests |-> Idle]
    /\ abandoned' = abandoned \cup Cancelling(Requests)
    /\ sandbox' \in {sandbox, "gone"}
    /\ UNCHANGED <<scripts, rec, young, expired>>

\* Five seconds have passed since started_at, wherever the process and the requests that
\* look at it stand.
Age(p) ==
    /\ p \in young
    /\ young' = young \ {p}
    /\ UNCHANGED <<scripts, rec, abandoned, expired, sandbox, req, aborts>>

\* expires_at passes, days after the end of the process: no call that was under way
\* then still is.
Expire(p) ==
    /\ rec[p].ends
    /\ p \notin expired
    /\ \A r \in Requests : req[r].pc \in {"idle", "poll"}
    /\ expired' = expired \cup {p}
    /\ UNCHANGED <<scripts, rec, abandoned, young, sandbox, req, aborts>>

-----------------------------------------------------------------------------
Begin(r) ==
    \/ StartProcess(r) \/ ListProcesses(r) \/ DestroySandbox(r)
    \/ \E p \in Processes : GetProcess(r, p) \/ CancelProcess(r, p)

Proceed(r) ==
    \/ CleanupPick(r) \/ InspectVictim(r) \/ DestroyOwned(r) \/ RemoveFiles(r) \/ Forget(r)
    \/ Again(r) \/ ReadRecord(r) \/ Probe(r) \/ ProbePid(r) \/ Settle(r)
    \/ WriteMarker(r) \/ Kill(r) \/ KillAgain(r)
    \/ ListRecords(r) \/ CheckNext(r) \/ Insert(r) \/ Launch(r) \/ Launched(r)
    \/ NextProcess(r) \/ DestroyBackend(r) \/ NotFound(r)

\* The scripts run while the sandbox does.
InSandbox(p) ==
    /\ sandbox = "live"
    /\ ScriptsStep(p)
    /\ UNCHANGED control

ScriptGoesOn(p) ==
    /\ sandbox = "live"
    /\ Spawn(p) \/ WritePid(p) \/ WrapperEnds(p)
    /\ UNCHANGED control

ProcessNext ==
    \/ \E r \in Requests : Begin(r) \/ Proceed(r) \/ PollEnds(r) \/ CallFails(r) \/ ProbeFails(r)
    \/ \E p \in Processes : InSandbox(p) \/ AbandonedKill(p) \/ Age(p) \/ Expire(p)
    \/ Restart

ProcessSpec == ProcessInit /\ [][ProcessNext]_vars

\* A request under way goes on, the launch script and the wrapper do, time passes, and
\* somebody keeps asking for a process (the CLI and the SDKs poll until it has ended).
FairProcessSpec ==
    /\ ProcessSpec
    /\ \A r \in Requests : WF_vars(Proceed(r))
    /\ \A p \in Processes :
          /\ WF_vars(Age(p))
          /\ WF_vars(ScriptGoesOn(p))
          /\ SF_vars(\E r \in Requests : GetProcess(r, p))

-----------------------------------------------------------------------------
\* Every variable keeps its shape.
ProcessTypeOK ==
    /\ phase \in [Processes -> Phases]
    /\ run \in [Processes -> Runs]
    /\ truth \in [Processes -> Codes]
    /\ code \in [Processes -> Codes]
    /\ files \in [Processes -> SUBSET Files]
    /\ rec \in [Processes -> Record]
    /\ abandoned \in SUBSET Processes
    /\ young \in SUBSET Processes
    /\ expired \in SUBSET Processes
    /\ sandbox \in {"live", "gone"}
    /\ req \in [Requests -> Request]
    /\ aborts \in 0 .. MaxAborts

\* The command of p no longer runs, or its launch failed and nobody follows it.
Finished(p) == run[p] \in {"wrapper", "ended"}
Over(p) == phase[p] = "failed" \/ Finished(p)

\* A cancel has killed the wrapper of p alone: its command runs and nothing follows it.
LeftBehind(p) == run[p] = "orphan"
Unfollowed(p) == Over(p) \/ LeftBehind(p)

\* What status and exit code claim of the process is so.
Holds(p, status, exit_code) ==
    /\ status \in Terminal => Finished(p) \/ LeftBehind(p)
    /\ status \in {"succeeded", "failed"} => Finished(p)
    /\ status = "succeeded" => truth[p] = "0"
    /\ status = "failed" /\ exit_code # "" => truth[p] = exit_code

\* A persisted verdict is what happened, whichever requests raced to write it: a
\* process recorded succeeded ended with 0, one recorded failed with a code ended with
\* it, and a process recorded as ended no longer runs its command, except that one
\* recorded cancelled or lost may have been left behind by a cancel.  What is not
\* claimed: `failed` without a code (the file was read before the code was in it) and
\* `lost` (the process ended between the two tests of a probe) may stand for a process
\* that ended well.  A launch that failed is recorded as such and says nothing of the
\* process.
VerdictTruthful ==
    \A p \in Processes : phase[p] # "failed" => Holds(p, rec[p].st, rec[p].code)

\* finished_at and expires_at are set exactly on terminal records, so every record
\* that is over can expire and none that is active can (refresh_process, start_process).
ExpiryIffTerminal == \A p \in Processes : rec[p].ends <=> IsTerminal(rec[p])

\* A start request goes on to launch only when every process that it found in the
\* records is over or left behind by a cancel: the check holds against the past, not
\* against other starts.
NoLaunchOverSeen ==
    \A r \in Requests, p \in Processes :
        At(r, "insert") /\ req[r].seen[p].st # "absent" => Unfollowed(p)

\* Only destroy_sandbox removes the record of a process that is not over.
LosesNoneTooEarly ==
    \A p \in Processes :
        rec[p].st # "absent" /\ rec'[p].st = "absent" /\ ~Unfollowed(p)
        => \E r \in Requests : ~InCleanup(r) /\ req[r].victim = p

\* A process that is not over loses its record only to destroy_sandbox, never to the
\* expiry clean-up, however old the list is that the clean-up works from; only one that
\* a cancel left behind expires while its command runs.
RecordOutlivesProcess == [][LosesNoneTooEarly]_vars

\* A process that has ended is recorded as ended, as long as somebody asks, its sandbox
\* is there and its files are: a stale copy may overwrite the end, never for good.
EndIsRecorded ==
    \A p \in Processes :
        (phase[p] = "launched" /\ run[p] = "ended") ~>
            (~IsActive(rec[p]) \/ sandbox = "gone" \/ "pid" \notin files[p])

-----------------------------------------------------------------------------
(* What the documents say and the code does not do.                        *)

\* "cancel the managed process tree, not just a parent pid": the command of a process
\* that is recorded cancelled runs no more.
CancelEndsTree == \A p \in Processes : rec[p].st = "cancelled" => Finished(p)

\* "One sandbox can have one managed foreground process at a time."
OneProcessPerSandbox ==
    \A p, q \in Processes : run[p] = "command" /\ run[q] = "command" => p = q

\* "update terminal state exactly once": a record that is over changes no more, until
\* it is removed.
TerminalOnce ==
    [][\A p \in Processes : IsTerminal(rec[p]) => rec'[p] \in {rec[p], NoRecord}]_rec

\* "Never clean up while active": the clean-up destroys no sandbox with a running process.
CleanupSparesBusySandbox ==
    [][sandbox = "live" /\ sandbox' = "gone" /\ (\E p \in Processes : run[p] = "command")
          => \E r \in Requests : req[r].op = "destroy" \/ aborts' # aborts]_vars

\* "If process cannot be reconciled cleanly: mark lost": no record stays active for ever
\* once no process and no launch is behind it.
NothingStaysActive ==
    \A p \in Processes :
        (IsActive(rec[p]) /\ run[p] \in {"none", "ended"}) ~>
            (~IsActive(rec[p]) \/ run[p] \notin {"none", "ended"})
=============================================================================
