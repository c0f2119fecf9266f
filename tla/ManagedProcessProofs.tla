------------------------ MODULE ManagedProcessProofs ------------------------
(***************************************************************************)
(* The safety properties of ManagedProcess, for any number of requests and *)
(* processes.  The inductive invariant says of every request what its local*)
(* copies and verdicts still claim of the processes: a verdict is about a  *)
(* process that is over, and what is over stays as it is.                  *)
(***************************************************************************)
EXTENDS ManagedProcess, TLAPS

\* What the scripts have done so far fits their phase.
ScriptOK(p) ==
    /\ phase[p] \in {"unborn", "recorded", "script"} => run[p] = "none"
    /\ phase[p] \in {"spawned", "launched"} => run[p] # "none"
    /\ run[p] = "none" => "pid" \notin files[p]
    /\ run[p] \in {"none", "command", "orphan"} => truth[p] = "" /\ "exit_code" \notin files[p]
    /\ code[p] # "" => code[p] = truth[p]

\* Places with a process in hand, places of purge_process, places of a refresh.
HoldsOne == {"again", "poll", "probe", "probe_pid", "settle", "mark", "kill", "killing",
             "launch", "launching"}
Purges == {"purge", "destroy", "rm", "forget"}
Refreshes == {"probe", "probe_pid", "settle"}

\* The purge of q is part of the expiry clean-up.
Cleans(q) == ~(q.op = "destroy" /\ q.cancel = "no")

\* A request in local state q works on a process where it needs one ...
InHand(q) ==
    /\ q.op \in {"get", "cancel"} => q.p \in Processes
    /\ q.cancel # "no" => q.p \in Processes /\ q.op \in {"cancel", "destroy"}
    /\ q.pc \in HoldsOne => q.p \in Processes
    /\ q.pc \in Purges => q.victim \in Processes
    /\ q.pc \in Purges /\ Cleans(q) => q.op \in {"start", "list"} \/ q.p \in Processes
    /\ q.pc = "cleanup" => q.op \in {"start", "list"} \/ q.p \in Processes
    /\ q.pc \in {"cleanup", "again", "poll"} => Cleans(q)
    /\ q.pc = "next" => ~Cleans(q)
    /\ q.pc = "insert" => q.op = "start"
    /\ q.pc \in {"mark", "kill", "killing"} => q.cancel # "no"

\* ... holds a verdict that is so, purges only what is over ...
Justified(q) ==
    /\ q.pc = "settle" => Holds(q.p, q.verdict.verdict, q.verdict.code)
    /\ \A p \in q.due : Unfollowed(p)
    /\ q.pc \in Purges /\ Cleans(q) => Unfollowed(q.victim)

\* ... and, for a start, has still to look at every process it found that is not over.
Checked(q) ==
    q.op = "start" =>
        /\ \A p \in Processes :
              q.seen[p].st # "absent" /\ ~Unfollowed(p) =>
                  /\ IsActive(q.seen[p])
                  /\ p \in q.todo \/ (q.pc \in Refreshes /\ p = q.p)
        /\ q.pc = "insert" => q.todo = {}

RequestOK(q) ==
    /\ q \in Request
    /\ InHand(q)
    /\ \A p \in Processes : q.seen[p].ends <=> IsTerminal(q.seen[p])
    /\ Justified(q)
    /\ Checked(q)

\* A process is launched by the request that recorded it, once.
LaunchOK ==
    /\ \A r \in Requests : At(r, "launch") => phase[req[r].p] = "recorded"
    /\ \A r, s \in Requests :
          At(r, "launch") /\ At(s, "launch") /\ req[r].p = req[s].p => r = s

ScriptsTyped ==
    /\ phase \in [Processes -> Phases]
    /\ run \in [Processes -> Runs]
    /\ truth \in [Processes -> Codes]
    /\ code \in [Processes -> Codes]
    /\ files \in [Processes -> SUBSET Files]

ControlTyped ==
    /\ rec \in [Processes -> Record]
    /\ abandoned \in SUBSET Processes
    /\ young \in SUBSET Processes
    /\ expired \in SUBSET Processes
    /\ sandbox \in {"live", "gone"}
    /\ aborts \in 0 .. MaxAborts

ProcessInv ==
    /\ ScriptsTyped
    /\ ControlTyped
    /\ req \in [Requests -> Request]
    /\ \A p \in Processes : ScriptOK(p)
    /\ ExpiryIffTerminal
    /\ VerdictTruthful
    /\ \A r \in Requests : RequestOK(req[r])
    /\ LaunchOK

-----------------------------------------------------------------------------
(* What a step leaves true of a process and of a request.                  *)

\* What is over stays over, with the code it ended with.
Monotone ==
    \A p \in Processes :
        /\ Finished(p) => Finished(p)' /\ truth'[p] = truth[p]
        /\ LeftBehind(p) => LeftBehind(p)' \/ Finished(p)'
        /\ phase[p] = "failed" => phase'[p] = "failed"

\* A claim that held keeps holding.
LEMMA HoldsStable ==
    ASSUME Monotone, NEW p \in Processes, NEW status, NEW exit_code,
           Holds(p, status, exit_code)
    PROVE  Holds(p, status, exit_code)'
<1>1. CASE status \in Terminal
      BY <1>1 DEF Holds, Monotone, Terminal
<1>2. CASE status \notin Terminal
      BY <1>2 DEF Holds, Terminal
<1> QED BY <1>1, <1>2

\* And so does what a request relies on.
LEMMA RequestStable ==
    ASSUME Monotone, NEW q, RequestOK(q)
    PROVE  RequestOK(q)'
<1> USE DEF RequestOK
<1>1. \A p \in Processes : Unfollowed(p) => Unfollowed(p)'
      BY DEF Unfollowed, Over, LeftBehind, Monotone
<1>2. q \in Request /\ InHand(q)
      OBVIOUS
<1>3. Justified(q)'
  <2>1. ASSUME q.pc = "settle"
        PROVE  Holds(q.p, q.verdict.verdict, q.verdict.code)'
        BY <2>1, <1>2, HoldsStable DEF InHand, HoldsOne, Justified
  <2>2. \A p \in q.due : Unfollowed(p)'
        BY <1>1, <1>2 DEF Justified, Request
  <2>3. q.pc \in Purges /\ Cleans(q) => Unfollowed(q.victim)'
        BY <1>1, <1>2 DEF Justified, InHand
  <2> QED BY <2>1, <2>2, <2>3 DEF Justified
<1>4. Checked(q)'
      BY <1>1 DEF Checked
<1> QED BY <1>2, <1>3, <1>4 DEF InHand

\* What the requests rely on survives a step of one of them ...
LEMMA RequestsStay ==
    ASSUME ProcessInv, Monotone, NEW r \in Requests, NEW q, Set(r, q), RequestOK(q)
    PROVE  req' \in [Requests -> Request] /\ \A s \in Requests : RequestOK(req[s])'
<1>1. req' \in [Requests -> Request]
      BY DEF Set, RequestOK, ProcessInv
<1>2. ASSUME NEW s \in Requests
      PROVE  RequestOK(req[s])'
  <2>1. PICK x : x = req'[s] /\ RequestOK(x)
        BY DEF ProcessInv, Set
  <2> QED BY <2>1, RequestStable
<1> QED BY <1>1, <1>2

\* ... and of none.
LEMMA RequestsRest ==
    ASSUME ProcessInv, Monotone, UNCHANGED req
    PROVE  req' \in [Requests -> Request] /\ \A s \in Requests : RequestOK(req[s])'
<1>1. ASSUME NEW s \in Requests
      PROVE  RequestOK(req[s])'
  <2>1. PICK x : x = req'[s] /\ RequestOK(x)
        BY DEF ProcessInv
  <2> QED BY <2>1, RequestStable
<1> QED BY <1>1 DEF ProcessInv

\* Records that a step does not touch stay truthful.
LEMMA VerdictStays ==
    ASSUME ProcessInv, Monotone, NEW p \in Processes, rec'[p] = rec[p], phase'[p] # "failed"
    PROVE  Holds(p, rec[p].st, rec[p].code)'
<1>1. Holds(p, rec[p].st, rec[p].code)
      BY DEF ProcessInv, VerdictTruthful, Monotone
<1> QED BY <1>1 DEF Holds, Monotone, Terminal

\* A launch under way stays one.
LEMMA LaunchStays ==
    ASSUME ProcessInv, NEW r \in Requests, NEW q, Set(r, q), q.pc # "launch",
           \A p \in Processes : phase[p] = "recorded" => phase'[p] = "recorded"
    PROVE  LaunchOK'
<1>1. \A s \in Requests : At(s, "launch") => req[s].p \in Processes
      BY DEF ProcessInv, RequestOK, InHand, HoldsOne, At
<1> QED BY <1>1 DEF LaunchOK, At, Set, ProcessInv

\* A step that leaves the scripts and the records alone.
Quiet == UNCHANGED <<scripts, rec>> /\ ControlTyped'

LEMMA OnlyQuiet == ProcessInv /\ OnlyRequest => Quiet
BY DEF OnlyRequest, Quiet, ProcessInv, ControlTyped

LEMMA RequestStep ==
    ASSUME ProcessInv, Quiet, NEW r \in Requests, NEW q, Set(r, q),
           RequestOK(q), q.pc # "launch"
    PROVE  ProcessInv'
<1> USE DEF Quiet, scripts
<1>1. Monotone
      BY DEF Monotone, Finished, LeftBehind
<1>2. ScriptsTyped' /\ ControlTyped'
      BY DEF ProcessInv, ScriptsTyped, ControlTyped
<1>3. req' \in [Requests -> Request] /\ \A s \in Requests : RequestOK(req[s])'
      BY <1>1, RequestsStay
<1>4. \A p \in Processes : ScriptOK(p)'
      BY DEF ProcessInv, ScriptOK
<1>5. ExpiryIffTerminal'
      BY DEF ProcessInv, ExpiryIffTerminal, IsTerminal
<1>6. VerdictTruthful'
      BY <1>1, VerdictStays DEF VerdictTruthful
<1>7. LaunchOK'
      BY LaunchStays
<1> QED BY <1>2, <1>3, <1>4, <1>5, <1>6, <1>7 DEF ProcessInv

-----------------------------------------------------------------------------
(* One lemma per group of actions.  First those that only move a request.  *)

LEMMA IdleOK == RequestOK(Idle)
BY DEF RequestOK, Idle, Request, Ops, Places, NothingSeen, NoRecord, Record, Statuses, Terminal,
       Codes, Verdicts, NoVerdict, InHand, HoldsOne, Purges, Cleans, Justified, Checked,
       IsTerminal

\* What is due is over.
LEMMA DueOver ==
    ASSUME ProcessInv
    PROVE  Due \subseteq Processes /\ \A p \in Due : Unfollowed(p)
BY DEF ProcessInv, Due, Present, ExpiryIffTerminal, VerdictTruthful, Holds, IsTerminal, Unfollowed, Over, LeftBehind

\* A call that begins with the clean-up.
LEMMA CleanOK ==
    ASSUME ProcessInv, NEW q, RequestOK(q), Cleans(q), q.pc \notin Refreshes,
           q.op \in {"start", "list"} \/ q.p \in Processes
    PROVE  RequestOK(Clean(q))
<1>1. Clean(q) \in Request
      BY DueOver DEF Clean, RequestOK, Request, Places
<1>2. InHand(Clean(q))
      BY DEF Clean, RequestOK, Request, InHand, HoldsOne, Purges, Cleans
<1>3. Justified(Clean(q))
      BY DueOver DEF Clean, RequestOK, Request, Justified, Purges
<1>4. Checked(Clean(q))
      BY DEF Clean, RequestOK, Request, Checked, Refreshes
<1> QED BY <1>1, <1>2, <1>3, <1>4 DEF RequestOK, Clean, Request

LEMMA CallsStep ==
    ASSUME ProcessInv, NEW r \in Requests,
           \/ StartProcess(r) \/ ListProcesses(r)
           \/ \E p \in Processes : GetProcess(r, p) \/ CancelProcess(r, p)
    PROVE  ProcessInv'
<1>1. CASE StartProcess(r)
  <2>1. RequestOK([Idle EXCEPT !.op = "start"])
        BY IdleOK DEF RequestOK, Idle, Request, Ops, InHand, Cleans, Purges, HoldsOne, Justified,
                      Checked, NothingSeen, NoRecord
  <2> QED BY <1>1, <2>1, CleanOK, RequestStep, OnlyQuiet DEF StartProcess, Clean, Idle, Cleans, Refreshes
<1>2. CASE ListProcesses(r)
  <2>1. RequestOK([Idle EXCEPT !.op = "list"])
        BY IdleOK DEF RequestOK, Idle, Request, Ops, InHand, Cleans, Purges, HoldsOne, Justified,
                      Checked
  <2> QED BY <1>2, <2>1, CleanOK, RequestStep, OnlyQuiet DEF ListProcesses, Clean, Idle, Cleans, Refreshes
<1>3. ASSUME NEW p \in Processes, GetProcess(r, p)
      PROVE  ProcessInv'
  <2>1. RequestOK([Idle EXCEPT !.op = "get", !.p = p])
        BY IdleOK DEF RequestOK, Idle, Request, Ops, InHand, Cleans, Purges, HoldsOne, Justified,
                      Checked
  <2> QED BY <1>3, <2>1, CleanOK, RequestStep, OnlyQuiet DEF GetProcess, Clean, Idle, Cleans, Refreshes
<1>4. ASSUME NEW p \in Processes, CancelProcess(r, p)
      PROVE  ProcessInv'
  <2>1. RequestOK([Idle EXCEPT !.op = "cancel", !.p = p, !.cancel = "first"])
        BY IdleOK DEF RequestOK, Idle, Request, Ops, InHand, Cleans, Purges, HoldsOne, Justified,
                      Checked
  <2> QED BY <1>4, <2>1, CleanOK, RequestStep, OnlyQuiet DEF CancelProcess, Clean, Idle, Cleans, Refreshes
<1> QED BY <1>1, <1>2, <1>3, <1>4

LEMMA DestroyCallStep ==
    ASSUME ProcessInv, NEW r \in Requests, DestroySandbox(r)
    PROVE  ProcessInv'
<1> DEFINE q == [Idle EXCEPT !.op = "destroy", !.pc = "next", !.todo = Present, !.seen = rec]
<1>1. q \in Request
      BY IdleOK DEF RequestOK, Idle, Request, Ops, Places, Present, ProcessInv, ControlTyped
<1>2. InHand(q) /\ Justified(q) /\ Checked(q)
      BY DEF Idle, InHand, HoldsOne, Purges, Cleans, Justified, Checked
<1>3. \A p \in Processes : q.seen[p].ends <=> IsTerminal(q.seen[p])
      BY DEF Idle, ProcessInv, ExpiryIffTerminal, IsTerminal
<1> QED BY <1>1, <1>2, <1>3, RequestStep, OnlyQuiet DEF DestroySandbox, RequestOK, Idle

LEMMA AgainStep ==
    ASSUME ProcessInv, NEW r \in Requests, Again(r)
    PROVE  ProcessInv'
<1> DEFINE q == req[r]
<1>1. RequestOK(q) /\ Cleans(q) /\ q.pc \notin Refreshes /\ q.p \in Processes
      BY DEF ProcessInv, RequestOK, InHand, Again, HoldsOne, Refreshes
<1>2. RequestOK(Clean(q)) /\ Clean(q).pc # "launch"
      BY <1>1, CleanOK DEF Clean, RequestOK, Request
<1> QED BY <1>2, RequestStep, OnlyQuiet DEF Again

LEMMA PurgeInHandStep ==
    ASSUME ProcessInv, Quiet, NEW r \in Requests, PurgeInHand(r), req[r].p \in Processes,
           req[r].op = "destroy"
    PROVE  ProcessInv'
<1> DEFINE q == [req[r] EXCEPT !.pc = "purge", !.victim = req[r].p, !.cancel = "no",
                               !.due = {}, !.verdict = NoVerdict]
<1>1. RequestOK(req[r]) /\ req[r] \in Request
      BY DEF ProcessInv, RequestOK
<1>2. q \in Request
      BY <1>1 DEF Request, Places, Verdicts, NoVerdict, Codes
<1>3. InHand(q) /\ Justified(q) /\ Checked(q)
      BY <1>1 DEF Request, RequestOK, InHand, HoldsOne, Purges, Cleans, Justified, Checked
<1>4. RequestOK(q)
      BY <1>1, <1>2, <1>3 DEF RequestOK, Request
<1> QED BY <1>1, <1>4, RequestStep, OnlyQuiet DEF PurgeInHand, Request

LEMMA ReturnStep ==
    ASSUME ProcessInv, Quiet, NEW r \in Requests, Return(r)
    PROVE  ProcessInv'
BY IdleOK, RequestStep, OnlyQuiet DEF Return, Idle

LEMMA CleanupStep ==
    ASSUME ProcessInv, NEW r \in Requests,
           CleanupPick(r) \/ InspectVictim(r) \/ ReadRecord(r) \/ ListRecords(r)
    PROVE  ProcessInv'
<1>1. RequestOK(req[r]) /\ req[r] \in Request /\ \A p \in req[r].due : Unfollowed(p)
      BY DEF ProcessInv, RequestOK, Justified
<1>2. ASSUME At(r, "cleanup"), NEW v \in req[r].due, OnlyRequest,
             Set(r, [req[r] EXCEPT !.pc = "purge", !.victim = v, !.due = @ \ {v}])
      PROVE  ProcessInv'
  <2> DEFINE q == [req[r] EXCEPT !.pc = "purge", !.victim = v, !.due = @ \ {v}]
  <2>1. q \in Request
        BY <1>1 DEF Request, Places
  <2>2. InHand(q)
        BY <1>1, <1>2 DEF Request, RequestOK, InHand, HoldsOne, Purges, Cleans, At
  <2>3. Justified(q) /\ Checked(q)
        BY <1>1, <1>2 DEF Request, RequestOK, Purges, Cleans, Justified, Checked, At, Refreshes
  <2>4. RequestOK(q)
        BY <1>1, <2>1, <2>2, <2>3 DEF RequestOK, Request
  <2> QED BY <1>1, <1>2, <2>4, RequestStep, OnlyQuiet DEF Request
<1>3. CASE InspectVictim(r)
  <2> DEFINE q == [req[r] EXCEPT !.pc = IF sandbox = "gone" THEN "forget"
                                        ELSE IF req[r].victim \in Owners THEN "destroy" ELSE "rm"]
  <2>1. q \in Request
        BY <1>1 DEF Request, Places
  <2>2. InHand(q)
        BY <1>1, <1>3 DEF Request, RequestOK, InHand, HoldsOne, Purges, Cleans, InspectVictim, At
  <2>3. Justified(q) /\ Checked(q)
        BY <1>1, <1>3 DEF Request, RequestOK, Purges, Cleans, Justified, Checked, InspectVictim, At,
                          Refreshes
  <2>4. RequestOK(q)
        BY <1>1, <2>1, <2>2, <2>3 DEF RequestOK, Request
  <2> QED BY <1>1, <1>3, <2>4, RequestStep, OnlyQuiet DEF Request, InspectVictim, Goto
<1>4. CASE ReadRecord(r)
  <2> DEFINE p == req[r].p
             q == [req[r] EXCEPT !.pc = "probe", !.seen[p] = rec[p]]
  <2>1. p \in Processes
        BY <1>1, <1>4 DEF RequestOK, InHand, ReadRecord, At
  <2>2. q \in Request
        BY <1>1, <2>1 DEF Request, Places, ProcessInv, ControlTyped
  <2>3. InHand(q)
        BY <1>1, <1>4, <2>1 DEF Request, RequestOK, InHand, HoldsOne, Purges, Cleans
  <2>4. Justified(q) /\ Checked(q)
        BY <1>1, <1>4 DEF Request, RequestOK, Purges, Justified, Checked, ReadRecord
  <2>5. \A s \in Processes : q.seen[s].ends <=> IsTerminal(q.seen[s])
        BY <1>1, <2>1 DEF RequestOK, Request, ProcessInv, ExpiryIffTerminal, IsTerminal
  <2>6. RequestOK(q)
        BY <2>2, <2>3, <2>4, <2>5 DEF RequestOK
  <2>7. CASE Set(r, q)
        BY <1>1, <1>4, <2>6, <2>7, RequestStep, OnlyQuiet DEF Request, ReadRecord
  <2> QED BY <1>4, <2>1, <2>7, PurgeInHandStep, ReturnStep, OnlyQuiet DEF ReadRecord
<1>5. CASE ListRecords(r)
  <2> DEFINE q == [req[r] EXCEPT !.pc = "check", !.seen = rec,
                                 !.todo = {p \in Processes : IsActive(rec[p])}]
  <2>1. q \in Request
        BY <1>1 DEF Request, Places, ProcessInv, ControlTyped
  <2>2. InHand(q)
        BY <1>1, <1>5 DEF Request, RequestOK, InHand, HoldsOne, Purges, Cleans
  <2>3. Justified(q)
        BY <1>1, <1>5 DEF Request, RequestOK, Purges, Justified
  <2>4. Checked(q)
    <3>1. \A p \in Processes : rec[p].st # "absent" /\ ~Unfollowed(p) => IsActive(rec[p])
          BY DEF ProcessInv, ControlTyped, Record, Statuses, VerdictTruthful, Holds, Unfollowed, Over, LeftBehind, IsActive,
                 Terminal
    <3> QED BY <1>1, <3>1 DEF Checked, Request
  <2>5. \A p \in Processes : q.seen[p].ends <=> IsTerminal(q.seen[p])
        BY <1>1 DEF Request, ProcessInv, ExpiryIffTerminal, IsTerminal
  <2>6. RequestOK(q)
        BY <2>1, <2>2, <2>3, <2>4, <2>5 DEF RequestOK
  <2> QED BY <1>1, <1>5, <2>6, RequestStep, OnlyQuiet DEF Request, ListRecords
<1> QED BY <1>2, <1>3, <1>4, <1>5 DEF CleanupPick

LEMMA ProbeStep ==
    ASSUME ProcessInv, NEW r \in Requests, Probe(r) \/ ProbePid(r)
    PROVE  ProcessInv'
<1> DEFINE p == req[r].p
<1>1. RequestOK(req[r]) /\ req[r] \in Request /\ p \in Processes /\ ScriptOK(p)
      BY DEF ProcessInv, RequestOK, InHand, HoldsOne, Probe, ProbePid, At
<1>2. phase[p] \in Phases /\ run[p] \in Runs /\ code[p] \in Codes /\ truth[p] \in Codes
      BY <1>1 DEF ProcessInv, ScriptsTyped
<1>3. ASSUME NEW v \in Verdicts, Holds(p, v.verdict, v.code), req[r].pc \in Refreshes, OnlyRequest,
             Set(r, [req[r] EXCEPT !.pc = "settle", !.verdict = v])
      PROVE  ProcessInv'
  <2> DEFINE q == [req[r] EXCEPT !.pc = "settle", !.verdict = v]
  <2>1. q \in Request
        BY <1>1 DEF Request, Places
  <2>2. InHand(q)
        BY <1>1 DEF Request, RequestOK, InHand, HoldsOne, Purges, Cleans
  <2>3. Justified(q) /\ Checked(q)
        BY <1>1, <1>3 DEF Request, RequestOK, Purges, Cleans, Justified, Checked, Refreshes
  <2>4. RequestOK(q)
        BY <1>1, <2>1, <2>2, <2>3 DEF RequestOK, Request
  <2> QED BY <1>1, <1>3, <2>4, RequestStep, OnlyQuiet DEF Request
<1>4. ASSUME HasExitCode(p)
      PROVE  ExitVerdict(p) \in Verdicts /\ Holds(p, ExitVerdict(p).verdict, ExitVerdict(p).code)
      BY <1>1, <1>2, <1>4 DEF HasExitCode, ExitVerdict, Verdicts, Holds, Finished, LeftBehind, ScriptOK, Runs,
                              Codes
<1>5. PidVerdict(p) \in Verdicts /\ Holds(p, PidVerdict(p).verdict, PidVerdict(p).code)
      BY <1>1, <1>2 DEF PidVerdict, Verdicts, Holds, Finished, LeftBehind, ScriptOK, Runs, Codes, Terminal
<1>6. ASSUME Probe(r), ~HasExitCode(p)
      PROVE  ProcessInv'
  <2> DEFINE q == [req[r] EXCEPT !.pc = "probe_pid"]
  <2>1. q \in Request
        BY <1>1 DEF Request, Places
  <2>2. InHand(q) /\ Justified(q) /\ Checked(q)
        BY <1>1, <1>6 DEF Request, RequestOK, InHand, HoldsOne, Purges, Cleans, Justified, Checked,
                          Refreshes, Probe, At
  <2>3. RequestOK(q)
        BY <1>1, <2>1, <2>2 DEF RequestOK, Request
  <2> QED BY <1>1, <1>6, <2>3, RequestStep, OnlyQuiet DEF Request, Probe, Goto
<1> QED BY <1>3, <1>4, <1>5, <1>6 DEF Probe, ProbePid, At, Refreshes

LEMMA CheckNextStep ==
    ASSUME ProcessInv, NEW r \in Requests, CheckNext(r)
    PROVE  ProcessInv'
<1>1. RequestOK(req[r]) /\ req[r] \in Request
      BY DEF ProcessInv, RequestOK
<1>2. CASE req[r].todo = {} /\ req[r].op = "start"
  <2> DEFINE q == [req[r] EXCEPT !.pc = "insert"]
  <2>1. q \in Request
        BY <1>1 DEF Request, Places
  <2>2. InHand(q) /\ Justified(q)
        BY <1>1, <1>2 DEF Request, RequestOK, InHand, HoldsOne, Purges, Justified
  <2>3. Checked(q)
        BY <1>1, <1>2 DEF Request, RequestOK, Checked, Refreshes, CheckNext, At
  <2>4. RequestOK(q)
        BY <1>1, <2>1, <2>2, <2>3 DEF RequestOK, Request
  <2> QED BY <1>1, <1>2, <2>4, RequestStep, OnlyQuiet DEF Request, CheckNext, Goto
<1>3. ASSUME NEW p \in req[r].todo, Set(r, [req[r] EXCEPT !.pc = "probe", !.p = p, !.todo = @ \ {p}])
      PROVE  ProcessInv'
  <2> DEFINE q == [req[r] EXCEPT !.pc = "probe", !.p = p, !.todo = @ \ {p}]
  <2>1. q \in Request
        BY <1>1 DEF Request, Places
  <2>2. InHand(q) /\ Justified(q)
        BY <1>1 DEF Request, RequestOK, InHand, HoldsOne, Purges, Justified
  <2>3. Checked(q)
        BY <1>1 DEF Request, RequestOK, Checked, Refreshes, CheckNext, At
  <2>4. RequestOK(q)
        BY <1>1, <2>1, <2>2, <2>3 DEF RequestOK, Request
  <2> QED BY <1>1, <1>3, <2>4, RequestStep, OnlyQuiet DEF Request, CheckNext
<1> QED BY <1>2, <1>3, ReturnStep, OnlyQuiet DEF CheckNext

LEMMA NextProcessStep ==
    ASSUME ProcessInv, NEW r \in Requests, NextProcess(r)
    PROVE  ProcessInv'
<1>1. RequestOK(req[r]) /\ req[r] \in Request
      BY DEF ProcessInv, RequestOK
<1>2. CASE req[r].todo = {}
  <2> DEFINE q == [req[r] EXCEPT !.pc = "backend"]
  <2>1. q \in Request
        BY <1>1 DEF Request, Places
  <2>2. InHand(q) /\ Justified(q) /\ Checked(q)
        BY <1>1 DEF Request, RequestOK, InHand, HoldsOne, Purges, Cleans, Justified, Checked, Refreshes,
                    NextProcess, At
  <2>3. RequestOK(q)
        BY <1>1, <2>1, <2>2 DEF RequestOK, Request
  <2> QED BY <1>1, <1>2, <2>3, RequestStep, OnlyQuiet DEF Request, NextProcess, Goto
<1>3. CASE req[r].todo # {}
  <2>1. PICK p \in req[r].todo :
               Set(r, [req[r] EXCEPT !.p = p, !.todo = @ \ {p},
                           !.pc = IF IsTerminal(req[r].seen[p]) THEN "purge" ELSE "probe",
                           !.victim = IF IsTerminal(req[r].seen[p]) THEN p ELSE "none"])
        BY <1>3 DEF NextProcess
  <2> DEFINE q == [req[r] EXCEPT !.p = p, !.todo = @ \ {p},
                       !.pc = IF IsTerminal(req[r].seen[p]) THEN "purge" ELSE "probe",
                       !.victim = IF IsTerminal(req[r].seen[p]) THEN p ELSE "none"]
  <2>2. q \in Request
        BY <1>1 DEF Request, Places
  <2>3. InHand(q) /\ Justified(q) /\ Checked(q)
        BY <1>1 DEF Request, RequestOK, InHand, HoldsOne, Purges, Cleans, Justified, Checked, Refreshes,
                    NextProcess, At
  <2>4. RequestOK(q)
        BY <1>1, <2>2, <2>3 DEF RequestOK, Request
  <2> QED BY <1>1, <2>1, <2>4, RequestStep, OnlyQuiet DEF Request, NextProcess
<1> QED BY <1>2, <1>3

\* The end of a request by an error.
LEMMA ErrsStep ==
    ASSUME ProcessInv, Quiet, NEW r \in Requests, Errs(r), req[r].pc \notin {"idle", "again", "poll"}
    PROVE  ProcessInv'
<1>1. RequestOK(req[r]) /\ req[r] \in Request
      BY DEF ProcessInv, RequestOK
<1>2. CASE req[r].op = "destroy" /\ req[r].cancel # "no" /\ PurgeInHand(r)
      BY <1>1, <1>2, PurgeInHandStep DEF RequestOK, InHand
<1>3. CASE req[r].op = "list" /\ Goto(r, "check")
  <2> DEFINE q == [req[r] EXCEPT !.pc = "check"]
  <2>1. q \in Request
        BY <1>1 DEF Request, Places
  <2>2. InHand(q) /\ Justified(q) /\ Checked(q)
        BY <1>1, <1>3 DEF Request, RequestOK, InHand, HoldsOne, Purges, Cleans, Justified, Checked
  <2>3. RequestOK(q)
        BY <1>1, <2>1, <2>2 DEF RequestOK, Request
  <2> QED BY <1>1, <1>3, <2>3, RequestStep DEF Request, Goto
<1> QED BY <1>2, <1>3, ReturnStep DEF Errs

LEMMA CancellingOK ==
    ASSUME ProcessInv
    PROVE  \A some \in SUBSET Requests : Cancelling(some) \subseteq Processes
BY DEF ProcessInv, RequestOK, InHand, HoldsOne, Cancelling, At

LEMMA EndingStep ==
    ASSUME ProcessInv, NEW r \in Requests,
           PollEnds(r) \/ NotFound(r) \/ CallFails(r) \/ DestroyBackend(r)
    PROVE  ProcessInv'
<1>1. CASE PollEnds(r)
  <2>1. req[r].p \in Processes
        BY <1>1 DEF ProcessInv, RequestOK, InHand, HoldsOne, PollEnds, At
  <2> QED BY <1>1, <2>1, PurgeInHandStep, ReturnStep, OnlyQuiet DEF PollEnds
<1>2. CASE NotFound(r)
      BY <1>2, ErrsStep, OnlyQuiet DEF NotFound
<1>3. CASE CallFails(r)
  <2>1. abandoned' \in SUBSET Processes
        BY <1>3, CancellingOK DEF CallFails, ProcessInv, ControlTyped
  <2>2. UNCHANGED <<scripts, rec, young, expired, sandbox>> /\ aborts' \in 0 .. MaxAborts
        BY <1>3, RequestAssumption DEF CallFails, ProcessInv, ControlTyped
  <2>3. Quiet
        BY <2>1, <2>2 DEF Quiet, ProcessInv, ControlTyped
  <2> QED BY <1>3, <2>3, ErrsStep DEF CallFails
<1>4. CASE DestroyBackend(r)
  <2>1. Quiet
        BY <1>4 DEF DestroyBackend, Quiet, ProcessInv, ControlTyped
  <2> QED BY <1>4, <2>1, ReturnStep DEF DestroyBackend
<1> QED BY <1>1, <1>2, <1>3, <1>4

LEMMA ProbeFailsStep ==
    ASSUME ProcessInv, NEW r \in Requests, ProbeFails(r)
    PROVE  ProcessInv'
<1> DEFINE q == [req[r] EXCEPT !.pc = "settle", !.verdict = NoVerdict]
<1>1. RequestOK(req[r]) /\ req[r] \in Request /\ req[r].pc \in {"probe", "probe_pid"}
      BY DEF ProcessInv, RequestOK, ProbeFails
<1>2. q \in Request
      BY <1>1 DEF Request, Places, Verdicts, NoVerdict, Codes
<1>3. InHand(q) /\ Justified(q) /\ Checked(q)
      BY <1>1 DEF Request, RequestOK, InHand, HoldsOne, Purges, Cleans, Justified, Checked,
                  Refreshes, NoVerdict, Holds, Terminal
<1>4. RequestOK(q)
      BY <1>1, <1>2, <1>3 DEF RequestOK, Request
<1>5. Quiet
      BY RequestAssumption DEF ProbeFails, Quiet, ProcessInv, ControlTyped
<1> QED BY <1>1, <1>4, <1>5, RequestStep DEF Request, ProbeFails

LEMMA DestroyOwnedStep ==
    ASSUME ProcessInv, NEW r \in Requests, DestroyOwned(r)
    PROVE  ProcessInv'
<1> DEFINE q == [req[r] EXCEPT !.pc = "forget"]
<1>1. RequestOK(req[r]) /\ req[r] \in Request
      BY DEF ProcessInv, RequestOK
<1>2. q \in Request
      BY <1>1 DEF Request, Places
<1>3. InHand(q) /\ Justified(q) /\ Checked(q)
      BY <1>1 DEF Request, RequestOK, InHand, HoldsOne, Purges, Cleans, Justified, Checked,
                  Refreshes, DestroyOwned, At
<1>4. RequestOK(q)
      BY <1>1, <1>2, <1>3 DEF RequestOK, Request
<1>5. Quiet
      BY DEF DestroyOwned, Quiet, ProcessInv, ControlTyped
<1> QED BY <1>1, <1>4, <1>5, RequestStep DEF Request, DestroyOwned, Goto

-----------------------------------------------------------------------------
(* Then those that change the records ...                                  *)

LEMMA ForgetStep ==
    ASSUME ProcessInv, NEW r \in Requests, Forget(r)
    PROVE  ProcessInv'
<1> DEFINE v == req[r].victim
           q == [req[r] EXCEPT !.pc = IF InCleanup(r) THEN "cleanup" ELSE "next",
                               !.victim = "none"]
<1>1. RequestOK(req[r]) /\ req[r] \in Request /\ v \in Processes /\ req[r].pc = "forget"
      BY DEF ProcessInv, RequestOK, InHand, Purges, Forget, At
<1>2. Monotone
      BY DEF Monotone, Finished, LeftBehind, Forget, scripts
<1>3. q \in Request
      BY <1>1 DEF Request, Places
<1>4. InHand(q) /\ Justified(q) /\ Checked(q)
      BY <1>1 DEF Request, RequestOK, InHand, HoldsOne, Purges, Cleans, Justified, Checked,
                  Refreshes, InCleanup
<1>5. RequestOK(q)
      BY <1>1, <1>3, <1>4 DEF RequestOK, Request
<1>6. req' \in [Requests -> Request] /\ \A s \in Requests : RequestOK(req[s])'
      BY <1>2, <1>5, RequestsStay DEF Forget
<1>7. LaunchOK'
      BY <1>1, LaunchStays DEF Forget, scripts, Request
<1>8. ScriptsTyped' /\ \A p \in Processes : ScriptOK(p)'
      BY DEF ProcessInv, ScriptsTyped, ScriptOK, Forget, scripts
<1>9. ControlTyped'
      BY DEF ProcessInv, ControlTyped, Forget, NoRecord, Record, Statuses, Codes
<1>10. ExpiryIffTerminal'
      BY <1>1 DEF ProcessInv, ControlTyped, ExpiryIffTerminal, IsTerminal, Terminal, Forget, NoRecord
<1>11. VerdictTruthful'
  <2> SUFFICES ASSUME NEW p \in Processes, phase'[p] # "failed"
               PROVE  Holds(p, rec[p].st, rec[p].code)'
      BY DEF VerdictTruthful
  <2>1. CASE p = v
        BY <1>1, <2>1 DEF Holds, Terminal, Forget, NoRecord, ProcessInv, ControlTyped
  <2>2. CASE p # v
        BY <1>2, <2>2, VerdictStays DEF Forget, ProcessInv, ControlTyped
  <2> QED BY <2>1, <2>2
<1> QED BY <1>6, <1>7, <1>8, <1>9, <1>10, <1>11 DEF ProcessInv

\* What parse_process_probe returns, for a claim that holds: a well-formed record, and,
\* if it changed anything, one that is so.
LEMMA ProbedOK ==
    ASSUME NEW p \in Processes, NEW record \in Record, NEW v \in Verdicts,
           record.ends <=> IsTerminal(record), Holds(p, v.verdict, v.code)
    PROVE  LET copy == Probed(p, record, v) IN
           /\ copy \in Record
           /\ copy.ends <=> IsTerminal(copy)
           /\ copy # record => Holds(p, copy.st, copy.code) /\ copy.st # "absent"
<1> SUFFICES ASSUME NEW copy, copy = Probed(p, record, v)
             PROVE  /\ copy \in Record
                    /\ copy.ends <=> IsTerminal(copy)
                    /\ copy # record => Holds(p, copy.st, copy.code) /\ copy.st # "absent"
    OBVIOUS
<1> USE DEF Record, Statuses, Terminal, IsTerminal, Codes, Verdicts, Holds
<1>1. CASE v.verdict = "running"
  <2>1. copy = [record EXCEPT !.st = "running", !.code = "", !.pid = TRUE, !.ends = FALSE]
        BY <1>1 DEF Probed
  <2> QED BY <1>1, <2>1
<1>2. CASE v.verdict \in {"succeeded", "failed", "cancelled"}
  <2>1. copy = [record EXCEPT !.st = v.verdict, !.code = v.code, !.ends = TRUE]
        BY <1>2 DEF Probed, Ended
  <2> QED BY <1>2, <2>1
<1>3. CASE v.verdict = "lost" /\ p \notin young
  <2>1. copy = [record EXCEPT !.st = "lost", !.ends = TRUE]
        BY <1>3 DEF Probed
  <2> QED BY <1>3, <2>1
<1>4. CASE v.verdict = "lost" /\ p \in young
  <2>1. copy = [record EXCEPT !.st = "starting", !.code = "", !.ends = FALSE]
        BY <1>4 DEF Probed
  <2> QED BY <1>4, <2>1
<1>5. CASE v.verdict \in {"none", "starting"}
  <2>1. copy = record
        BY <1>5 DEF Probed
  <2> QED BY <2>1
<1> QED BY <1>1, <1>2, <1>3, <1>4, <1>5

LEMMA SettleStep ==
    ASSUME ProcessInv, NEW r \in Requests, Settle(r)
    PROVE  ProcessInv'
<1> DEFINE p == req[r].p
           copy == Probed(p, req[r].seen[p], req[r].verdict)
           q0 == [req[r] EXCEPT !.verdict = NoVerdict,
                                !.seen[p] = IF req[r].op = "start" THEN copy ELSE NoRecord]
           over == IsTerminal(copy)
<1>1. RequestOK(req[r]) /\ req[r] \in Request /\ p \in Processes /\ req[r].pc = "settle"
      BY DEF ProcessInv, RequestOK, InHand, HoldsOne, Settle, At
<1>2. /\ req[r].seen[p] \in Record /\ req[r].verdict \in Verdicts
      /\ req[r].seen[p].ends <=> IsTerminal(req[r].seen[p])
      /\ Holds(p, req[r].verdict.verdict, req[r].verdict.code)
      BY <1>1 DEF RequestOK, Request, Justified
<1>3. /\ copy \in Record
      /\ copy.ends <=> IsTerminal(copy)
      /\ copy # req[r].seen[p] => Holds(p, copy.st, copy.code)
      BY <1>1, <1>2, ProbedOK
<1> HIDE DEF copy
<1>4. Monotone
      BY DEF Monotone, Finished, LeftBehind, Settle, scripts
<1>5. q0 \in Request /\ \A s \in Processes : q0.seen[s].ends <=> IsTerminal(q0.seen[s])
  <2>1. NoRecord \in Record /\ NoVerdict \in Verdicts /\ (NoRecord.ends <=> IsTerminal(NoRecord))
        BY DEF NoRecord, Record, Statuses, Terminal, Codes, NoVerdict, Verdicts, IsTerminal
  <2> QED BY <1>1, <1>3, <2>1 DEF Request, RequestOK
<1>6. req[r].op = "start" /\ over => Unfollowed(p)
      BY <1>1, <1>3 DEF Holds, Unfollowed, Over, LeftBehind, RequestOK, Checked, IsTerminal, IsActive, Terminal
<1>7. ASSUME NEW q, RequestOK(q), q.pc # "launch", Set(r, q)
      PROVE  ProcessInv'
  <2>1. req' \in [Requests -> Request] /\ \A s \in Requests : RequestOK(req[s])'
        BY <1>4, <1>7, RequestsStay
  <2>2. LaunchOK'
        BY <1>7, LaunchStays DEF Settle, scripts
  <2>3. ScriptsTyped' /\ \A s \in Processes : ScriptOK(s)'
        BY DEF ProcessInv, ScriptsTyped, ScriptOK, Settle, scripts
  <2>4. rec' = IF copy # req[r].seen[p] THEN [rec EXCEPT ![p] = copy] ELSE rec
        BY DEF Settle, copy
  <2>5. ControlTyped'
        BY <1>3, <2>4 DEF ProcessInv, ControlTyped, Settle
  <2>6. ExpiryIffTerminal'
        BY <1>3, <2>4 DEF ProcessInv, ControlTyped, ExpiryIffTerminal, IsTerminal
  <2>7. VerdictTruthful'
    <3> SUFFICES ASSUME NEW s \in Processes, phase'[s] # "failed"
                 PROVE  Holds(s, rec[s].st, rec[s].code)'
        BY DEF VerdictTruthful
    <3>1. CASE rec'[s] = rec[s]
          BY <1>4, <3>1, VerdictStays
    <3>2. CASE rec'[s] # rec[s]
      <4>1. s = p /\ rec'[s] = copy /\ Holds(p, copy.st, copy.code)
            BY <1>3, <2>4, <3>2 DEF ProcessInv, ControlTyped
      <4> QED BY <4>1 DEF Holds, Finished, LeftBehind, Settle, scripts
    <3> QED BY <3>1, <3>2
  <2> QED BY <2>1, <2>2, <2>3, <2>5, <2>6, <2>7 DEF ProcessInv
<1>8. AfterRefresh(r, copy)
      BY DEF Settle, copy
<1>9. CASE (req[r].op = "list" \/ (req[r].op = "start" /\ over)) /\ Set(r, [q0 EXCEPT !.pc = "check"])
  <2> DEFINE q == [q0 EXCEPT !.pc = "check"]
  <2>1. q \in Request
        BY <1>5 DEF Request, Places
  <2>2. InHand(q) /\ Justified(q)
        BY <1>1, <1>5 DEF Request, RequestOK, InHand, HoldsOne, Purges, Justified
  <2>3. Checked(q)
    <3> SUFFICES ASSUME req[r].op = "start"
                 PROVE  \A s \in Processes :
                           q.seen[s].st # "absent" /\ ~Unfollowed(s) =>
                               IsActive(q.seen[s]) /\ s \in q.todo
        BY <1>1, <1>5 DEF Checked, Request
    <3>1. ~Unfollowed(p) => FALSE
          BY <1>6, <1>9
    <3>2. \A s \in Processes : s # p => q.seen[s] = req[r].seen[s]
          BY <1>1 DEF Request
    <3>3. q.todo = req[r].todo
          BY <1>1 DEF Request
    <3> QED BY <1>1, <3>1, <3>2, <3>3 DEF RequestOK, Checked
  <2>4. RequestOK(q)
        BY <1>5, <2>1, <2>2, <2>3 DEF RequestOK, Request
  <2> QED BY <1>5, <1>7, <1>9, <2>4 DEF Request
<1>10. CASE Return(r)
       BY <1>7, <1>10, IdleOK DEF Return, Idle
<1>11. CASE req[r].op = "destroy" /\ PurgeInHand(r)
  <2> DEFINE q == [req[r] EXCEPT !.pc = "purge", !.victim = req[r].p, !.cancel = "no",
                                 !.due = {}, !.verdict = NoVerdict]
  <2>1. q \in Request
        BY <1>1 DEF Request, Places, Verdicts, NoVerdict, Codes
  <2>2. InHand(q) /\ Justified(q) /\ Checked(q)
        BY <1>1, <1>11 DEF Request, RequestOK, InHand, HoldsOne, Purges, Cleans, Justified, Checked
  <2>3. RequestOK(q)
        BY <1>1, <2>1, <2>2 DEF RequestOK, Request
  <2> QED BY <1>1, <1>7, <1>11, <2>3 DEF Request, PurgeInHand
<1>12. CASE req[r].op = "destroy" /\ Set(r, [q0 EXCEPT !.pc = "again", !.cancel = "first"])
  <2> DEFINE q == [q0 EXCEPT !.pc = "again", !.cancel = "first"]
  <2>1. q \in Request
        BY <1>5 DEF Request, Places
  <2>2. InHand(q) /\ Justified(q) /\ Checked(q)
        BY <1>1, <1>5, <1>12 DEF Request, RequestOK, InHand, HoldsOne, Purges, Cleans, Justified,
                                 Checked
  <2>3. RequestOK(q)
        BY <1>5, <2>1, <2>2 DEF RequestOK, Request
  <2> QED BY <1>5, <1>7, <1>12, <2>3 DEF Request
<1>13. ASSUME NEW place \in {"mark", "poll"}, req[r].cancel # "no", Set(r, [q0 EXCEPT !.pc = place])
       PROVE  ProcessInv'
  <2> DEFINE q == [q0 EXCEPT !.pc = place]
  <2>1. q \in Request
        BY <1>5 DEF Request, Places
  <2>2. InHand(q) /\ Justified(q) /\ Checked(q)
        BY <1>1, <1>5, <1>13 DEF Request, RequestOK, InHand, HoldsOne, Purges, Cleans, Justified,
                                 Checked
  <2>3. RequestOK(q)
        BY <1>5, <2>1, <2>2 DEF RequestOK, Request
  <2> QED BY <1>5, <1>7, <1>13, <2>3 DEF Request
<1> QED BY <1>8, <1>1, <1>9, <1>10, <1>11, <1>12, <1>13 DEF AfterRefresh, Request

LEMMA LaunchedStep ==
    ASSUME ProcessInv, NEW r \in Requests, Launched(r)
    PROVE  ProcessInv'
<1> DEFINE p == req[r].p
           new == IF phase[p] = "launched" THEN Running ELSE LaunchFailed
<1>1. p \in Processes /\ phase[p] \in {"launched", "failed"}
      BY DEF ProcessInv, RequestOK, InHand, HoldsOne, Launched, At
<1>2. Monotone
      BY DEF Monotone, Finished, LeftBehind, Launched, scripts
<1>3. req' \in [Requests -> Request] /\ \A s \in Requests : RequestOK(req[s])'
      BY <1>2, IdleOK, RequestsStay DEF Launched, Return
<1>4. LaunchOK'
      BY LaunchStays DEF Launched, Return, Idle, scripts
<1>5. ScriptsTyped' /\ \A s \in Processes : ScriptOK(s)'
      BY DEF ProcessInv, ScriptsTyped, ScriptOK, Launched, scripts
<1>6. rec' = [rec EXCEPT ![p] = new] /\ rec \in [Processes -> Record]
      BY DEF Launched, ProcessInv, ControlTyped
<1>7. new \in Record /\ (new.ends <=> IsTerminal(new))
      BY DEF Running, NoRecord, LaunchFailed, Record, Statuses, Terminal, Codes, IsTerminal
<1>8. ControlTyped'
      BY <1>6, <1>7 DEF ProcessInv, ControlTyped, Launched
<1>9. ExpiryIffTerminal'
      BY <1>6, <1>7 DEF ProcessInv, ExpiryIffTerminal, IsTerminal
<1>10. VerdictTruthful'
  <2> SUFFICES ASSUME NEW s \in Processes, phase'[s] # "failed"
               PROVE  Holds(s, rec[s].st, rec[s].code)'
      BY DEF VerdictTruthful
  <2>1. CASE s = p
    <3>1. rec'[s] = Running
          BY <1>1, <1>6, <2>1 DEF Launched, scripts
    <3>2. rec'[s].st = "running"
          BY <3>1 DEF Running, NoRecord
    <3> QED BY <3>2 DEF Holds, Terminal
  <2>2. CASE s # p
        BY <1>2, <1>6, <2>2, VerdictStays
  <2> QED BY <2>1, <2>2
<1> QED BY <1>3, <1>4, <1>5, <1>8, <1>9, <1>10 DEF ProcessInv

LEMMA InsertStep ==
    ASSUME ProcessInv, NEW r \in Requests, Insert(r)
    PROVE  ProcessInv'
<1>1. CASE /\ Return(r)
           /\ UNCHANGED <<phase, rec, young>>
           /\ UNCHANGED <<run, truth, code, files, abandoned, expired, sandbox, aborts>>
  <2>1. Quiet
        BY <1>1 DEF Quiet, ProcessInv, ControlTyped, scripts
  <2> QED BY <1>1, <2>1, ReturnStep
<1>2. ASSUME NEW p \in Processes,
             phase[p] = "unborn",
             phase' = [phase EXCEPT ![p] = "recorded"],
             rec' = [rec EXCEPT ![p] = Starting],
             young' = young \cup {p},
             Set(r, [Idle EXCEPT !.op = "start", !.pc = "launch", !.p = p]),
             UNCHANGED <<run, truth, code, files, abandoned, expired, sandbox, aborts>>
      PROVE  ProcessInv'
  <2> DEFINE q == [Idle EXCEPT !.op = "start", !.pc = "launch", !.p = p]
  <2>1. Monotone
        BY <1>2 DEF Monotone, Finished, LeftBehind, ProcessInv, ScriptsTyped
  <2>2. q \in Request
        BY IdleOK DEF RequestOK, Idle, Request, Ops, Places
  <2>3. InHand(q) /\ Justified(q) /\ Checked(q)
        BY DEF Idle, InHand, HoldsOne, Purges, Cleans, Justified, Checked, NothingSeen, NoRecord
  <2>4. RequestOK(q)
        BY IdleOK, <2>2, <2>3 DEF RequestOK, Idle
  <2>5. req' \in [Requests -> Request] /\ \A s \in Requests : RequestOK(req[s])'
        BY <1>2, <2>1, <2>4, RequestsStay
  <2>6. LaunchOK'
    <3>1. \A s \in Requests : s # r => req'[s] = req[s]
          BY <1>2 DEF Set, ProcessInv
    <3>2. req'[r].p = p /\ req'[r].pc = "launch"
          BY <1>2 DEF Set, ProcessInv, Idle
    <3>3. \A s \in Requests : At(s, "launch") => phase[req[s].p] = "recorded" /\ req[s].p # p
          BY <1>2 DEF ProcessInv, LaunchOK
    <3>4. \A s \in Requests : At(s, "launch") => req[s].p \in Processes
          BY DEF ProcessInv, RequestOK, InHand, HoldsOne, At
    <3>5. phase \in [Processes -> Phases]
          BY DEF ProcessInv, ScriptsTyped
    <3>6. \A s, t \in Requests : At(s, "launch") /\ At(t, "launch") /\ req[s].p = req[t].p => s = t
          BY DEF ProcessInv, LaunchOK
    <3> QED BY <1>2, <3>1, <3>2, <3>3, <3>4, <3>5, <3>6 DEF LaunchOK, At
  <2>7. ScriptsTyped' /\ \A s \in Processes : ScriptOK(s)'
        BY <1>2 DEF ProcessInv, ScriptsTyped, ScriptOK, Phases
  <2>8. rec \in [Processes -> Record] /\ Starting \in Record /\ Starting.st = "starting"
        /\ Starting.ends = FALSE
        BY DEF ProcessInv, ControlTyped, Starting, NoRecord, Record, Statuses, Codes
  <2>9. ControlTyped'
        BY <1>2, <2>8 DEF ProcessInv, ControlTyped
  <2>10. ExpiryIffTerminal'
         BY <1>2, <2>8 DEF ProcessInv, ExpiryIffTerminal, IsTerminal, Terminal
  <2>11. VerdictTruthful'
    <3> SUFFICES ASSUME NEW s \in Processes, phase'[s] # "failed"
                 PROVE  Holds(s, rec[s].st, rec[s].code)'
        BY DEF VerdictTruthful
    <3>1. CASE s = p
          BY <1>2, <2>8, <3>1 DEF Holds, Terminal
    <3>2. CASE s # p
          BY <1>2, <2>1, <2>8, <3>2, VerdictStays
    <3> QED BY <3>1, <3>2
  <2> QED BY <2>5, <2>6, <2>7, <2>9, <2>10, <2>11 DEF ProcessInv
<1> QED BY <1>1, <1>2 DEF Insert

-----------------------------------------------------------------------------
(* ... and those that change what is in the sandbox.                       *)

\* With the records untouched, the scripts and the requests are all there is to show.
LEMMA SandboxStep ==
    ASSUME ProcessInv, Monotone, UNCHANGED rec, ScriptsTyped', ControlTyped',
           \A p \in Processes : ScriptOK(p)', LaunchOK',
           req' \in [Requests -> Request] /\ \A s \in Requests : RequestOK(req[s])'
    PROVE  ProcessInv'
<1>1. ExpiryIffTerminal'
      BY DEF ProcessInv, ExpiryIffTerminal, IsTerminal
<1>2. VerdictTruthful'
      BY VerdictStays DEF VerdictTruthful
<1> QED BY <1>1, <1>2 DEF ProcessInv

LEMMA InSandboxStep ==
    ASSUME ProcessInv, NEW p \in Processes, InSandbox(p)
    PROVE  ProcessInv'
<1> USE DEF ScriptsStep
<1>1. ScriptsTyped /\ \A s \in Processes : ScriptOK(s)
      BY DEF ProcessInv
<1>2. ScriptsStep(p) /\ UNCHANGED control
      BY DEF InSandbox
<1>3. Monotone
      BY <1>1, <1>2 DEF Monotone, Finished, LeftBehind, ScriptsTyped, ScriptOK, Spawn, WritePid, LaunchFails,
                        CommandEnds, WrapperEnds, Die
<1>4. ScriptsTyped'
  <2> USE <1>1 DEF ScriptsTyped, Phases, Runs, Codes, Files
  <2>1. CASE Spawn(p)
        BY <2>1 DEF Spawn
  <2>2. CASE WritePid(p)
        BY <2>2 DEF WritePid
  <2>3. CASE LaunchFails(p)
        BY <2>3 DEF LaunchFails
  <2>4. CASE CommandEnds(p)
    <3>1. truth' \in [Processes -> Codes]
          BY <2>4 DEF CommandEnds
    <3>2. run' \in [Processes -> Runs] /\ files' \in [Processes -> SUBSET Files]
      <4>1. CASE run[p] = "command" /\ "dir" \in files[p]
        <5>1. /\ run' = [run EXCEPT ![p] = "wrapper"]
              /\ files' = [files EXCEPT ![p] = @ \cup {"exit_code"}]
              BY <2>4, <4>1 DEF CommandEnds
        <5>2. run' \in [Processes -> Runs]
              BY <5>1
        <5>3. files' \in [Processes -> SUBSET Files]
              BY <5>1
        <5> QED BY <5>2, <5>3
      <4>2. CASE ~(run[p] = "command" /\ "dir" \in files[p])
            BY <2>4, <4>2 DEF CommandEnds
      <4> QED BY <4>1, <4>2
    <3> QED BY <2>4, <3>1, <3>2 DEF CommandEnds
  <2>5. CASE WrapperEnds(p)
        BY <2>5 DEF WrapperEnds
  <2>6. CASE Die(p)
        BY <2>6 DEF Die
  <2> QED BY <1>2, <2>1, <2>2, <2>3, <2>4, <2>5, <2>6
<1>5. \A s \in Processes : ScriptOK(s)'
  <2> TAKE s \in Processes
  <2>1. CASE Spawn(p)
        BY <1>1, <2>1 DEF ScriptsTyped, ScriptOK, Spawn
  <2>2. CASE WritePid(p)
        BY <1>1, <2>2 DEF ScriptsTyped, ScriptOK, WritePid
  <2>3. CASE LaunchFails(p)
        BY <1>1, <2>3 DEF ScriptsTyped, ScriptOK, LaunchFails
  <2>4. CASE CommandEnds(p)
        BY <1>1, <2>4 DEF ScriptsTyped, ScriptOK, CommandEnds
  <2>5. CASE WrapperEnds(p)
        BY <1>1, <2>5 DEF ScriptsTyped, ScriptOK, WrapperEnds
  <2>6. CASE Die(p)
        BY <1>1, <2>6 DEF ScriptsTyped, ScriptOK, Die
  <2> QED BY <1>2, <2>1, <2>2, <2>3, <2>4, <2>5, <2>6
<1>6. \A s \in Processes : phase[s] = "recorded" => phase'[s] = "recorded"
      BY <1>1, <1>2 DEF ScriptsTyped, Spawn, WritePid, LaunchFails, CommandEnds, WrapperEnds, Die
<1>7. ControlTyped' /\ UNCHANGED <<rec, req>>
      BY <1>2 DEF ProcessInv, ControlTyped, control
<1>8. LaunchOK'
  <2>1. \A s \in Requests : At(s, "launch") => req[s].p \in Processes
        BY DEF ProcessInv, RequestOK, InHand, HoldsOne, At
  <2> QED BY <1>6, <1>7, <2>1 DEF ProcessInv, LaunchOK, At
<1> QED BY <1>3, <1>4, <1>5, <1>7, <1>8, RequestsRest, SandboxStep

\* One pass of the cancel script, or none.
LEMMA KillPassOK ==
    ASSUME ScriptsTyped, \A s \in Processes : ScriptOK(s), NEW p \in Processes,
           KillPass(p) \/ UNCHANGED scripts
    PROVE  Monotone /\ ScriptsTyped' /\ (\A s \in Processes : ScriptOK(s)') /\ UNCHANGED phase
<1> USE DEF ScriptsTyped
<1>1. CASE UNCHANGED <<run, phase, truth, code, files>>
      BY <1>1 DEF Monotone, Finished, LeftBehind, ScriptOK
<1>2. CASE run[p] = "command" /\ run' = [run EXCEPT ![p] = "orphan"]
           /\ UNCHANGED <<phase, truth, code, files>>
      BY <1>2 DEF Monotone, Finished, LeftBehind, ScriptOK, Runs
<1>3. CASE run[p] \in {"command", "wrapper"} /\ run' = [run EXCEPT ![p] = "ended"]
           /\ UNCHANGED <<phase, truth, code, files>>
      BY <1>3 DEF Monotone, Finished, LeftBehind, ScriptOK, Runs
<1> QED BY <1>1, <1>2, <1>3 DEF KillPass, scripts

\* RemoveFiles, WriteMarker, Kill and KillAgain: a request moves on and touches one process.
LEMMA TouchStep ==
    ASSUME ProcessInv, NEW r \in Requests,
           RemoveFiles(r) \/ WriteMarker(r) \/ Kill(r) \/ KillAgain(r)
    PROVE  ProcessInv'
<1> DEFINE q(place) == [req[r] EXCEPT !.pc = place]
<1>1. RequestOK(req[r]) /\ req[r] \in Request
      BY DEF ProcessInv, RequestOK
<1>2. ScriptsTyped /\ \A s \in Processes : ScriptOK(s)
      BY DEF ProcessInv
<1>3. ASSUME NEW n, RequestOK(n), n.pc # "launch", Set(r, n), Monotone, UNCHANGED <<phase, rec>>,
             ScriptsTyped', \A s \in Processes : ScriptOK(s)', ControlTyped'
      PROVE  ProcessInv'
  <2>1. LaunchOK'
        BY <1>3, LaunchStays
  <2> QED BY <1>3, <2>1, RequestsStay, SandboxStep
<1>4. CASE RemoveFiles(r)
  <2>1. req[r].pc = "rm" /\ req[r].victim \in Processes
        BY <1>1, <1>4 DEF RequestOK, InHand, Purges, RemoveFiles, At
  <2>2. q("forget") \in Request
        BY <1>1 DEF Request, Places
  <2>3. RequestOK(q("forget"))
    <3>1. InHand(q("forget")) /\ Justified(q("forget")) /\ Checked(q("forget"))
          BY <1>1, <2>1 DEF Request, RequestOK, InHand, HoldsOne, Purges, Cleans, Justified, Checked,
                            Refreshes
    <3> QED BY <1>1, <2>2, <3>1 DEF RequestOK, Request
  <2>4. Monotone /\ \A s \in Processes : ScriptOK(s)'
        BY <1>2, <1>4 DEF Monotone, Finished, LeftBehind, ScriptsTyped, ScriptOK, RemoveFiles
  <2>5. ScriptsTyped' /\ ControlTyped'
        BY <1>4 DEF ProcessInv, ScriptsTyped, ControlTyped, RemoveFiles
  <2> QED BY <1>1, <1>3, <1>4, <2>3, <2>4, <2>5 DEF RemoveFiles, Goto, Request
<1>5. CASE WriteMarker(r)
  <2>1. req[r].pc = "mark" /\ req[r].p \in Processes
        BY <1>1, <1>5 DEF RequestOK, InHand, HoldsOne, WriteMarker, At
  <2>2. q("kill") \in Request
        BY <1>1 DEF Request, Places
  <2>3. RequestOK(q("kill"))
    <3>1. InHand(q("kill")) /\ Justified(q("kill")) /\ Checked(q("kill"))
          BY <1>1, <2>1 DEF Request, RequestOK, InHand, HoldsOne, Purges, Cleans, Justified, Checked,
                            Refreshes
    <3> QED BY <1>1, <2>2, <3>1 DEF RequestOK, Request
  <2>4. Monotone /\ \A s \in Processes : ScriptOK(s)'
        BY <1>2, <1>5 DEF Monotone, Finished, LeftBehind, ScriptsTyped, ScriptOK, WriteMarker, Mark
  <2>5. ScriptsTyped' /\ ControlTyped'
        BY <1>5 DEF ProcessInv, ScriptsTyped, ControlTyped, WriteMarker, Mark, Files
  <2> QED BY <1>1, <1>3, <1>5, <2>3, <2>4, <2>5 DEF WriteMarker, Mark, Goto, Request
<1>6. CASE Kill(r) \/ KillAgain(r)
  <2> DEFINE p == req[r].p
             n == [req[r] EXCEPT !.pc = "again", !.cancel = "poll"]
  <2>1. req[r].pc \in {"kill", "killing"} /\ p \in Processes
        BY <1>1, <1>6 DEF RequestOK, InHand, HoldsOne, Kill, KillAgain, At
  <2>2. n \in Request /\ q("killing") \in Request
        BY <1>1 DEF Request, Places
  <2>3. req[r].op \in {"cancel", "destroy"} /\ req[r].cancel # "no"
        BY <1>1, <2>1 DEF RequestOK, InHand
  <2>4. RequestOK(n)
    <3>1. InHand(n) /\ Justified(n) /\ Checked(n)
          BY <1>1, <2>1, <2>3 DEF Request, RequestOK, InHand, HoldsOne, Purges, Cleans, Justified,
                                  Checked, Refreshes
    <3> QED BY <1>1, <2>2, <3>1 DEF RequestOK, Request
  <2>5. RequestOK(q("killing"))
    <3>1. InHand(q("killing")) /\ Justified(q("killing")) /\ Checked(q("killing"))
          BY <1>1, <2>1, <2>3 DEF Request, RequestOK, InHand, HoldsOne, Purges, Cleans, Justified,
                                  Checked, Refreshes
    <3> QED BY <1>1, <2>2, <3>1 DEF RequestOK, Request
  <2>6. KillPass(p) \/ UNCHANGED scripts
        BY <1>6 DEF Kill, KillAgain
  <2>7. Monotone /\ ScriptsTyped' /\ (\A s \in Processes : ScriptOK(s)') /\ UNCHANGED phase
        BY <1>2, <2>1, <2>6, KillPassOK
  <2>8. ControlTyped' /\ UNCHANGED rec
        BY <1>6 DEF ProcessInv, ControlTyped, Kill, KillAgain
  <2>9. Set(r, n) \/ Set(r, q("killing"))
        BY <1>6 DEF Kill, KillAgain, ThenPoll, Goto
  <2>10. n.pc # "launch" /\ q("killing").pc # "launch"
         BY <1>1 DEF Request
  <2> QED BY <1>3, <2>4, <2>5, <2>7, <2>8, <2>9, <2>10
<1> QED BY <1>4, <1>5, <1>6

\* A script that no request waits for.
LEMMA AbandonedKillStep ==
    ASSUME ProcessInv, NEW p \in Processes, AbandonedKill(p)
    PROVE  ProcessInv'
<1>1. ScriptsTyped /\ \A s \in Processes : ScriptOK(s)
      BY DEF ProcessInv
<1>2. Monotone /\ ScriptsTyped' /\ (\A s \in Processes : ScriptOK(s)') /\ UNCHANGED phase
      BY <1>1, KillPassOK DEF AbandonedKill
<1>3. ControlTyped' /\ UNCHANGED <<rec, req>>
      BY DEF ProcessInv, ControlTyped, AbandonedKill
<1>4. LaunchOK'
      BY <1>2, <1>3 DEF ProcessInv, LaunchOK, At
<1> QED BY <1>2, <1>3, <1>4, RequestsRest, SandboxStep

LEMMA LaunchStep ==
    ASSUME ProcessInv, NEW r \in Requests, Launch(r)
    PROVE  ProcessInv'
<1> DEFINE p == req[r].p
           q == [req[r] EXCEPT !.pc = "launching"]
<1>1. RequestOK(req[r]) /\ req[r] \in Request /\ p \in Processes /\ req[r].pc = "launch"
      BY DEF ProcessInv, RequestOK, InHand, HoldsOne, Launch, At
<1>2. ScriptsTyped /\ (\A s \in Processes : ScriptOK(s)) /\ phase[p] = "recorded"
      BY DEF ProcessInv, LaunchOK, Launch
<1>3. q \in Request
      BY <1>1 DEF Request, Places
<1>4. InHand(q) /\ Justified(q) /\ Checked(q)
      BY <1>1 DEF Request, RequestOK, InHand, HoldsOne, Purges, Cleans, Justified, Checked, Refreshes
<1>5. RequestOK(q)
      BY <1>1, <1>3, <1>4 DEF RequestOK, Request
<1>6. Monotone /\ \A s \in Processes : ScriptOK(s)'
      BY <1>1, <1>2 DEF Monotone, Finished, LeftBehind, ScriptsTyped, ScriptOK, Launch
<1>7. ScriptsTyped' /\ ControlTyped'
      BY DEF ProcessInv, ScriptsTyped, ControlTyped, Launch, Phases
<1>8. LaunchOK'
  <2>1. \A s \in Requests : s # r => req'[s] = req[s]
        BY DEF Launch, Goto, Set, ProcessInv
  <2>2. req'[r].pc = "launching"
        BY <1>1 DEF Launch, Goto, Set, ProcessInv, Request
  <2>3. \A s \in Requests : s # r /\ At(s, "launch") => req[s].p # p
        BY DEF ProcessInv, LaunchOK, Launch
  <2>4. \A s \in Requests : At(s, "launch") => req[s].p \in Processes /\ phase[req[s].p] = "recorded"
        BY DEF ProcessInv, RequestOK, InHand, HoldsOne, At, LaunchOK
  <2>5. \A s \in Processes : s # p => phase'[s] = phase[s]
        BY <1>2 DEF Launch, ScriptsTyped
  <2>6. \A s, t \in Requests : At(s, "launch") /\ At(t, "launch") /\ req[s].p = req[t].p => s = t
        BY DEF ProcessInv, LaunchOK
  <2> QED BY <2>1, <2>2, <2>3, <2>4, <2>5, <2>6 DEF LaunchOK, At
<1>9. req' \in [Requests -> Request] /\ \A s \in Requests : RequestOK(req[s])'
      BY <1>5, <1>6, RequestsStay DEF Launch, Goto
<1> QED BY <1>6, <1>7, <1>8, <1>9, SandboxStep DEF Launch

LEMMA TimeStep ==
    ASSUME ProcessInv, Restart \/ \E p \in Processes : Age(p) \/ Expire(p)
    PROVE  ProcessInv'
<1>1. Monotone /\ UNCHANGED <<scripts, rec>>
      BY DEF Monotone, Finished, LeftBehind, Restart, Age, Expire, scripts
<1>2. ScriptsTyped' /\ \A s \in Processes : ScriptOK(s)'
      BY <1>1 DEF ProcessInv, ScriptsTyped, ScriptOK, scripts
<1>3. ControlTyped'
  <2>1. CASE Restart
        BY <2>1, CancellingOK, RequestAssumption DEF ProcessInv, ControlTyped, Restart
  <2>2. ASSUME NEW p \in Processes, Age(p)
        PROVE  ControlTyped'
        BY <2>2 DEF ProcessInv, ControlTyped, Age
  <2>3. ASSUME NEW p \in Processes, Expire(p)
        PROVE  ControlTyped'
        BY <2>3 DEF ProcessInv, ControlTyped, Expire
  <2> QED BY <2>1, <2>2, <2>3
<1>4. CASE Restart
  <2>1. \A s \in Requests : req'[s] = Idle
        BY <1>4 DEF Restart
  <2>2. req' \in [Requests -> Request] /\ \A s \in Requests : RequestOK(req[s])'
    <3>1. Idle \in Request
          BY IdleOK DEF RequestOK
    <3>2. \A x : x = Idle => RequestOK(x)'
          BY <1>1, IdleOK, RequestStable
    <3> QED BY <1>4, <2>1, <3>1, <3>2 DEF Restart
  <2>3. LaunchOK'
        BY <2>1 DEF LaunchOK, At, Idle
  <2> QED BY <1>1, <1>2, <1>3, <2>2, <2>3, SandboxStep
<1>5. CASE UNCHANGED req
  <2>1. LaunchOK'
        BY <1>1, <1>5 DEF ProcessInv, LaunchOK, At, scripts
  <2> QED BY <1>1, <1>2, <1>3, <1>5, <2>1, RequestsRest, SandboxStep
<1> QED BY <1>4, <1>5 DEF Age, Expire

-----------------------------------------------------------------------------
(* The theorems.                                                           *)

LEMMA InitInv == ProcessInit => ProcessInv
<1> SUFFICES ASSUME ProcessInit
             PROVE  ProcessInv
    OBVIOUS
<1> USE DEF ProcessInit, ScriptsInit
<1>1. ScriptsTyped
      BY DEF ScriptsTyped, Phases, Runs, Codes, Files
<1>2. NoRecord \in Record /\ NoRecord.st = "absent" /\ NoRecord.ends = FALSE
      BY DEF NoRecord, Record, Statuses, Codes
<1>3. ControlTyped
  <2>1. rec \in [Processes -> Record]
        BY <1>2
  <2>2. aborts = 0 /\ MaxAborts \in Nat
        BY RequestAssumption
  <2>3. aborts \in 0 .. MaxAborts
        BY ONLY <2>2
  <2> QED BY <2>1, <2>3 DEF ControlTyped
<1>4. req \in [Requests -> Request] /\ \A r \in Requests : RequestOK(req[r])
  <2>1. Idle \in Request
        BY IdleOK DEF RequestOK
  <2> QED BY <2>1, IdleOK
<1>5. \A p \in Processes : ScriptOK(p)
      BY DEF ScriptOK
<1>6. ExpiryIffTerminal /\ VerdictTruthful
      BY <1>2 DEF ExpiryIffTerminal, IsTerminal, Terminal, VerdictTruthful, Holds
<1>7. LaunchOK
      BY DEF LaunchOK, At, Idle
<1> QED BY <1>1, <1>3, <1>4, <1>5, <1>6, <1>7 DEF ProcessInv

LEMMA NextInv == ProcessInv /\ [ProcessNext]_vars => ProcessInv'
<1> SUFFICES ASSUME ProcessInv, [ProcessNext]_vars
             PROVE  ProcessInv'
    OBVIOUS
<1>1. ASSUME NEW r \in Requests, Begin(r)
      PROVE  ProcessInv'
      BY <1>1, CallsStep, DestroyCallStep DEF Begin
<1>2. ASSUME NEW r \in Requests, Proceed(r)
      PROVE  ProcessInv'
  <2>1. CASE CleanupPick(r) \/ InspectVictim(r) \/ ReadRecord(r) \/ ListRecords(r)
        BY <2>1, CleanupStep
  <2>2. CASE DestroyOwned(r)
        BY <2>2, DestroyOwnedStep
  <2>3. CASE RemoveFiles(r) \/ WriteMarker(r) \/ Kill(r) \/ KillAgain(r)
        BY <2>3, TouchStep
  <2>4. CASE Forget(r)
        BY <2>4, ForgetStep
  <2>5. CASE Again(r)
        BY <2>5, AgainStep
  <2>6. CASE Probe(r) \/ ProbePid(r)
        BY <2>6, ProbeStep
  <2>7. CASE Settle(r)
        BY <2>7, SettleStep
  <2>8. CASE CheckNext(r)
        BY <2>8, CheckNextStep
  <2>9. CASE Insert(r)
        BY <2>9, InsertStep
  <2>10. CASE Launch(r)
        BY <2>10, LaunchStep
  <2>11. CASE Launched(r)
        BY <2>11, LaunchedStep
  <2>12. CASE NextProcess(r)
        BY <2>12, NextProcessStep
  <2>13. CASE DestroyBackend(r) \/ NotFound(r)
        BY <2>13, EndingStep
  <2> QED BY <1>2, <2>1, <2>2, <2>3, <2>4, <2>5, <2>6, <2>7, <2>8, <2>9, <2>10, <2>11, <2>12, <2>13
             DEF Proceed
<1>3. ASSUME NEW r \in Requests, PollEnds(r) \/ CallFails(r) \/ ProbeFails(r)
      PROVE  ProcessInv'
      BY <1>3, EndingStep, ProbeFailsStep
<1>4. ASSUME NEW p \in Processes, InSandbox(p)
      PROVE  ProcessInv'
      BY <1>4, InSandboxStep
<1>5. CASE Restart \/ \E p \in Processes : AbandonedKill(p) \/ Age(p) \/ Expire(p)
      BY <1>5, AbandonedKillStep, TimeStep
<1>6. CASE UNCHANGED vars
  <2>1. Monotone /\ UNCHANGED <<scripts, rec, req>>
        BY <1>6 DEF Monotone, Finished, LeftBehind, vars, scripts, control
  <2>2. ScriptsTyped' /\ ControlTyped' /\ (\A p \in Processes : ScriptOK(p)') /\ LaunchOK'
        BY <1>6 DEF ProcessInv, ScriptsTyped, ControlTyped, ScriptOK, LaunchOK, At, vars, scripts,
                    control
  <2> QED BY <2>1, <2>2, RequestsRest, SandboxStep
<1> QED BY <1>1, <1>2, <1>3, <1>4, <1>5, <1>6 DEF ProcessNext

LEMMA InvHolds == ProcessSpec => []ProcessInv
BY InitInv, NextInv, PTL DEF ProcessSpec

\* Every variable keeps its shape.
THEOREM ProcessTypes == ProcessSpec => []ProcessTypeOK
<1>1. ProcessInv => ProcessTypeOK
      BY DEF ProcessInv, ScriptsTyped, ControlTyped, ProcessTypeOK
<1> QED BY <1>1, InvHolds, PTL

\* What the store says of a process that is over is what happened in the sandbox, however
\* refreshes, cancels, starts, purges, failures and restarts interleave: succeeded and
\* failed only of a process that has ended, cancelled and lost also of one that a cancel
\* left behind.
THEOREM ProcessVerdicts == ProcessSpec => []VerdictTruthful
BY InvHolds, PTL DEF ProcessInv

\* The times that make a record expire are set exactly when it is over.
THEOREM ProcessExpiry == ProcessSpec => []ExpiryIffTerminal
BY InvHolds, PTL DEF ProcessInv

\* A start that goes on to launch found nothing that is not over, but for what a cancel
\* has left behind.
THEOREM ProcessStarts == ProcessSpec => []NoLaunchOverSeen
<1>1. ProcessInv => NoLaunchOverSeen
  <2> SUFFICES ASSUME ProcessInv, NEW r \in Requests, NEW p \in Processes, At(r, "insert"),
                      req[r].seen[p].st # "absent"
               PROVE  Unfollowed(p)
      BY DEF NoLaunchOverSeen
  <2>1. req[r].op = "start" /\ Checked(req[r])
        BY DEF ProcessInv, RequestOK, InHand, At
  <2> QED BY <2>1 DEF Checked, At, Refreshes
<1> QED BY <1>1, InvHolds, PTL

\* No step but the last one of a purge takes a record away.
LEMMA OnlyForgetRemoves ==
    ASSUME ProcessInv, [ProcessNext]_vars, NEW p \in Processes,
           rec[p].st # "absent", rec'[p].st = "absent"
    PROVE  \E r \in Requests : Forget(r) /\ req[r].victim = p
<1>1. rec' # rec /\ rec \in [Processes -> Record]
      BY DEF ProcessInv, ControlTyped
<1>2. PICK r \in Requests : Forget(r) \/ Settle(r) \/ Insert(r) \/ Launched(r)
  <2> USE <1>1 DEF OnlyRequest
  <2>1. ASSUME NEW r \in Requests, Begin(r)
        PROVE  FALSE
        BY <2>1 DEF Begin, StartProcess, ListProcesses, GetProcess, CancelProcess, DestroySandbox
  <2>2. ASSUME NEW r \in Requests, Proceed(r)
        PROVE  Forget(r) \/ Settle(r) \/ Insert(r) \/ Launched(r)
        BY <2>2 DEF Proceed, CleanupPick, InspectVictim, DestroyOwned, RemoveFiles, Again, ReadRecord,
                    Probe, ProbePid, WriteMarker, Kill, KillAgain, ListRecords, CheckNext, Launch, NextProcess,
                    DestroyBackend, NotFound
  <2>3. ASSUME NEW r \in Requests, PollEnds(r) \/ CallFails(r) \/ ProbeFails(r)
        PROVE  FALSE
        BY <2>3 DEF PollEnds, CallFails, ProbeFails
  <2>4. ASSUME NEW q \in Processes, InSandbox(q) \/ AbandonedKill(q) \/ Age(q) \/ Expire(q)
        PROVE  FALSE
        BY <2>4 DEF InSandbox, control, AbandonedKill, Age, Expire
  <2>5. ~Restart /\ ~UNCHANGED vars
        BY DEF Restart, vars, control
  <2> QED BY <2>1, <2>2, <2>3, <2>4, <2>5 DEF ProcessNext
<1>3. CASE Forget(r)
      BY <1>1, <1>3 DEF Forget
<1>4. CASE Settle(r)
  <2>1. RequestOK(req[r]) /\ req[r].p \in Processes /\ req[r].pc = "settle"
        BY <1>4 DEF ProcessInv, RequestOK, InHand, HoldsOne, Settle, At
  <2>2. /\ req[r].seen[req[r].p] \in Record /\ req[r].verdict \in Verdicts
        /\ req[r].seen[req[r].p].ends <=> IsTerminal(req[r].seen[req[r].p])
        /\ Holds(req[r].p, req[r].verdict.verdict, req[r].verdict.code)
        BY <2>1 DEF RequestOK, Request, Justified
  <2>3. LET copy == Probed(req[r].p, req[r].seen[req[r].p], req[r].verdict) IN
        copy # req[r].seen[req[r].p] => copy.st # "absent"
        BY <2>1, <2>2, ProbedOK
  <2> QED BY <1>1, <1>4, <2>3 DEF Settle
<1>5. CASE Insert(r) \/ Launched(r)
  <2>1. Starting.st = "starting" /\ Running.st = "running" /\ LaunchFailed.st = "failed"
        BY DEF Starting, Running, NoRecord, LaunchFailed
  <2> QED BY <1>1, <1>5, <2>1 DEF Insert, Launched
<1> QED BY <1>2, <1>3, <1>4, <1>5

\* The clean-up removes only the records of processes that are over or that a cancel has
\* left behind.
THEOREM ProcessCleanup == ProcessSpec => RecordOutlivesProcess
<1>1. ProcessInv /\ [ProcessNext]_vars => [LosesNoneTooEarly]_vars
  <2> SUFFICES ASSUME ProcessInv, [ProcessNext]_vars, NEW p \in Processes,
                      rec[p].st # "absent", rec'[p].st = "absent", ~Unfollowed(p)
               PROVE  \E r \in Requests : ~InCleanup(r) /\ req[r].victim = p
      BY DEF LosesNoneTooEarly
  <2>1. PICK r \in Requests : Forget(r) /\ req[r].victim = p
        BY OnlyForgetRemoves
  <2>2. RequestOK(req[r]) /\ req[r].pc = "forget"
        BY <2>1 DEF ProcessInv, Forget, At
  <2> QED BY <2>1, <2>2 DEF RequestOK, Justified, Purges, Cleans, InCleanup
<1> QED BY <1>1, InvHolds, PTL DEF ProcessSpec, RecordOutlivesProcess
=============================================================================
