---------------------------- MODULE SandboxRun ----------------------------
(***************************************************************************)
(* How RunSandbox (src/container.go) starts bwrap, hands it its options    *)
(* over a pipe, forwards termination signals and reports an exit status.   *)
(*                                                                         *)
(* Inside flar four goroutines run: main (RunSandbox itself), writer (the  *)
(* args pipe), lookup (the agent's pid) and handler (signals).  Outside it *)
(* there is bwrap: a monitor, which flar waits for, the sandbox's pid 1,   *)
(* which is the monitor's child, and the agent, which is pid 1's child.    *)
(*                                                                         *)
(* The option blob is blob units long and the pipe holds PipeCap units.    *)
(***************************************************************************)
EXTENDS Integers, Sequences

CONSTANTS BlobSizes,      \* lengths of the encoded option list, in units
          PipeCap,        \* capacity of the args pipe, in the same units
          SigCap,         \* capacity of the channel given to signal.Notify
          MaxSignals,     \* bound: signals the environment sends to flar
          AgentExits,     \* exit codes of the agent that are considered
          AgentSignals,   \* signals the agent may die of
          BwrapExits,     \* exit codes of a bwrap that gives up by itself
          KillSignals     \* signals that others may kill the monitor with

ASSUME SizesAssumption == /\ BlobSizes \subseteq Nat \ {0}
                          /\ PipeCap \in Nat \ {0}
                          /\ SigCap \in Nat \ {0}
                          /\ MaxSignals \in Nat

ASSUME StatusAssumption == /\ AgentExits \subseteq 0..255
                           /\ AgentSignals \subseteq 1..64
                           /\ BwrapExits \subseteq 1..255
                           /\ KillSignals \subseteq 1..64

VARIABLES
  pc,          \* where each goroutine of flar is
  fds,         \* flar's open descriptors among the pipe ends
  blob,        \* length of this run's option blob
  written,     \* units of the blob the writer has put into the pipe
  got,         \* units bwrap has taken out of it
  writeErr,    \* the one-slot channel the writer reports on
  waitErr,     \* what cmd.Wait returned, as a wait status
  result,      \* what RunSandbox returned
  agentPid,    \* the atomic the lookup stores the agent's pid in
  sigs,        \* signals queued in the channel
  target,      \* the handler's local pid
  escalated,   \* the handler's atomic flag, as 0 or 1
  termSent,    \* the pids the handler has sent SIGTERM to
  sent,        \* signals the environment has sent so far
  known,       \* history: was the pid stored when the first one was sent
  mon,         \* bwrap's monitor
  monStatus,   \* its wait status once it has exited
  kids,        \* pid 1's children, oldest first, as /proc lists them
  agent,       \* the agent process
  agentStatus  \* its wait status once it has exited

handlerVars == <<sigs, target, escalated, termSent>>
flarVars == <<pc, fds, written, writeErr, waitErr, result, agentPid,
              handlerVars>>
bwrapVars == <<got, mon, monStatus, kids, agent, agentStatus>>
senderVars == <<blob, sent, known>>     \* fixed at the start or by Deliver
vars == <<flarVars, bwrapVars, senderVars>>

Threads == {"main", "writer", "lookup", "handler"}

Labels == {"idle", "openSeccomp", "writeSeccomp", "start", "spawnWriter",
           "spawnLookup", "notify", "wait", "receive", "returned",
           "write", "close", "findInit", "findAgent",
           "range", "load", "swap", "term", "kill", "ended"}

PipeEnds == {"argsReader", "argsWriter", "seccompReader", "seccompWriter"}

NoPid == "0"
Agent == "agent"
Orphan == "orphan"      \* left behind by the agent, reparented to pid 1
Pids == {NoPid, Agent, Orphan}

SIGKILL == 9
SIGTERM == 15

(* A wait status: a process exits with a code or dies of a signal. *)
Exited(n) == [kind |-> "exited", n |-> n]
Signaled(n) == [kind |-> "signaled", n |-> n]
NoStatus == [kind |-> "none", n |-> 0]
Statuses == [kind : {"none", "exited"}, n : 0..255]
              \cup [kind : {"signaled"}, n : 1..64]

(* The agent's status as bwrap passes it on: a signal becomes 128 + it. *)
ShellCode(st) == IF st.kind = "signaled" THEN 128 + st.n ELSE st.n

Code(n) == [kind |-> "code", n |-> n]
Failure == [kind |-> "error", n |-> 0]
NoResult == [kind |-> "none", n |-> 0]
Results == [kind : {"none", "error", "code"}, n : 0..511]

InPipe == written - got
MonitorAlive == mon \in {"reading", "parsed", "supervising"}

(* A write fails with EPIPE only when no process holds the read end: flar  *)
(* keeps its own copy until RunSandbox returns (defer argsReader.Close).   *)
ReadEndOpen == "argsReader" \in fds \/ MonitorAlive

Init ==
  /\ pc = [t \in Threads |-> "idle"]
  /\ fds = {}
  /\ blob \in BlobSizes
  /\ written = 0
  /\ got = 0
  /\ writeErr = "empty"
  /\ waitErr = NoStatus
  /\ result = NoResult
  /\ agentPid = NoPid
  /\ sigs = 0
  /\ target = NoPid
  /\ escalated = 0
  /\ termSent = {}
  /\ sent = 0
  /\ known = FALSE
  /\ mon = "none"
  /\ monStatus = NoStatus
  /\ kids = <<>>
  /\ agent = "none"
  /\ agentStatus = NoStatus

-----------------------------------------------------------------------------
(* The main goroutine. *)

Goto(t, l) == pc' = [pc EXCEPT ![t] = l]

(* A return runs the deferred argsReader.Close and leaves open whatever    *)
(* else the path did not close.                                            *)
ReturnWith(res, open) ==
  /\ Goto("main", "returned")
  /\ result' = res
  /\ fds' = open \ {"argsReader"}

StartVars == <<written, writeErr, waitErr, agentPid, handlerVars>>

(* os.Pipe for the options; when it fails nothing is open. *)
OpenArgsPipe ==
  /\ pc["main"] = "idle"
  /\ \/ /\ Goto("main", "openSeccomp")
        /\ fds' = fds \cup {"argsReader", "argsWriter"}
        /\ UNCHANGED result
     \/ ReturnWith(Failure, fds)
  /\ UNCHANGED <<StartVars, bwrapVars, senderVars>>

(* os.Pipe for the filter. *)
OpenSeccompPipe ==
  /\ pc["main"] = "openSeccomp"
  /\ \/ /\ Goto("main", "writeSeccomp")
        /\ fds' = fds \cup {"seccompReader", "seccompWriter"}
        /\ UNCHANGED result
     \/ ReturnWith(Failure, fds \ {"argsWriter"})
  /\ UNCHANGED <<StartVars, bwrapVars, senderVars>>

(* Mutant: the failed write forgets the end it was to write to.            *)
ClosedButWriter(open) == open \ {"argsWriter", "seccompReader"}

(* What is left open when the filter could not be written. *)
ClosedAfterWrite(open) ==
  open \ {"argsWriter", "seccompReader", "seccompWriter"}

(* The write of the filter, which always has room; either way the write    *)
(* end is closed at once.                                                  *)
WriteFilter ==
  /\ pc["main"] = "writeSeccomp"
  /\ \/ /\ Goto("main", "start")
        /\ fds' = fds \ {"seccompWriter"}
        /\ UNCHANGED result
     \/ ReturnWith(Failure, ClosedAfterWrite(fds))
  /\ UNCHANGED <<StartVars, bwrapVars, senderVars>>

(* cmd.Start: bwrap now reads its options, or flar gives up. *)
StartBwrap ==
  /\ pc["main"] = "start"
  /\ \/ /\ Goto("main", "spawnWriter")
        /\ mon' = "reading"
        /\ fds' = fds \ {"seccompReader"}
        /\ UNCHANGED result
     \/ /\ ReturnWith(Failure, fds \ {"argsWriter", "seccompReader"})
        /\ UNCHANGED mon
  /\ UNCHANGED <<StartVars, got, monStatus, kids, agent, agentStatus, senderVars>>

SpawnWriter ==
  /\ pc["main"] = "spawnWriter"
  /\ pc' = [pc EXCEPT !["main"] = "spawnLookup", !["writer"] = "write"]
  /\ UNCHANGED <<fds, result, StartVars, bwrapVars, senderVars>>

SpawnLookup ==
  /\ pc["main"] = "spawnLookup"
  /\ pc' = [pc EXCEPT !["main"] = "notify", !["lookup"] = "findInit"]
  /\ UNCHANGED <<fds, result, StartVars, bwrapVars, senderVars>>

(* signal.Notify and the handler goroutine. *)
NotifySignals ==
  /\ pc["main"] = "notify"
  /\ pc' = [pc EXCEPT !["main"] = "wait", !["handler"] = "range"]
  /\ UNCHANGED <<fds, result, StartVars, bwrapVars, senderVars>>

(* cmd.Wait returns when the monitor has exited. *)
WaitMonitor ==
  /\ pc["main"] = "wait"
  /\ mon = "exited"
  /\ waitErr' = monStatus
  /\ Goto("main", "receive")
  /\ UNCHANGED <<fds, written, writeErr, result, agentPid, handlerVars,
                 bwrapVars, senderVars>>

(* Mutant: a monitor that died of a signal is reported by the bare number. *)
ReportBare(werr, wst) == IF werr # "nil" THEN Failure ELSE Code(wst.n)

(* The value RunSandbox returns from the two errors.  Wait's error is nil  *)
(* exactly for exit code 0, which Code(0) covers too.                      *)
Report(werr, wst) ==
  IF werr # "nil" THEN Failure ELSE Code(ShellCode(wst))

(* <-writeErr, the return value, and the deferred calls: signal.Stop ends  *)
(* the delivery of signals (Deliver needs main to be waiting).             *)
ReceiveWriteErr ==
  /\ pc["main"] = "receive"
  /\ writeErr # "empty"
  /\ writeErr' = "empty"
  /\ ReturnWith(Report(writeErr, waitErr), fds)
  /\ UNCHANGED <<written, waitErr, agentPid, handlerVars, bwrapVars,
                 senderVars>>

-----------------------------------------------------------------------------
(* The writer goroutine. *)

(* Mutant: the write stops one unit early. *)
WrittenAllButOne(n) == n >= blob - 1

WrittenAll(n) == n = blob

(* Each unit goes in when there is room.  A write without any reader fails *)
(* and ends the loop.                                                      *)
WriteUnit ==
  /\ pc["writer"] = "write"
  /\ written < blob
  /\ IF ReadEndOpen
       THEN /\ InPipe < PipeCap
            /\ written' = written + 1
            /\ Goto("writer", IF WrittenAll(written + 1) THEN "close"
                                                          ELSE "write")
       ELSE /\ Goto("writer", "close")
            /\ UNCHANGED written
  /\ UNCHANGED <<fds, writeErr, waitErr, result, agentPid, handlerVars,
                 bwrapVars, senderVars>>

(* Mutant: the goroutine ends without its send. *)
NothingSent == "empty"

(* The error the writer sends: nil once the whole blob went in. *)
WriteOutcome == IF written = blob THEN "nil" ELSE "EPIPE"

(* argsWriter.Close and the send on the one-slot channel. *)
CloseWriter ==
  /\ pc["writer"] = "close"
  /\ fds' = fds \ {"argsWriter"}
  /\ writeErr' = WriteOutcome
  /\ Goto("writer", "ended")
  /\ UNCHANGED <<written, waitErr, result, agentPid, handlerVars,
                 bwrapVars, senderVars>>

-----------------------------------------------------------------------------
(* The lookup goroutine: firstChild of the monitor, then of that child.    *)
(* The read of /proc fails once the process is gone, and the poll gives up *)
(* after five seconds, which may pass at any moment.                       *)

LookupVars == <<fds, written, writeErr, waitErr, result, handlerVars,
                bwrapVars, senderVars>>

(* Mutant: the newest child is taken for the agent. *)
LastChild == kids[Len(kids)]

(* firstChild takes the first pid of the kernel's list, the oldest child.  *)
FirstChild == Head(kids)

FindInit ==
  /\ pc["lookup"] = "findInit"
  /\ mon = "supervising"
  /\ Goto("lookup", "findAgent")
  /\ UNCHANGED <<agentPid, LookupVars>>

FindAgent ==
  /\ pc["lookup"] = "findAgent"
  /\ kids # <<>>
  /\ agentPid' = FirstChild
  /\ Goto("lookup", "ended")
  /\ UNCHANGED LookupVars

LookupGivesUp ==
  /\ pc["lookup"] \in {"findInit", "findAgent"}
  /\ Goto("lookup", "ended")
  /\ UNCHANGED <<agentPid, LookupVars>>

-----------------------------------------------------------------------------
(* Signals. *)

(* Mutant: a channel that never is full. *)
EnqueueAlways(n) == n + 1

(* The runtime never blocks on a full channel: it loses the signal.        *)
Enqueue(n) == IF n < SigCap THEN n + 1 ELSE n

(* SIGINT, SIGTERM or SIGHUP aimed at flar between signal.Notify and       *)
(* signal.Stop.                                                            *)
Deliver ==
  /\ pc["handler"] # "idle"
  /\ pc["main"] # "returned"
  /\ sent < MaxSignals
  /\ sent' = sent + 1
  /\ known' = IF sent = 0 THEN agentPid # NoPid ELSE known
  /\ sigs' = Enqueue(sigs)
  /\ UNCHANGED <<pc, fds, blob, written, writeErr, waitErr, result,
                 agentPid, target, escalated, termSent, bwrapVars>>

HandlerStep(from, to) == pc["handler"] = from /\ Goto("handler", to)

(* for range sigs *)
TakeSignal ==
  /\ HandlerStep("range", "load")
  /\ sigs > 0
  /\ sigs' = sigs - 1
  /\ UNCHANGED <<fds, written, writeErr, waitErr, result, agentPid, target,
                 escalated, termSent, bwrapVars, senderVars>>

LoadPid ==
  /\ HandlerStep("load", "swap")
  /\ target' = agentPid
  /\ UNCHANGED <<fds, written, writeErr, waitErr, result, agentPid, sigs,
                 escalated, termSent, bwrapVars, senderVars>>

(* Mutants: every signal is forwarded; none is. *)
GracefulAlways == target # NoPid
GracefulNever == FALSE

(* Whether the signal at hand is forwarded: no earlier one has been        *)
(* handled, and the pid that was loaded is one.                            *)
Graceful == escalated = 0 /\ target # NoPid

(* escalated.Swap(true), which gives the handler the flag as it was.       *)
SwapFlag ==
  /\ HandlerStep("swap", IF Graceful THEN "term" ELSE "kill")
  /\ escalated' = 1
  /\ UNCHANGED <<fds, written, writeErr, waitErr, result, agentPid, sigs,
                 target, termSent, bwrapVars, senderVars>>

SendTerm ==
  /\ HandlerStep("term", "range")
  /\ termSent' = termSent \cup {target}
  /\ UNCHANGED <<fds, written, writeErr, waitErr, result, agentPid, sigs,
                 target, escalated, bwrapVars, senderVars>>

(* Kill on a process already waited for does nothing. *)
KillMonitor ==
  /\ HandlerStep("kill", "range")
  /\ mon' = IF MonitorAlive THEN "exited" ELSE mon
  /\ monStatus' = IF MonitorAlive THEN Signaled(SIGKILL) ELSE monStatus
  /\ UNCHANGED <<fds, written, writeErr, waitErr, result, agentPid,
                 handlerVars, got, kids, agent, agentStatus, senderVars>>

-----------------------------------------------------------------------------
(* bwrap, the kernel and the agent, as the code above relies on them. *)

BwrapReads ==
  /\ mon = "reading"
  /\ InPipe > 0
  /\ got' = got + 1
  /\ UNCHANGED <<flarVars, mon, monStatus, kids, agent, agentStatus, senderVars>>

(* bwrap reads the option list and the filter to end of file before it     *)
(* acts on them.                                                           *)
BwrapParses ==
  /\ mon = "reading"
  /\ InPipe = 0
  /\ {"argsWriter", "seccompWriter"} \cap fds = {}
  /\ mon' = "parsed"
  /\ UNCHANGED <<flarVars, got, monStatus, kids, agent, agentStatus, senderVars>>

(* bwrap fails, or is killed from outside, before there is a sandbox. *)
BwrapDies(st) ==
  /\ mon \in {"reading", "parsed"}
  /\ mon' = "exited"
  /\ monStatus' = st
  /\ UNCHANGED <<flarVars, got, kids, agent, agentStatus, senderVars>>

(* The monitor of a sandbox is killed from outside. *)
KilledFromOutside(n) ==
  /\ mon = "supervising"
  /\ mon' = "exited"
  /\ monStatus' = Signaled(n)
  /\ UNCHANGED <<flarVars, got, kids, agent, agentStatus, senderVars>>

ForkInit ==
  /\ mon = "parsed"
  /\ mon' = "supervising"
  /\ UNCHANGED <<flarVars, got, monStatus, kids, agent, agentStatus, senderVars>>

ForkAgent ==
  /\ mon = "supervising"
  /\ agent = "none"
  /\ agent' = "running"
  /\ kids' = Append(kids, Agent)
  /\ UNCHANGED <<flarVars, got, mon, monStatus, agentStatus, senderVars>>

(* A process the agent started loses its parent and becomes pid 1's. *)
LeaveOrphan ==
  /\ agent = "running"
  /\ kids = <<Agent>>
  /\ kids' = Append(kids, Orphan)
  /\ UNCHANGED <<flarVars, got, mon, monStatus, agent, agentStatus, senderVars>>

(* The agent ends by itself, or of a SIGTERM it was sent and did not catch.*)
AgentEnds(st) ==
  /\ agent = "running"
  /\ st.kind = "signaled" /\ st.n = SIGTERM => Agent \in termSent
  /\ agent' = "zombie"
  /\ agentStatus' = st
  /\ UNCHANGED <<flarVars, got, mon, monStatus, kids, senderVars>>

(* pid 1 reaps the agent, its oldest child, and tells the monitor.         *)
ReapAgent ==
  /\ agent = "zombie"
  /\ mon # "exited" /\ kids # <<>>
  /\ agent' = "reaped"
  /\ kids' = Tail(kids)
  /\ UNCHANGED <<flarVars, got, mon, monStatus, agentStatus, senderVars>>

MonitorExits ==
  /\ mon = "supervising"
  /\ agent = "reaped"
  /\ mon' = "exited"
  /\ monStatus' = Exited(ShellCode(agentStatus))
  /\ UNCHANGED <<flarVars, got, kids, agent, agentStatus, senderVars>>

(* --die-with-parent: pid 1 follows the monitor and takes the sandbox's    *)
(* processes with it.                                                      *)
DieWithParent ==
  /\ mon = "exited"
  /\ kids # <<>>
  /\ kids' = <<>>
  /\ agent' = IF agent = "running" THEN "killed" ELSE agent
  /\ agentStatus' = IF agent = "running" THEN Signaled(SIGKILL)
                                         ELSE agentStatus
  /\ UNCHANGED <<flarVars, got, mon, monStatus, senderVars>>

-----------------------------------------------------------------------------
Main == \/ OpenArgsPipe \/ OpenSeccompPipe \/ WriteFilter \/ StartBwrap
        \/ SpawnWriter \/ SpawnLookup \/ NotifySignals
        \/ WaitMonitor \/ ReceiveWriteErr

Writer == WriteUnit \/ CloseWriter

Lookup == FindInit \/ FindAgent \/ LookupGivesUp

Handler == TakeSignal \/ LoadPid \/ SwapFlag \/ SendTerm \/ KillMonitor

BwrapDeaths == {Exited(n) : n \in BwrapExits} \cup
               {Signaled(n) : n \in KillSignals}
AgentEndings == {Exited(n) : n \in AgentExits} \cup
                {Signaled(n) : n \in AgentSignals}

(* bwrap's own steps, without its failures and without the agent's.        *)
Bwrap == \/ BwrapReads \/ BwrapParses \/ ForkInit \/ ForkAgent
         \/ ReapAgent \/ MonitorExits \/ DieWithParent

Environment == \/ Deliver
               \/ LeaveOrphan
               \/ \E st \in BwrapDeaths : BwrapDies(st)
               \/ \E n \in KillSignals : KilledFromOutside(n)
               \/ \E st \in AgentEndings : AgentEnds(st)

Next == Main \/ Writer \/ Lookup \/ Handler \/ Bwrap \/ Environment

(* The Go scheduler runs every goroutine that can run, and the kernel runs *)
(* bwrap; nothing makes the agent end or a signal come.                    *)
Fairness == /\ WF_vars(Main) /\ WF_vars(Writer) /\ WF_vars(Lookup)
            /\ WF_vars(Handler) /\ WF_vars(Bwrap)

Spec == Init /\ [][Next]_vars
FairSpec == Spec /\ Fairness

-----------------------------------------------------------------------------
(* Every variable keeps its type; bwrap never takes out of the pipe more   *)
(* than flar has put in, nor does the pipe ever hold more than it can.     *)
TypeOK ==
  /\ pc \in [Threads -> Labels]
  /\ fds \subseteq PipeEnds
  /\ blob \in BlobSizes
  /\ written \in 0..blob
  /\ got \in 0..written
  /\ InPipe \in 0..PipeCap
  /\ writeErr \in {"empty", "nil", "EPIPE"}
  /\ waitErr \in Statuses
  /\ result \in Results
  /\ agentPid \in Pids
  /\ sigs \in 0..SigCap
  /\ target \in Pids
  /\ escalated \in {0, 1}
  /\ termSent \subseteq Pids
  /\ sent \in 0..MaxSignals
  /\ known \in BOOLEAN
  /\ mon \in {"none", "reading", "parsed", "supervising", "exited"}
  /\ monStatus \in Statuses
  /\ kids \in Seq({Agent, Orphan})
  /\ agent \in {"none", "running", "zombie", "reaped", "killed"}
  /\ agentStatus \in Statuses

(* The agent is never started on a truncated option list: once it exists,  *)
(* bwrap has taken every option out of the pipe (the writer closes the     *)
(* pipe only after its last write, container.go:1124-1130).                *)
AgentHasAllOptions == agent # "none" => got = blob

(* A run whose agent was started ends with a code, and never with an       *)
(* error: 128 + the signal when the monitor was killed, by flar or from    *)
(* outside, and otherwise the agent's own status in the shell's form, for  *)
(* an agent that has been reaped (container.go:1177-1208).                 *)
ReportedStatus ==
  agent # "none" /\ result # NoResult =>
    /\ mon = "exited"
    /\ \/ /\ monStatus.kind = "signaled"
          /\ result = Code(128 + monStatus.n)
       \/ /\ agent = "reaped"
          /\ result = Code(ShellCode(agentStatus))

(* Whichever way RunSandbox returns, on an early error or after the run,   *)
(* none of the pipe ends stays open (container.go:1083, 1089-1119).   *)
NoDescriptorLeak == pc["main"] = "returned" => fds = {}

(* While the agent runs, a pid the lookup has stored is the agent's and    *)
(* never that of an orphan reparented to pid 1 (container.go:1132-1151).   *)
PidOfLiveAgent == agent = "running" => agentPid \in {NoPid, Agent}

(* When the agent's pid was stored before the first signal came, flar does *)
(* not kill the sandbox of a running agent unless that agent has been sent *)
(* SIGTERM, whatever comes between the load of the pid, the swap of the    *)
(* flag and the kill (container.go:1153-1175).  A pid stored after the     *)
(* first signal may come too late for the handler, which then kills.       *)
GracefulFirst ==
  [][pc["handler"] = "kill" /\ pc'["handler"] = "range" /\ known /\
     mon = "supervising" /\ agent = "running" => Agent \in termSent]_vars

(* Once bwrap has exited, RunSandbox returns, provided that what bwrap has *)
(* not read of the options fits the pipe (container.go:1177-1182).         *)
RestFits == blob - got <= PipeCap
ExitReturns == mon = "exited" /\ RestFits ~> pc["main"] = "returned"

(* Two signals always end the run, even with an agent that ignores the     *)
(* SIGTERM the first of them became, and with signals lost to a full       *)
(* channel (container.go:1158-1175); the same provision.                   *)
TwoSignalsReturn == sent >= 2 /\ RestFits ~> pc["main"] = "returned"

-----------------------------------------------------------------------------
(* What the comments of the code say and the code does not do. *)

(* Once bwrap has exited, RunSandbox returns, however long the options are *)
(* (comment at container.go:1121-1122).                                    *)
BwrapExitReturns == mon = "exited" ~> pc["main"] = "returned"

(* No exit status of a bwrap that never received the full option list is   *)
(* reported as the agent's (comment at container.go:1184-1188).            *)
NoStatusWithoutOptions == result.kind = "code" => got = blob

(* The lookup runs right after start, when the agent is pid 1's only child,*)
(* so what it stores is the agent's pid (comment at container.go:1132-1138)*)
LookupFindsAgent == agentPid \in {NoPid, Agent}
=============================================================================
