------------------------- MODULE SandboxRunProofs -------------------------
(***************************************************************************)
(* Proofs about SandboxRun, for every blob size, pipe capacity, number of  *)
(* signals and set of exit codes.                                          *)
(***************************************************************************)
EXTENDS SandboxRun, SequenceTheorems, TLAPS

(* The statuses and results the actions build are of their types. *)
LEMMA StatusTypes ==
  /\ NoStatus \in Statuses
  /\ \A n \in 0..255 : Exited(n) \in Statuses
  /\ \A n \in 1..64 : Signaled(n) \in Statuses
  /\ \A st \in Statuses : ShellCode(st) \in 0..255
  BY DEF NoStatus, Exited, Signaled, Statuses, ShellCode

LEMMA ResultTypes ==
  /\ NoResult \in Results
  /\ Failure \in Results
  /\ \A w, st : st \in Statuses => Report(w, st) \in Results
  BY StatusTypes DEF NoResult, Failure, Results, Report, Code

(* The type invariant holds in every reachable state. *)
THEOREM TypeCorrect == Spec => []TypeOK
<1> USE SizesAssumption, StatusAssumption
<1> USE DEF Threads, Labels, PipeEnds, Pids
<1>1. Init => TypeOK
  <2> SUFFICES ASSUME Init PROVE TypeOK
    OBVIOUS
  <2>1. blob \in Nat /\ written \in 0..blob /\ got \in 0..written
    BY DEF Init
  <2>2. InPipe \in 0..PipeCap
    BY DEF Init, InPipe
  <2>3. /\ waitErr \in Statuses /\ monStatus \in Statuses
        /\ agentStatus \in Statuses /\ result \in Results
    BY StatusTypes, ResultTypes DEF Init
  <2>4. known \in BOOLEAN
    BY Zenon DEF Init
  <2> QED BY <2>1, <2>2, <2>3, <2>4 DEF Init, TypeOK
<1>2. TypeOK /\ [Next]_vars => TypeOK'
  <2> SUFFICES ASSUME TypeOK, [Next]_vars PROVE TypeOK'
    OBVIOUS
  <2> USE DEF TypeOK, InPipe, Goto, StartVars, LookupVars, handlerVars,
              flarVars, bwrapVars, senderVars, HandlerStep
  <2>1. Failure \in Results /\ Signaled(SIGKILL) \in Statuses
    BY StatusTypes, ResultTypes DEF SIGKILL
  <2>2. CASE OpenArgsPipe
    <3>1. fds' \subseteq PipeEnds
      BY <2>2 DEF OpenArgsPipe, ReturnWith
    <3>2. pc' \in [Threads -> Labels]
      BY <2>2 DEF OpenArgsPipe, ReturnWith
    <3>3. result' \in Results
      BY <2>1, <2>2 DEF OpenArgsPipe, ReturnWith
    <3> QED BY <2>2, <3>1, <3>2, <3>3 DEF OpenArgsPipe
  <2>3. CASE OpenSeccompPipe
    <3>1. fds' \subseteq PipeEnds
      BY <2>3 DEF OpenSeccompPipe, ReturnWith
    <3>2. pc' \in [Threads -> Labels]
      BY <2>3 DEF OpenSeccompPipe, ReturnWith
    <3>3. result' \in Results
      BY <2>1, <2>3 DEF OpenSeccompPipe, ReturnWith
    <3> QED BY <2>3, <3>1, <3>2, <3>3 DEF OpenSeccompPipe
  <2>3a. CASE WriteFilter
    <3>1. fds' \subseteq PipeEnds
      BY <2>3a DEF WriteFilter, ReturnWith, ClosedAfterWrite
    <3>2. pc' \in [Threads -> Labels]
      BY <2>3a DEF WriteFilter, ReturnWith
    <3>3. result' \in Results
      BY <2>1, <2>3a DEF WriteFilter, ReturnWith
    <3> QED BY <2>3a, <3>1, <3>2, <3>3 DEF WriteFilter
  <2>4. CASE StartBwrap
    <3>1. fds' \subseteq PipeEnds
      BY <2>4 DEF StartBwrap, ReturnWith
    <3>2. pc' \in [Threads -> Labels]
      BY <2>4 DEF StartBwrap, ReturnWith
    <3>3. result' \in Results
      BY <2>1, <2>4 DEF StartBwrap, ReturnWith
    <3> QED BY <2>4, <3>1, <3>2, <3>3 DEF StartBwrap
  <2>5. CASE SpawnWriter
    BY <2>5 DEF SpawnWriter
  <2>6. CASE SpawnLookup
    BY <2>6 DEF SpawnLookup
  <2>7. CASE NotifySignals
    BY <2>7 DEF NotifySignals
  <2>8. CASE WaitMonitor
    BY <2>8 DEF WaitMonitor
  <2>9. CASE ReceiveWriteErr
    <3>1. Report(writeErr, waitErr) \in Results
      BY ResultTypes
    <3> QED BY <2>9, <3>1 DEF ReceiveWriteErr, ReturnWith
  <2>10. CASE WriteUnit
    BY <2>10 DEF WriteUnit, WrittenAll
  <2>11. CASE CloseWriter
    BY <2>11 DEF CloseWriter, WriteOutcome
  <2>12. CASE FindInit
    BY <2>12 DEF FindInit
  <2>13. CASE LookupGivesUp
    BY <2>13 DEF LookupGivesUp
  <2>14. CASE FindAgent
    BY <2>14 DEF FindAgent, FirstChild, Agent, Orphan
  <2>15. CASE Deliver
    <3>1. known' \in BOOLEAN
      <4>1. CASE sent = 0
        BY <2>15, <4>1, Zenon DEF Deliver
      <4>2. CASE sent # 0
        BY <2>15, <4>2 DEF Deliver
      <4> QED BY <4>1, <4>2
    <3> QED BY <2>15, <3>1 DEF Deliver, Enqueue
  <2>16. CASE TakeSignal
    BY <2>16 DEF TakeSignal
  <2>16a. CASE LoadPid
    BY <2>16a DEF LoadPid
  <2>16b. CASE SwapFlag
    BY <2>16b DEF SwapFlag, Graceful
  <2>16c. CASE SendTerm
    BY <2>16c DEF SendTerm
  <2>17. CASE KillMonitor
    BY <2>1, <2>17 DEF KillMonitor
  <2>18. CASE BwrapReads
    BY <2>18 DEF BwrapReads
  <2>19. CASE BwrapParses
    BY <2>19 DEF BwrapParses
  <2>20. CASE ForkInit
    BY <2>20 DEF ForkInit
  <2>21. CASE ForkAgent
    BY <2>21 DEF ForkAgent
  <2>22. CASE ReapAgent
    BY <2>22 DEF ReapAgent
  <2>23. CASE MonitorExits
    <3>1. Exited(ShellCode(agentStatus)) \in Statuses
      BY StatusTypes
    <3> QED BY <2>23, <3>1 DEF MonitorExits
  <2>24. CASE DieWithParent
    BY <2>1, <2>24 DEF DieWithParent
  <2>25. CASE LeaveOrphan
    BY <2>25 DEF LeaveOrphan
  <2>26. ASSUME NEW st \in BwrapDeaths, BwrapDies(st) PROVE TypeOK'
    <3>1. st \in Statuses
      <4>1. ASSUME NEW n \in KillSignals, st = Signaled(n)
            PROVE  st \in Statuses
        BY <4>1, StatusTypes
      <4>2. ASSUME NEW n \in BwrapExits, st = Exited(n) PROVE st \in Statuses
        <5>1. n \in 0..255
          OBVIOUS
        <5> QED BY <4>2, <5>1, StatusTypes
      <4> QED BY <4>1, <4>2 DEF BwrapDeaths
    <3> QED BY <2>26, <3>1 DEF BwrapDies
  <2>26a. ASSUME NEW n \in KillSignals, KilledFromOutside(n) PROVE TypeOK'
    <3>1. Signaled(n) \in Statuses
      BY StatusTypes
    <3> QED BY <2>26a, <3>1 DEF KilledFromOutside
  <2>27. ASSUME NEW st \in AgentEndings, AgentEnds(st) PROVE TypeOK'
    <3>1. st \in Statuses
      <4>1. ASSUME NEW n \in AgentSignals, st = Signaled(n)
            PROVE  st \in Statuses
        BY <4>1, StatusTypes
      <4>2. ASSUME NEW n \in AgentExits, st = Exited(n) PROVE st \in Statuses
        BY <4>2, StatusTypes
      <4> QED BY <4>1, <4>2 DEF AgentEndings
    <3> QED BY <2>27, <3>1 DEF AgentEnds
  <2>28. CASE UNCHANGED vars
    BY <2>28 DEF vars
  <2> QED
    BY <2>2, <2>3, <2>3a, <2>4, <2>5, <2>6, <2>7, <2>8, <2>9, <2>10,
       <2>11, <2>12, <2>13, <2>14, <2>15, <2>16, <2>16a, <2>16b, <2>16c,
       <2>17, <2>18, <2>19, <2>20, <2>21, <2>22, <2>23, <2>24, <2>25,
       <2>26, <2>26a, <2>27, <2>28
       DEF Next, Main, Writer, Lookup, Handler, Bwrap, Environment
<1> QED BY <1>1, <1>2, PTL DEF Spec

-----------------------------------------------------------------------------
(* The pipe: which of its ends are open and how far the writer is, at each *)
(* place of the main goroutine.                                            *)

Early == {"idle", "openSeccomp", "writeSeccomp", "start"}
Supervised == {"spawnLookup", "notify", "wait", "receive"}

Stages ==
  /\ pc["main"] \in Early \cup Supervised \cup {"spawnWriter", "returned"}
  /\ pc["writer"] \in {"idle", "write", "close", "ended"}
  /\ pc["main"] \in Early =>
       mon = "none" /\ pc["writer"] = "idle"
  /\ pc["main"] = "spawnWriter" =>
       mon # "none" /\ pc["writer"] = "idle"
  /\ pc["main"] \in Supervised =>
       mon # "none" /\ pc["writer"] # "idle"
  /\ pc["main"] = "receive" => mon = "exited"
  /\ pc["main"] = "returned" =>
       \/ mon = "none" /\ pc["writer"] = "idle"
       \/ mon = "exited" /\ pc["writer"] = "ended"

OpenEnds ==
  /\ pc["main"] \in {"idle", "returned"} => fds = {}
  /\ pc["main"] \in {"openSeccomp", "spawnWriter"} =>
       fds = {"argsReader", "argsWriter"}
  /\ pc["main"] = "writeSeccomp" => fds = PipeEnds
  /\ pc["main"] = "start" =>
       fds = {"argsReader", "argsWriter", "seccompReader"}
  /\ pc["main"] \in Supervised =>
       fds = IF pc["writer"] = "ended" THEN {"argsReader"}
                                       ELSE {"argsReader", "argsWriter"}

Progress ==
  /\ pc["writer"] = "idle" => written = 0
  /\ pc["writer"] \in {"close", "ended"} => written = blob
  /\ writeErr # "empty" => writeErr = "nil" /\ pc["writer"] = "ended"
  /\ mon \in {"parsed", "supervising"} => got = blob
  /\ agent # "none" => got = blob

PipeInv == Stages /\ OpenEnds /\ Progress

(* The ends of the pipes and the writer's progress are as PipeInv says at  *)
(* every place; in particular the EPIPE branch of the writer is never taken*)
(* because flar still holds the read end whenever the writer writes.       *)
THEOREM PipeInvariant == Spec => []PipeInv
<1> USE SizesAssumption
<1> USE DEF Threads, Early, Supervised, PipeEnds
<1>1. Init => PipeInv
  BY DEF Init, PipeInv, Stages, OpenEnds, Progress
<1>2. TypeOK /\ PipeInv /\ [Next]_vars => PipeInv'
  <2> SUFFICES ASSUME TypeOK, PipeInv, [Next]_vars PROVE PipeInv'
    OBVIOUS
  <2> USE DEF PipeInv, Stages, OpenEnds, Progress
  <2>1. pc \in [Threads -> Labels]
    BY DEF TypeOK
  <2>2. /\ blob \in Nat \ {0}
        /\ written \in 0..blob
        /\ got \in 0..written
    BY DEF TypeOK
  <2> USE DEF Goto, StartVars, LookupVars, handlerVars, flarVars, bwrapVars,
              senderVars
  <2>3. CASE OpenArgsPipe
    BY <2>1, <2>2, <2>3 DEF OpenArgsPipe, ReturnWith
  <2>4. CASE OpenSeccompPipe
    BY <2>1, <2>2, <2>4 DEF OpenSeccompPipe, ReturnWith
  <2>4a. CASE WriteFilter
    BY <2>1, <2>2, <2>4a DEF WriteFilter, ReturnWith, ClosedAfterWrite
  <2>5. CASE StartBwrap
    BY <2>1, <2>2, <2>5 DEF StartBwrap, ReturnWith
  <2>6. CASE SpawnWriter
    BY <2>1, <2>2, <2>6 DEF SpawnWriter
  <2>7. CASE SpawnLookup
    BY <2>1, <2>2, <2>7 DEF SpawnLookup
  <2>8. CASE NotifySignals
    BY <2>1, <2>2, <2>8 DEF NotifySignals
  <2>9. CASE WaitMonitor
    BY <2>1, <2>2, <2>9 DEF WaitMonitor
  <2>10. CASE ReceiveWriteErr
    BY <2>1, <2>2, <2>10 DEF ReceiveWriteErr, ReturnWith
  <2>11. CASE WriteUnit
    <3>1. pc["main"] \in Supervised /\ "argsReader" \in fds
      <4>1. pc["main"] \in Supervised
        BY <2>11 DEF WriteUnit, WrittenAll
      <4> QED BY <2>11, <4>1 DEF WriteUnit, WrittenAll
    <3>2. /\ written' = written + 1
          /\ pc' = [pc EXCEPT !["writer"] = IF written + 1 = blob
                                            THEN "close" ELSE "write"]
          /\ UNCHANGED <<fds, blob, writeErr, got, mon, agent>>
          /\ pc["writer"] = "write"
      BY <3>1, <2>11 DEF WriteUnit, WrittenAll, ReadEndOpen
    <3>3. CASE written + 1 = blob
      BY <2>1, <2>2, <3>1, <3>2, <3>3
    <3>4. CASE written + 1 # blob
      BY <2>1, <2>2, <3>1, <3>2, <3>4
    <3> QED BY <3>3, <3>4
  <2>12. CASE CloseWriter
    BY <2>1, <2>2, <2>12 DEF CloseWriter, WriteOutcome
  <2>13. CASE FindInit
    BY <2>1, <2>2, <2>13 DEF FindInit
  <2>14. CASE FindAgent
    BY <2>1, <2>2, <2>14 DEF FindAgent, FirstChild
  <2>15. CASE LookupGivesUp
    BY <2>1, <2>2, <2>15 DEF LookupGivesUp
  <2>16. CASE Deliver
    BY <2>1, <2>2, <2>16 DEF Deliver, Enqueue
  <2>17. CASE TakeSignal
    BY <2>1, <2>2, <2>17 DEF TakeSignal, HandlerStep
  <2>17a. CASE LoadPid
    BY <2>1, <2>2, <2>17a DEF LoadPid, HandlerStep
  <2>17b. CASE SwapFlag
    BY <2>1, <2>2, <2>17b DEF SwapFlag, HandlerStep, Graceful
  <2>17c. CASE SendTerm
    BY <2>1, <2>2, <2>17c DEF SendTerm, HandlerStep
  <2>18. CASE KillMonitor
    BY <2>1, <2>2, <2>18 DEF KillMonitor, HandlerStep, MonitorAlive
  <2>19. CASE BwrapReads
    BY <2>1, <2>2, <2>19 DEF BwrapReads, InPipe
  <2>20. CASE BwrapParses
    <3>1. pc["main"] \in Supervised /\ pc["writer"] = "ended"
      BY <2>20 DEF BwrapParses
    <3>2. got = blob
      BY <2>2, <2>20, <3>1 DEF BwrapParses, InPipe
    <3> QED BY <2>1, <2>20, <3>1, <3>2 DEF BwrapParses
  <2>21. CASE ForkInit
    BY <2>1, <2>2, <2>21 DEF ForkInit
  <2>22. CASE ForkAgent
    BY <2>1, <2>2, <2>22 DEF ForkAgent
  <2>23. CASE ReapAgent
    BY <2>1, <2>2, <2>23 DEF ReapAgent
  <2>24. CASE MonitorExits
    BY <2>1, <2>2, <2>24 DEF MonitorExits
  <2>25. CASE DieWithParent
    BY <2>1, <2>2, <2>25 DEF DieWithParent
  <2>26. CASE LeaveOrphan
    BY <2>1, <2>2, <2>26 DEF LeaveOrphan
  <2>27. ASSUME NEW st \in BwrapDeaths, BwrapDies(st) PROVE PipeInv'
    BY <2>1, <2>2, <2>27 DEF BwrapDies
  <2>27a. ASSUME NEW n \in KillSignals, KilledFromOutside(n)
          PROVE  PipeInv'
    BY <2>1, <2>2, <2>27a DEF KilledFromOutside
  <2>28. ASSUME NEW st \in AgentEndings, AgentEnds(st) PROVE PipeInv'
    BY <2>1, <2>2, <2>28 DEF AgentEnds
  <2>29. CASE UNCHANGED vars
    BY <2>1, <2>2, <2>29 DEF vars
  <2> QED
    BY <2>3, <2>4, <2>4a, <2>5, <2>6, <2>7, <2>8, <2>9, <2>10, <2>11,
       <2>12, <2>13, <2>14, <2>15, <2>16, <2>17, <2>17a, <2>17b, <2>17c,
       <2>18, <2>19, <2>20, <2>21, <2>22, <2>23, <2>24, <2>25, <2>26,
       <2>27, <2>27a, <2>28, <2>29
       DEF Next, Main, Writer, Lookup, Handler, Bwrap, Environment
<1> QED BY <1>1, <1>2, TypeCorrect, PTL DEF Spec

-----------------------------------------------------------------------------
(* The statuses, from the agent through the monitor to the result.         *)

(* What an exited monitor's own wait status can be. *)
MonitorStatusOK ==
  \/ monStatus.kind = "signaled"
  \/ agent = "reaped" /\ monStatus = Exited(ShellCode(agentStatus))
  \/ agent = "none"

StatusInv ==
  /\ mon \in {"none", "reading", "parsed"} => agent = "none"
  /\ mon = "exited" => MonitorStatusOK
  /\ pc["main"] = "receive" => mon = "exited" /\ waitErr = monStatus
  /\ pc["main"] # "returned" => result = NoResult
  /\ result # NoResult => mon \in {"none", "exited"}
  /\ ReportedStatus

(* What a shell sees of a wait status. *)
LEMMA ShellCodes ==
  /\ \A n : ShellCode(Exited(n)) = n
  /\ \A st : st.kind = "signaled" => ShellCode(st) = 128 + st.n
  BY DEF ShellCode, Exited

(* The result is made from a wait status that is one of the three kinds    *)
(* MonitorStatusOK allows, in every reachable state, and only then.        *)
THEOREM StatusInvariant == Spec => []StatusInv
<1> USE SizesAssumption, StatusAssumption DEF Threads, Early
<1>1. Init => StatusInv
  BY DEF Init, StatusInv, ReportedStatus, NoResult
<1>2. TypeOK /\ PipeInv /\ StatusInv /\ [Next]_vars => StatusInv'
  <2> SUFFICES ASSUME TypeOK, PipeInv, StatusInv, [Next]_vars
               PROVE  StatusInv'
    OBVIOUS
  <2> USE DEF StatusInv, ReportedStatus, MonitorStatusOK
  <2>1. pc \in [Threads -> Labels]
    BY DEF TypeOK
  <2>2. /\ pc["main"] \in Early => mon = "none"
        /\ writeErr # "empty" => writeErr = "nil"
    BY DEF PipeInv, Stages, Progress
  <2> USE DEF Goto, StartVars, LookupVars, handlerVars, flarVars, bwrapVars,
              senderVars
  <2>3. CASE OpenArgsPipe
    BY <2>1, <2>2, <2>3 DEF OpenArgsPipe, ReturnWith, Failure
  <2>4. CASE OpenSeccompPipe
    BY <2>1, <2>2, <2>4 DEF OpenSeccompPipe, ReturnWith, Failure
  <2>4a. CASE WriteFilter
    BY <2>1, <2>2, <2>4a DEF WriteFilter, ReturnWith, ClosedAfterWrite, Failure
  <2>5. CASE StartBwrap
    BY <2>1, <2>2, <2>5 DEF StartBwrap, ReturnWith, Failure
  <2>6. CASE SpawnWriter
    BY <2>1, <2>2, <2>6 DEF SpawnWriter
  <2>7. CASE SpawnLookup
    BY <2>1, <2>2, <2>7 DEF SpawnLookup
  <2>8. CASE NotifySignals
    BY <2>1, <2>2, <2>8 DEF NotifySignals
  <2>9. CASE WaitMonitor
    BY <2>1, <2>2, <2>9 DEF WaitMonitor
  <2>10. CASE ReceiveWriteErr
    <3>1. /\ result' = Code(ShellCode(monStatus))
          /\ mon = "exited" /\ MonitorStatusOK
          /\ UNCHANGED <<mon, monStatus, agent, agentStatus, waitErr>>
          /\ pc' = [pc EXCEPT !["main"] = "returned"]
      BY <2>2, <2>10 DEF ReceiveWriteErr, ReturnWith, Report
    <3>2. ShellCode(agentStatus)' = ShellCode(agentStatus)
      BY <3>1 DEF ShellCode
    <3>3. CASE monStatus.kind = "signaled"
      <4>1. result' = Code(128 + monStatus.n)
        BY <3>1, <3>3, ShellCodes
      <4> QED BY <2>1, <3>1, <3>3, <4>1
    <3>4. CASE agent = "reaped" /\ monStatus = Exited(ShellCode(agentStatus))
      <4>1. result' = Code(ShellCode(agentStatus))
        BY <3>1, <3>4, ShellCodes
      <4> QED BY <2>1, <3>1, <3>2, <3>4, <4>1
    <3>5. CASE agent = "none"
      BY <2>1, <3>1, <3>5
    <3> QED BY <3>1, <3>3, <3>4, <3>5
  <2>11. CASE WriteUnit
    BY <2>1, <2>2, <2>11 DEF WriteUnit, WrittenAll
  <2>12. CASE CloseWriter
    BY <2>1, <2>2, <2>12 DEF CloseWriter, WriteOutcome
  <2>13. CASE FindInit
    BY <2>1, <2>2, <2>13 DEF FindInit
  <2>14. CASE FindAgent
    BY <2>1, <2>2, <2>14 DEF FindAgent, FirstChild
  <2>15. CASE LookupGivesUp
    BY <2>1, <2>2, <2>15 DEF LookupGivesUp
  <2>16. CASE Deliver
    BY <2>1, <2>2, <2>16 DEF Deliver, Enqueue
  <2>17. CASE TakeSignal
    BY <2>1, <2>2, <2>17 DEF TakeSignal, HandlerStep
  <2>17a. CASE LoadPid
    BY <2>1, <2>2, <2>17a DEF LoadPid, HandlerStep
  <2>17b. CASE SwapFlag
    BY <2>1, <2>2, <2>17b DEF SwapFlag, HandlerStep, Graceful
  <2>17c. CASE SendTerm
    BY <2>1, <2>2, <2>17c DEF SendTerm, HandlerStep
  <2>18. CASE KillMonitor
    BY <2>1, <2>2, <2>18 DEF KillMonitor, HandlerStep, MonitorAlive, Signaled
  <2>19. CASE BwrapReads
    BY <2>1, <2>2, <2>19 DEF BwrapReads
  <2>20. CASE BwrapParses
    BY <2>1, <2>2, <2>20 DEF BwrapParses
  <2>21. CASE ForkInit
    BY <2>1, <2>2, <2>21 DEF ForkInit
  <2>22. CASE ForkAgent
    BY <2>1, <2>2, <2>22 DEF ForkAgent
  <2>23. CASE ReapAgent
    BY <2>1, <2>2, <2>23 DEF ReapAgent
  <2>24. CASE MonitorExits
    BY <2>1, <2>2, <2>24 DEF MonitorExits
  <2>25. CASE DieWithParent
    BY <2>1, <2>2, <2>25 DEF DieWithParent
  <2>26. CASE LeaveOrphan
    BY <2>1, <2>2, <2>26 DEF LeaveOrphan
  <2>27. ASSUME NEW st \in BwrapDeaths, BwrapDies(st) PROVE StatusInv'
    BY <2>1, <2>2, <2>27 DEF BwrapDies
  <2>27a. ASSUME NEW n \in KillSignals, KilledFromOutside(n)
          PROVE  StatusInv'
    BY <2>1, <2>2, <2>27a DEF KilledFromOutside, Signaled
  <2>28. ASSUME NEW st \in AgentEndings, AgentEnds(st) PROVE StatusInv'
    BY <2>1, <2>2, <2>28 DEF AgentEnds
  <2>29. CASE UNCHANGED vars
    BY <2>1, <2>2, <2>29 DEF vars
  <2> QED
    BY <2>3, <2>4, <2>4a, <2>5, <2>6, <2>7, <2>8, <2>9, <2>10, <2>11,
       <2>12, <2>13, <2>14, <2>15, <2>16, <2>17, <2>17a, <2>17b, <2>17c,
       <2>18, <2>19, <2>20, <2>21, <2>22, <2>23, <2>24, <2>25, <2>26,
       <2>27, <2>27a, <2>28, <2>29
       DEF Next, Main, Writer, Lookup, Handler, Bwrap, Environment
<1> QED BY <1>1, <1>2, TypeCorrect, PipeInvariant, PTL DEF Spec

-----------------------------------------------------------------------------
(* Forwarding: whose pid is known, and what a handled signal has done.     *)

Unsupervised == Early \cup {"spawnWriter", "spawnLookup"}

PidInv ==
  /\ agent = "none" => kids = <<>> /\ agentPid = NoPid
  /\ agent = "running" =>
       /\ kids # <<>> /\ Head(kids) = Agent
       /\ agentPid \in {NoPid, Agent}
  /\ mon \in {"none", "reading", "parsed"} => agent = "none"
  /\ pc["main"] \in Unsupervised => pc["lookup"] = "idle"
  /\ agentPid # NoPid => pc["lookup"] = "ended"

AskInv ==
  /\ pc["handler"] \in {"idle", "range", "load", "swap", "term", "kill"}
  /\ pc["main"] \in Unsupervised \cup {"notify"} => pc["handler"] = "idle"
  /\ sent = 0 => /\ sigs = 0 /\ escalated = 0 /\ ~known
                 /\ pc["handler"] \in {"idle", "range"}
  /\ known => agentPid # NoPid
  /\ target # NoPid => target = agentPid
  /\ known /\ pc["handler"] = "swap" => target = agentPid
  /\ pc["handler"] = "term" => target # NoPid
  /\ pc["handler"] \in {"term", "kill"} => escalated = 1
  /\ known /\ escalated = 1 => pc["handler"] = "term" \/ agentPid \in termSent

ForwardInv == PidInv /\ AskInv

(* pid 1's oldest child is the agent as long as the agent runs; the stored *)
(* pid never changes, so that the one the handler loaded is it or none;    *)
(* and a signal handled with the pid known has sent a SIGTERM there, or is *)
(* about to.                                                               *)
THEOREM ForwardInvariant == Spec => []ForwardInv
<1> USE DEF Threads, Early, Unsupervised
<1>1. Init => ForwardInv
  BY DEF Init, ForwardInv, PidInv, AskInv
<1>2. TypeOK /\ PipeInv /\ ForwardInv /\ [Next]_vars => ForwardInv'
  <2> SUFFICES ASSUME TypeOK, PipeInv, ForwardInv, [Next]_vars
               PROVE  ForwardInv'
    OBVIOUS
  <2> USE DEF ForwardInv, PidInv, AskInv, NoPid, Agent, Orphan, Pids
  <2>1. /\ pc \in [Threads -> Labels]
        /\ kids \in Seq({Agent, Orphan})
        /\ agentPid \in Pids /\ known \in BOOLEAN
        /\ sent \in Nat /\ sigs \in Nat /\ escalated \in {0, 1}
    BY DEF TypeOK
  <2>2. /\ mon \in {"none", "reading", "parsed", "supervising", "exited"}
        /\ pc["main"] \in Early => mon = "none"
    BY DEF TypeOK, PipeInv, Stages
  <2> USE DEF Goto, StartVars, LookupVars, handlerVars, flarVars, bwrapVars,
              senderVars
  <2>3. CASE OpenArgsPipe
    BY <2>1, <2>2, <2>3 DEF OpenArgsPipe, ReturnWith
  <2>4. CASE OpenSeccompPipe
    BY <2>1, <2>2, <2>4 DEF OpenSeccompPipe, ReturnWith
  <2>4a. CASE WriteFilter
    BY <2>1, <2>2, <2>4a DEF WriteFilter, ReturnWith
  <2>5. CASE StartBwrap
    BY <2>1, <2>2, <2>5 DEF StartBwrap, ReturnWith
  <2>6. CASE SpawnWriter
    BY <2>1, <2>2, <2>6 DEF SpawnWriter
  <2>7. CASE SpawnLookup
    BY <2>1, <2>2, <2>7 DEF SpawnLookup
  <2>8. CASE NotifySignals
    BY <2>1, <2>2, <2>8 DEF NotifySignals
  <2>9. CASE WaitMonitor
    BY <2>1, <2>2, <2>9 DEF WaitMonitor
  <2>10. CASE ReceiveWriteErr
    BY <2>1, <2>2, <2>10 DEF ReceiveWriteErr, ReturnWith
  <2>11. CASE WriteUnit
    BY <2>1, <2>2, <2>11 DEF WriteUnit, WrittenAll
  <2>12. CASE CloseWriter
    BY <2>1, <2>2, <2>12 DEF CloseWriter, WriteOutcome
  <2>13. CASE FindInit
    BY <2>1, <2>2, <2>13 DEF FindInit
  <2>14. CASE FindAgent
    BY <2>1, <2>2, <2>14 DEF FindAgent, FirstChild
  <2>15. CASE LookupGivesUp
    BY <2>1, <2>2, <2>15 DEF LookupGivesUp
  <2>16. CASE Deliver
    BY <2>1, <2>2, <2>16 DEF Deliver, Enqueue
  <2>17. CASE TakeSignal
    BY <2>1, <2>2, <2>17 DEF TakeSignal, HandlerStep
  <2>17a. CASE LoadPid
    BY <2>1, <2>2, <2>17a DEF LoadPid, HandlerStep
  <2>17b. CASE SwapFlag
    BY <2>1, <2>2, <2>17b DEF SwapFlag, HandlerStep, Graceful
  <2>17c. CASE SendTerm
    BY <2>1, <2>2, <2>17c DEF SendTerm, HandlerStep
  <2>18. CASE KillMonitor
    BY <2>1, <2>2, <2>18 DEF KillMonitor, HandlerStep, MonitorAlive
  <2>19. CASE BwrapReads
    BY <2>1, <2>2, <2>19 DEF BwrapReads
  <2>20. CASE BwrapParses
    BY <2>1, <2>2, <2>20 DEF BwrapParses
  <2>21. CASE ForkInit
    BY <2>1, <2>2, <2>21 DEF ForkInit
  <2>22. CASE ForkAgent
    <3>1. /\ kids' = <<Agent>> /\ agentPid' = NoPid
          /\ agent' = "running" /\ mon = "supervising"
          /\ UNCHANGED <<flarVars, mon, senderVars>>
      BY <2>22 DEF ForkAgent
    <3>2. kids' # <<>> /\ Head(kids') = Agent
      BY <3>1
    <3>3. PidInv'
      BY <3>1, <3>2
    <3>4. AskInv'
      BY <3>1
    <3> QED BY <3>3, <3>4
  <2>23. CASE ReapAgent
    BY <2>1, <2>2, <2>23 DEF ReapAgent
  <2>24. CASE MonitorExits
    BY <2>1, <2>2, <2>24 DEF MonitorExits
  <2>25. CASE DieWithParent
    BY <2>1, <2>2, <2>25 DEF DieWithParent
  <2>26. CASE LeaveOrphan
    BY <2>1, <2>2, <2>26 DEF LeaveOrphan
  <2>27. ASSUME NEW st \in BwrapDeaths, BwrapDies(st) PROVE ForwardInv'
    BY <2>1, <2>2, <2>27 DEF BwrapDies
  <2>27a. ASSUME NEW n \in KillSignals, KilledFromOutside(n)
          PROVE  ForwardInv'
    BY <2>1, <2>2, <2>27a DEF KilledFromOutside
  <2>28. ASSUME NEW st \in AgentEndings, AgentEnds(st) PROVE ForwardInv'
    BY <2>1, <2>2, <2>28 DEF AgentEnds
  <2>29. CASE UNCHANGED vars
    BY <2>1, <2>2, <2>29 DEF vars
  <2> QED
    BY <2>3, <2>4, <2>4a, <2>5, <2>6, <2>7, <2>8, <2>9, <2>10, <2>11,
       <2>12, <2>13, <2>14, <2>15, <2>16, <2>17, <2>17a, <2>17b, <2>17c,
       <2>18, <2>19, <2>20, <2>21, <2>22, <2>23, <2>24, <2>25, <2>26,
       <2>27, <2>27a, <2>28, <2>29
       DEF Next, Main, Writer, Lookup, Handler, Bwrap, Environment
<1> QED BY <1>1, <1>2, TypeCorrect, PipeInvariant, PTL DEF Spec

-----------------------------------------------------------------------------
(* The properties the runs check, for every value of the constants.        *)

(* No agent is ever started on a truncated option list.                    *)
THEOREM AgentHasAllOptionsHolds == Spec => []AgentHasAllOptions
<1>1. PipeInv => AgentHasAllOptions
  BY DEF PipeInv, Progress, AgentHasAllOptions
<1> QED BY <1>1, PipeInvariant, PTL

(* Every early return and the normal one leave no pipe end open.           *)
THEOREM NoDescriptorLeakHolds == Spec => []NoDescriptorLeak
<1>1. PipeInv => NoDescriptorLeak
  BY DEF PipeInv, OpenEnds, NoDescriptorLeak
<1> QED BY <1>1, PipeInvariant, PTL

(* A run whose agent was started reports that agent's status, or the      *)
(* signal that killed the monitor.                                         *)
THEOREM ReportedStatusHolds == Spec => []ReportedStatus
<1>1. StatusInv => ReportedStatus
  BY DEF StatusInv
<1> QED BY <1>1, StatusInvariant, PTL

(* A pid stored while the agent runs is the agent's.                       *)
THEOREM PidOfLiveAgentHolds == Spec => []PidOfLiveAgent
<1>1. ForwardInv => PidOfLiveAgent
  BY DEF ForwardInv, PidInv, PidOfLiveAgent
<1> QED BY <1>1, ForwardInvariant, PTL

(* flar kills the sandbox of a running agent whose pid was known at the    *)
(* first signal only after it has sent that agent a SIGTERM.               *)
THEOREM GracefulFirstHolds == Spec => GracefulFirst
<1> DEFINE Step == pc["handler"] = "kill" /\ pc'["handler"] = "range" /\
                     known /\ mon = "supervising" /\ agent = "running"
                       => Agent \in termSent
<1>1. ForwardInv => Step
  <2> SUFFICES ASSUME ForwardInv, pc["handler"] = "kill", known,
                      agent = "running"
               PROVE  Agent \in termSent
    OBVIOUS
  <2>1. agentPid = Agent
    BY DEF ForwardInv, PidInv, AskInv
  <2>2. agentPid \in termSent
    BY DEF ForwardInv, AskInv
  <2> QED BY <2>1, <2>2
<1>2. [](ForwardInv) => [][Step]_vars
  BY <1>1, PTL
<1> QED BY <1>2, ForwardInvariant, PTL DEF GracefulFirst
=============================================================================
