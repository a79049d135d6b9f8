--------------------------- MODULE SessionProofs ---------------------------
(***************************************************************************)
(* Proofs about Session, for any number of ports and connections: a run    *)
(* starts with everything in place, and closing leaves nothing.            *)
(***************************************************************************)
EXTENDS Session, TLAPS

(* A connection that was made waits, is about to be handled, was handled,  *)
(* or was dropped with its listener.                                       *)
InHand(p) == IF loop[p] = "got" THEN 1 ELSE 0
Counted == \A p \in Proxies : queue[p] + InHand(p) + handlers[p] <= dials[p]

ClosesAPort == main \in {"closeListener", "waitLoop"} => next \in Ports

TypeInv == TypeOK /\ Counted /\ ClosesAPort

(* What is seen of the steps by the proofs below. *)
LEMMA StepCases ==
  ASSUME [Next]_vars
  PROVE  \/ Main \/ RunSandboxReturns \/ Killed
         \/ \E p \in Proxies : \/ Accept(p) \/ Handle(p) \/ AcceptFails(p)
                               \/ AfterError(p) \/ Dial(p)
         \/ UNCHANGED vars
BY DEF Next

LEMMA TypeStep ==
  ASSUME TypeInv, [Next]_vars
  PROVE  TypeInv'
<1> USE SessionAssumption DEF TypeInv, TypeOK
<1>1. ASSUME UNCHANGED <<connVars, loop>> PROVE Counted'
  BY <1>1 DEF Counted, InHand, connVars
<1>2. CASE PrepareConfigDir
  BY <1>2, <1>1 DEF PrepareConfigDir, Stages, ClosesAPort, proxyVars, connVars
<1>3. CASE MakeNetDir
  BY <1>3, <1>1 DEF MakeNetDir, Stages, ClosesAPort, proxyVars, connVars
<1>4. ASSUME NEW p \in Proxies, Listen(p), UNCHANGED connVars
      PROVE  /\ loop' \in [Proxies -> LoopLabels] /\ Counted'
             /\ sock' \subseteq Proxies /\ listening' \subseteq Proxies
  BY <1>4 DEF Listen, LoopLabels, Counted, InHand, connVars
<1>5. 0 \in Proxies /\ Ports \subseteq Proxies
  BY DEF Proxies, Ports
<1>6. CASE StartHttpProxy
  <2>1. CASE Listen(0)
    BY <1>6, <1>4, <1>5, <2>1 DEF StartHttpProxy, Stages, ClosesAPort, connVars
  <2>2. CASE ~Listen(0)
    BY <1>6, <1>1, <2>2 DEF StartHttpProxy, Stages, ClosesAPort, connVars
  <2> QED
    BY <2>1, <2>2
<1>7. CASE StartHostProxy
  <2>1. CASE Listen(next) /\ next' = next + 1 /\ UNCHANGED <<main, status>>
    <3>1. next' \in 1..(NPorts + 1)
      BY <1>7, <2>1 DEF StartHostProxy, Ports
    <3> QED
      BY <1>7, <1>4, <1>5, <2>1, <3>1
         DEF StartHostProxy, Stages, ClosesAPort, connVars
  <2>2. CASE /\ status' = "failed" /\ main' = "closeChan" /\ next' = 1
             /\ UNCHANGED <<sock, listening, loop>>
    BY <1>7, <1>1, <2>2 DEF StartHostProxy, Stages, ClosesAPort, connVars
  <2> QED
    BY <1>7, <2>1, <2>2 DEF StartHostProxy
<1>8. CASE ProxiesStarted
  BY <1>8, <1>1 DEF ProxiesStarted, Stages, ClosesAPort, proxyVars, connVars
<1>9. CASE CloseChan
  BY <1>9, <1>1 DEF CloseChan, Started, Stages, ClosesAPort, connVars
<1>10. ASSUME NEW p \in Proxies, StopListening(p), UNCHANGED <<loop, dials, handlers>>
       PROVE  /\ queue' \in [Proxies -> 0..MaxDials] /\ Counted'
              /\ sock' \subseteq Proxies /\ listening' \subseteq Proxies
  BY <1>10 DEF StopListening, Counted, InHand
<1>11. CASE CloseListener
  <2>1. next \in Ports
    BY <1>11 DEF CloseListener, ClosesAPort
  <2> QED
    BY <1>11, <1>10, <1>5, <2>1 DEF CloseListener, Stages, ClosesAPort
<1>12. CASE WaitLoop
  <2>1. next + 1 \in 1..(NPorts + 1)
    BY <1>12 DEF WaitLoop, ClosesAPort, Ports
  <2> QED
    BY <1>12, <1>1, <2>1 DEF WaitLoop, Stages, ClosesAPort, proxyVars, connVars
<1>13. CASE CloseServer
  BY <1>13, <1>10, <1>5 DEF CloseServer, Stages, ClosesAPort
<1>14. CASE WaitServe
  BY <1>14, <1>1 DEF WaitServe, Stages, ClosesAPort, proxyVars, connVars
<1>15. CASE RemoveNet
  BY <1>15, <1>1 DEF RemoveNet, Stages, ClosesAPort, proxyVars, connVars
<1>16. CASE RemoveConfig
  BY <1>16, <1>1 DEF RemoveConfig, Stages, ClosesAPort, proxyVars, connVars
<1>17. CASE RunSandboxReturns
  BY <1>17, <1>1 DEF RunSandboxReturns, Stages, ClosesAPort, proxyVars, connVars
<1>18. CASE Killed
  BY <1>18, <1>1 DEF Killed, Stages, ClosesAPort, proxyVars, connVars
<1>19. ASSUME NEW p \in Proxies, Accept(p) PROVE TypeInv'
  BY <1>19 DEF Accept, ClosesAPort, Counted, InHand, LoopLabels, mainVars
<1>20. ASSUME NEW p \in Proxies, Handle(p) PROVE TypeInv'
  <2>1. handlers[p] + 1 \in 0..MaxDials
    BY <1>20 DEF Handle, Counted, InHand
  <2> QED
    BY <1>20, <2>1 DEF Handle, ClosesAPort, Counted, InHand, LoopLabels, mainVars
<1>21. ASSUME NEW p \in Proxies, AcceptFails(p) \/ AfterError(p) PROVE TypeInv'
  <2>1. /\ loop' \in [Proxies -> LoopLabels]
        /\ \A q \in Proxies : loop'[q] = "got" <=> loop[q] = "got"
    BY <1>21 DEF AcceptFails, AfterError, LoopLabels
  <2>2. UNCHANGED <<mainVars, sock, listening, closing, connVars, network>>
    BY <1>21 DEF AcceptFails, AfterError
  <2> QED
    BY <2>1, <2>2 DEF ClosesAPort, Counted, InHand, mainVars, connVars
<1>22. ASSUME NEW p \in Proxies, Dial(p) PROVE TypeInv'
  <2>1. queue[p] + 1 \in 0..MaxDials /\ dials[p] + 1 \in 0..MaxDials
    BY <1>22 DEF Dial, Counted, InHand
  <2> QED
    BY <1>22, <2>1 DEF Dial, ClosesAPort, Counted, InHand, mainVars, proxyVars
<1>23. CASE UNCHANGED vars
  BY <1>23, <1>1 DEF vars, mainVars, proxyVars, connVars, ClosesAPort
<1> HIDE DEF TypeInv, TypeOK
<1> QED
  BY StepCases, <1>2, <1>3, <1>6, <1>7, <1>8, <1>9, <1>11, <1>12, <1>13, <1>14,
     <1>15, <1>16, <1>17, <1>18, <1>19, <1>20, <1>21, <1>22, <1>23 DEF Main

LEMMA TypeInvariant == Spec => []TypeInv
<1>1. Init => TypeInv
  BY SessionAssumption
     DEF Init, TypeInv, TypeOK, Counted, InHand, ClosesAPort, Stages, LoopLabels
<1> QED
  BY <1>1, TypeStep, PTL DEF Spec

(* Every variable keeps its type, and no proxy handles more connections    *)
(* than were made to it.                                                   *)
THEOREM TypeCorrect == Spec => []TypeOK
<1>1. TypeInv => TypeOK
  BY DEF TypeInv
<1> QED
  BY <1>1, TypeInvariant, PTL

-----------------------------------------------------------------------------
(* The directories, by the place of main.                                  *)

Running == {"config", "net", "http", "ports", "run"}
Closing == {"closeChan", "closeListener", "waitLoop", "closeServer", "waitServe"}

DiskInv ==
  /\ main = "config" => disk = {} /\ config = "no"
  /\ main \notin {"config", "exited"} => (config = "yes" <=> "config" \in disk)
  /\ main \in {"net", "removeConfig"} => "net" \notin disk
  /\ main \in {"http", "ports", "removeNet"} \cup Closing =>
       network = "isolated" /\ "net" \in disk
  /\ main = "net" => network = "isolated"
  /\ main = "run" => ("net" \in disk <=> network = "isolated")
  /\ main \in Running => status = "none"
  /\ main \in Closing \cup {"removeNet"} => status \in {"ran", "failed"}
  /\ main = "removeConfig" => status = "ran"
  /\ main = "exited" => /\ status # "none"
                        /\ status = "ran" => disk = {}
                        /\ status = "failed" => "net" \notin disk

LEMMA DiskInvariant == Spec => []DiskInv
<1>1. Init => DiskInv
  BY DEF Init, DiskInv, Running, Closing
<1>2. TypeOK /\ DiskInv /\ [Next]_vars => DiskInv'
  <2> SUFFICES ASSUME TypeOK, DiskInv, [Next]_vars PROVE DiskInv'
    OBVIOUS
  <2> USE DEF DiskInv, Running, Closing
  <2>1. CASE PrepareConfigDir
    BY <2>1 DEF PrepareConfigDir, TypeOK
  <2>2. CASE MakeNetDir
    BY <2>2 DEF MakeNetDir
  <2>3. CASE StartHttpProxy
    BY <2>3 DEF StartHttpProxy
  <2>4. CASE StartHostProxy \/ ProxiesStarted
    BY <2>4 DEF StartHostProxy, ProxiesStarted
  <2>5. CASE CloseChan \/ CloseListener \/ WaitLoop \/ CloseServer \/ WaitServe
    BY <2>5 DEF CloseChan, CloseListener, WaitLoop, CloseServer, WaitServe
  <2>6. CASE RemoveNet
    BY <2>6 DEF RemoveNet
  <2>7. CASE RemoveConfig
    BY <2>7 DEF RemoveConfig, TypeOK
  <2>8. CASE RunSandboxReturns
    BY <2>8 DEF RunSandboxReturns, TypeOK
  <2>9. CASE Killed
    BY <2>9 DEF Killed
  <2>10. ASSUME NEW p \in Proxies,
                Accept(p) \/ Handle(p) \/ AcceptFails(p) \/ AfterError(p) \/ Dial(p)
         PROVE  DiskInv'
    BY <2>10 DEF Accept, Handle, AcceptFails, AfterError, Dial, mainVars
  <2>11. CASE UNCHANGED vars
    BY <2>11 DEF vars, mainVars
  <2> HIDE DEF DiskInv
  <2> QED
    BY StepCases, <2>1, <2>2, <2>3, <2>4, <2>5, <2>6, <2>7, <2>8, <2>9, <2>10,
       <2>11 DEF Main
<1> QED
  BY <1>1, <1>2, TypeCorrect, PTL DEF Spec

-----------------------------------------------------------------------------
(* The listeners and their loops, by the place of main.                    *)

(* Ports are started and closed in their order.  Down: never started, or   *)
(* closed and its loop returned.                                           *)
Down(p) == p \notin listening /\ loop[p] \in {"none", "returned"}
Untouched == listening = {} /\ closing = {} /\ \A p \in Proxies : loop[p] = "none"
AllUp == listening = Proxies /\ closing = {} /\ \A p \in Proxies : loop[p] # "none"

LoopInv ==
  /\ sock = listening
  /\ \A p \in listening : loop[p] # "none"
  /\ \A p \in Proxies : loop[p] = "returned" => GivesUp(p)
  /\ \A p, q \in Ports : q < p /\ loop[p] # "none" => loop[q] # "none"

PlaceInv ==
  /\ main \in {"config", "net", "http"} => Untouched /\ next = 1
  /\ main = "ports" => /\ closing = {} /\ 0 \in listening
                       /\ \A p \in Ports : p < next <=> p \in listening
                       /\ \A p \in Ports : p < next <=> loop[p] # "none"
  /\ main = "run" => IF network = "isolated" THEN AllUp ELSE Untouched
  /\ main \in Closing => \A p \in Ports : p < next => Down(p)
  /\ main = "waitLoop" => next \notin listening
  /\ main \in {"closeServer", "waitServe"} => \A p \in Ports : Down(p)
  /\ main = "waitServe" => 0 \notin listening
  /\ main \in {"removeNet", "removeConfig"} => \A p \in Proxies : Down(p)
  /\ main = "exited" /\ status # "killed" => \A p \in Proxies : Down(p)

LEMMA LoopStep ==
  ASSUME TypeInv, PlaceInv, LoopInv, [Next]_vars
  PROVE  LoopInv'
<1> USE SessionAssumption DEF TypeInv, TypeOK, LoopInv, GivesUp
<1>1. ASSUME UNCHANGED <<sock, listening, closing, loop>> PROVE LoopInv'
  BY <1>1
<1>2. CASE \/ PrepareConfigDir \/ MakeNetDir \/ ProxiesStarted \/ WaitLoop
           \/ WaitServe \/ RemoveNet \/ RemoveConfig \/ RunSandboxReturns
           \/ Killed \/ UNCHANGED vars
  BY <1>1, <1>2
     DEF PrepareConfigDir, MakeNetDir, ProxiesStarted, WaitLoop, WaitServe,
         RemoveNet, RemoveConfig, RunSandboxReturns, Killed, vars, proxyVars
<1>3. CASE StartHttpProxy
  <2>1. /\ listening = {} /\ \A p \in Proxies : loop[p] = "none"
        /\ 0 \in Proxies /\ 0 \notin Ports /\ Ports \subseteq Proxies
    BY <1>3 DEF StartHttpProxy, PlaceInv, Untouched, Proxies, Ports
  <2>2. CASE Listen(0)
    <3>1. /\ sock' = {0} /\ listening' = {0} /\ closing' = closing
          /\ \A p \in Proxies : loop'[p] = IF p = 0 THEN "accept" ELSE "none"
      BY <1>3, <2>1, <2>2 DEF StartHttpProxy, Listen
    <3> QED
      BY <2>1, <3>1
  <2>3. CASE UNCHANGED <<sock, listening, loop>>
    BY <1>1, <1>3, <2>3 DEF StartHttpProxy
  <2> QED
    BY <1>3, <2>2, <2>3 DEF StartHttpProxy
<1>4. CASE StartHostProxy
  <2>1. /\ next \in Ports /\ 0 \notin Ports /\ Ports \subseteq Proxies
        /\ closing = {} /\ 0 \in listening /\ Ports \subseteq Int
        /\ \A p \in Ports : p < next <=> loop[p] # "none"
    BY <1>4 DEF StartHostProxy, PlaceInv, Proxies, Ports
  <2>2. CASE Listen(next)
    <3>1. /\ sock' = sock \cup {next} /\ listening' = listening \cup {next}
          /\ closing' = {}
          /\ \A p \in Proxies : loop'[p] = IF p = next THEN "accept" ELSE loop[p]
      BY <1>4, <2>1, <2>2 DEF StartHostProxy, Listen
    <3> QED
      BY <2>1, <3>1
  <2>3. CASE UNCHANGED <<sock, listening, loop>>
    BY <1>1, <1>4, <2>3 DEF StartHostProxy
  <2> QED
    BY <1>4, <2>2, <2>3 DEF StartHostProxy
<1>5. CASE CloseChan
  BY <1>5 DEF CloseChan
<1>6. CASE CloseListener \/ CloseServer
  BY <1>6 DEF CloseListener, CloseServer, StopListening
<1>7. ASSUME NEW p \in Proxies,
             Accept(p) \/ Handle(p) \/ AcceptFails(p) \/ AfterError(p) \/ Dial(p)
      PROVE  LoopInv'
  <2>1. UNCHANGED <<sock, listening, closing>>
    BY <1>7 DEF Accept, Handle, AcceptFails, AfterError, Dial, proxyVars
  <2>2. ASSUME NEW q \in Proxies
        PROVE  /\ loop'[q] = "none" <=> loop[q] = "none"
               /\ loop'[q] = "returned" => GivesUp(q)
    BY <1>7 DEF Accept, Handle, AcceptFails, AfterError, Dial, proxyVars
  <2>3. \A q \in Proxies : GivesUp(q)' = GivesUp(q)
    BY <2>1
  <2>4. Ports \subseteq Proxies /\ listening \subseteq Proxies
    BY DEF Proxies, Ports
  <2>5. \A q \in Proxies : loop'[q] = "returned" => GivesUp(q)'
    BY <2>2, <2>3
  <2>6. \A q \in listening' : loop'[q] # "none"
    BY <2>1, <2>2, <2>4
  <2>7. \A a, b \in Ports : b < a /\ loop'[a] # "none" => loop'[b] # "none"
    BY <2>2, <2>4
  <2> QED
    BY <2>1, <2>5, <2>6, <2>7
<1> HIDE DEF TypeInv, TypeOK, LoopInv
<1> QED
  BY StepCases, <1>2, <1>3, <1>4, <1>5, <1>6, <1>7 DEF Main

LEMMA PlaceStep ==
  ASSUME TypeInv, DiskInv, PlaceInv, LoopInv, [Next]_vars
  PROVE  PlaceInv'
<1> USE SessionAssumption DEF PlaceInv, Closing, Down, Untouched
<1>1. CASE PrepareConfigDir \/ MakeNetDir
  BY <1>1 DEF PrepareConfigDir, MakeNetDir, proxyVars, DiskInv, TypeInv, TypeOK
<1>2. CASE StartHttpProxy
  <2>1. /\ listening = {} /\ closing = {} /\ next = 1 /\ closing' = closing
        /\ next' = next /\ \A p \in Proxies : loop[p] = "none"
        /\ 0 \in Proxies /\ 0 \notin Ports /\ Ports \subseteq Proxies
        /\ \A p \in Ports : ~(p < 1)
    BY <1>2 DEF StartHttpProxy, Proxies, Ports
  <2>2. CASE Listen(0) /\ main' = "ports"
    <3>1. /\ listening' = {0}
          /\ \A p \in Proxies : loop'[p] = IF p = 0 THEN "accept" ELSE "none"
      BY <2>1, <2>2 DEF Listen, TypeInv, TypeOK
    <3> QED
      BY <2>1, <2>2, <3>1
  <2>3. CASE main' = "exited" /\ UNCHANGED <<sock, listening, loop>>
    BY <2>1, <2>3
  <2> QED
    BY <1>2, <2>2, <2>3 DEF StartHttpProxy
<1>3. CASE StartHostProxy
  <2>1. /\ next \in Ports /\ 0 \notin Ports /\ Ports \subseteq Proxies
        /\ closing = {} /\ 0 \in listening /\ Ports \subseteq Int
        /\ \A p \in Ports : p < next <=> loop[p] # "none"
        /\ \A p \in Ports : p < next <=> p \in listening
        /\ closing' = closing /\ \A p \in Ports : ~(p < 1)
    BY <1>3 DEF StartHostProxy, Proxies, Ports
  <2>2. CASE Listen(next) /\ next' = next + 1 /\ UNCHANGED <<main, status>>
    <3>1. /\ listening' = listening \cup {next} /\ main' = "ports"
          /\ \A p \in Proxies : loop'[p] = IF p = next THEN "accept" ELSE loop[p]
      BY <1>3, <2>1, <2>2 DEF StartHostProxy, Listen, TypeInv, TypeOK
    <3>2. \A p \in Ports : p < next + 1 <=> p < next \/ p = next
      BY <2>1
    <3> QED
      BY <2>1, <2>2, <3>1, <3>2
  <2>3. CASE main' = "closeChan" /\ next' = 1 /\ UNCHANGED <<sock, listening, loop>>
    BY <2>1, <2>3
  <2> QED
    BY <1>3, <2>2, <2>3 DEF StartHostProxy
<1>4. CASE ProxiesStarted
  <2>1. network = "isolated" /\ network' = network
    BY <1>4 DEF ProxiesStarted, DiskInv
  <2>2. \A p \in Ports : p < next
    BY <1>4 DEF ProxiesStarted, TypeInv, TypeOK, Ports
  <2>3. AllUp
    <3>1. Proxies = Ports \cup {0}
      BY DEF Proxies, Ports
    <3> QED
      BY <1>4, <2>2, <3>1 DEF ProxiesStarted, AllUp, LoopInv, TypeInv, TypeOK
  <2> QED
    BY <1>4, <2>1, <2>3 DEF ProxiesStarted, AllUp, proxyVars
<1>5. CASE CloseChan
  BY <1>5 DEF CloseChan, Started, LoopInv, TypeInv, TypeOK, Proxies, Ports
<1>6. CASE CloseListener
  BY <1>6 DEF CloseListener, StopListening, TypeInv, TypeOK
<1>7. CASE WaitLoop
  BY <1>7 DEF WaitLoop, proxyVars, TypeInv, TypeOK, ClosesAPort, Proxies, Ports
<1>8. CASE CloseServer
  BY <1>8 DEF CloseServer, StopListening, TypeInv, TypeOK
<1>9. CASE WaitServe
  BY <1>9 DEF WaitServe, proxyVars, TypeInv, TypeOK, Proxies, Ports
<1>10. CASE RemoveNet \/ RemoveConfig \/ Killed
  BY <1>10 DEF RemoveNet, RemoveConfig, Killed, proxyVars
<1>11. CASE RunSandboxReturns
  BY <1>11 DEF RunSandboxReturns, proxyVars, AllUp, TypeInv, TypeOK, Proxies, Ports
<1>12. ASSUME NEW p \in Proxies,
              Accept(p) \/ Handle(p) \/ AcceptFails(p) \/ AfterError(p) \/ Dial(p)
       PROVE  PlaceInv'
  <2>1. UNCHANGED <<mainVars, sock, listening, closing, network>> /\ main # "exited"
    BY <1>12 DEF Accept, Handle, AcceptFails, AfterError, Dial, mainVars, proxyVars
  <2>2. ASSUME NEW q \in Proxies
        PROVE  /\ loop'[q] = "none" <=> loop[q] = "none"
               /\ loop[q] = "returned" => loop'[q] = "returned"
    BY <1>12 DEF Accept, Handle, AcceptFails, AfterError, Dial, proxyVars,
                 TypeInv, TypeOK
  <2> QED
    BY <2>1, <2>2 DEF mainVars, AllUp, Proxies, Ports
<1>13. CASE UNCHANGED vars
  BY <1>13 DEF vars, mainVars, proxyVars, AllUp
<1> HIDE DEF PlaceInv
<1> QED
  BY StepCases, <1>1, <1>2, <1>3, <1>4, <1>5, <1>6, <1>7, <1>8, <1>9, <1>10,
     <1>11, <1>12, <1>13 DEF Main

Inv == TypeInv /\ DiskInv /\ LoopInv /\ PlaceInv

LEMMA Invariant == Spec => []Inv
<1>1. Init => LoopInv /\ PlaceInv
  BY DEF Init, LoopInv, PlaceInv, Untouched, Closing, Proxies, Ports
<1>2. TypeInv /\ DiskInv /\ LoopInv /\ PlaceInv /\ [Next]_vars
        => LoopInv' /\ PlaceInv'
  BY LoopStep, PlaceStep
<1> QED
  BY <1>1, <1>2, TypeInvariant, DiskInvariant, PTL DEF Spec, Inv

-----------------------------------------------------------------------------
(* When the sandbox starts its directories are there, and every proxy      *)
(* listens and accepts, however many ports there are (main.go:196-227).    *)
THEOREM ReadyBeforeRunHolds == Spec => []ReadyBeforeRun
<1>1. Inv => ReadyBeforeRun
  BY DEF Inv, DiskInv, LoopInv, PlaceInv, AllUp, GivesUp, Proxies, Ports,
         ReadyBeforeRun
<1> QED
  BY <1>1, Invariant, PTL

(* A run that was not killed leaves no directory, socket, listener or loop *)
(* (main.go:244-258).                                                      *)
THEOREM NothingLeftHolds == Spec => []NothingLeft
<1>1. Inv => NothingLeft
  BY DEF Inv, DiskInv, LoopInv, PlaceInv, Down, NothingLeft, TypeInv, TypeOK
<1> QED
  BY <1>1, Invariant, PTL

(* Nor does a start that fails leave anything of its proxies, wherever it  *)
(* fails (main.go:206-223).                                                *)
THEOREM FailureUndoneHolds == Spec => []FailureUndone
<1>1. Inv => FailureUndone
  BY DEF Inv, DiskInv, LoopInv, PlaceInv, Down, FailureUndone, TypeInv, TypeOK
<1> QED
  BY <1>1, Invariant, PTL

(* Once Close has returned, no connection reaches a handler                *)
(* (proxy.go:82-87, 307-312).                                              *)
THEOREM NoHandlerAfterCloseHolds == Spec => NoHandlerAfterClose
<1> DEFINE Kept == \A p \in Proxies : Closed(p) => handlers'[p] = handlers[p]
<1>1. ASSUME Inv, [Next]_vars PROVE [Kept]_vars
  <2>1. ASSUME NEW p \in Proxies, Handle(p) PROVE Kept
    <3>1. ~Closed(p)
      BY <1>1, <2>1
         DEF Closed, Handle, Inv, PlaceInv, Closing, Down, Proxies, Ports, TypeInv,
             TypeOK
    <3> QED
      BY <1>1, <2>1, <3>1 DEF Handle, Inv, TypeInv, TypeOK
  <2>2. ASSUME \A p \in Proxies : ~Handle(p), ~UNCHANGED vars
        PROVE  handlers' = handlers
    BY <1>1, <2>2
       DEF Next, Main, PrepareConfigDir, MakeNetDir, StartHttpProxy, StartHostProxy,
           ProxiesStarted, CloseChan, CloseListener, WaitLoop, CloseServer,
           WaitServe, RemoveNet, RemoveConfig, RunSandboxReturns, Killed, Accept,
           AcceptFails, AfterError, Dial, connVars
  <2> QED
    BY <2>1, <2>2
<1> QED
  BY <1>1, Invariant, PTL DEF Spec, NoHandlerAfterClose
=============================================================================
