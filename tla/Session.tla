------------------------------ MODULE Session ------------------------------
(***************************************************************************)
(* One invocation of flar, around RunSandbox: the temporary directories    *)
(* main makes and removes, the HTTP proxy and the port proxies it starts   *)
(* and closes, and their accept loops, which run on their own goroutines   *)
(* while main and the sandbox go on (main.go:185-262, proxy.go).           *)
(* What a connection carries is left out: see Relay and HttpProxy.         *)
(*                                                                         *)
(* Proxy 0 is the HTTP proxy; proxies 1..NPorts forward the allowed ports, *)
(* in their order.  RunSandbox itself is one stage here: see SandboxRun.   *)
(***************************************************************************)
EXTENDS Integers, FiniteSets

CONSTANTS NPorts,    \* number of allowed ports
          MaxDials   \* bound: connections a sandbox opens to one proxy

ASSUME SessionAssumption == NPorts \in Nat /\ MaxDials \in Nat

Ports == 1..NPorts
Proxies == 0..NPorts

VARIABLES
  main,      \* where main is
  network,   \* "isolated" or "host"
  config,    \* "yes" if tempConfig names a directory
  status,    \* what main exits with: "ran", "failed" or "killed"
  disk,      \* the temporary directories there are
  sock,      \* the proxies whose socket file is there
  listening, \* the proxies whose listener is open
  closing,   \* the port proxies whose closeChan is closed
  next,      \* the proxy main starts next, or closes next
  loop,      \* per proxy: where its accept loop is
  queue,     \* per proxy: connections made and not yet accepted
  dials,     \* per proxy: connections made
  handlers   \* per proxy: connections whose handler has started

mainVars == <<main, config, status, disk, next>>
proxyVars == <<sock, listening, closing, loop>>
connVars == <<queue, dials, handlers>>
vars == <<mainVars, proxyVars, connVars, network>>

Stages == {"config", "net", "http", "ports", "run", "closeChan",
           "closeListener", "waitLoop", "closeServer", "waitServe",
           "removeNet", "removeConfig", "exited"}
LoopLabels == {"none", "accept", "got", "error", "returned"}

Init ==
  /\ main = "config"
  /\ network \in {"isolated", "host"}
  /\ config = "no"
  /\ status = "none"
  /\ disk = {} /\ sock = {} /\ listening = {} /\ closing = {}
  /\ next = 1
  /\ loop = [p \in Proxies |-> "none"]
  /\ queue = [p \in Proxies |-> 0]
  /\ dials = [p \in Proxies |-> 0]
  /\ handlers = [p \in Proxies |-> 0]

-----------------------------------------------------------------------------
(* Making the directories and starting the proxies.                        *)

(* A failed PrepareConfigDir removes what it has made; flar goes on.       *)
PrepareConfigDir ==
  /\ main = "config"
  /\ \/ config' = "yes" /\ disk' = disk \cup {"config"}
     \/ UNCHANGED <<config, disk>>
  /\ main' = IF network = "isolated" THEN "net" ELSE "run"
  /\ UNCHANGED <<status, next, proxyVars, connVars, network>>

MakeNetDir ==
  /\ main = "net"
  /\ \/ disk' = disk \cup {"net"} /\ main' = "http" /\ UNCHANGED status
     \/ status' = "failed" /\ main' = "exited" /\ UNCHANGED disk
  /\ UNCHANGED <<config, next, proxyVars, connVars, network>>

Listen(p) ==
  /\ sock' = sock \cup {p}
  /\ listening' = listening \cup {p}
  /\ loop' = [loop EXCEPT ![p] = "accept"]

StartHttpProxy ==
  /\ main = "http"
  /\ \/ Listen(0) /\ main' = "ports" /\ UNCHANGED <<status, disk>>
     \/ /\ status' = "failed" /\ main' = "exited" /\ disk' = disk \ {"net"}
        /\ UNCHANGED <<sock, listening, loop>>
  /\ UNCHANGED <<config, next, closing, connVars, network>>

(* When one cannot be started, those before it are closed again. *)
StartHostProxy ==
  /\ main = "ports" /\ next \in Ports
  /\ \/ /\ Listen(next)
        /\ next' = next + 1
        /\ UNCHANGED <<main, status>>
     \/ /\ status' = "failed" /\ main' = "closeChan"
        /\ next' = 1
        /\ UNCHANGED <<sock, listening, loop>>
  /\ UNCHANGED <<config, disk, closing, connVars, network>>

ProxiesStartedEarly ==
  /\ main = "ports"
  /\ main' = "run"
  /\ UNCHANGED <<config, status, disk, next, proxyVars, connVars, network>>

ProxiesStarted ==
  /\ main = "ports" /\ next \notin Ports
  /\ main' = "run"
  /\ UNCHANGED <<config, status, disk, next, proxyVars, connVars, network>>

-----------------------------------------------------------------------------
(* Closing the proxies that were started, one by one, and removing the     *)
(* directories.                                                            *)

Started == {p \in Ports : loop[p] # "none"}

RunSandboxReturns ==
  /\ main = "run"
  /\ status' = "ran"
  /\ next' = 1
  /\ main' = IF network = "isolated" THEN "closeChan" ELSE "removeConfig"
  /\ UNCHANGED <<config, disk, proxyVars, connVars, network>>

CloseChan ==
  /\ main = "closeChan"
  /\ \/ /\ next \in Started
        /\ closing' = closing \cup {next}
        /\ main' = "closeListener"
     \/ /\ next \notin Started
        /\ main' = "closeServer"
        /\ UNCHANGED closing
  /\ UNCHANGED <<config, status, disk, next, sock, listening, loop, connVars,
                 network>>

(* A listener that is closed unlinks its socket and drops its queue. *)
StopListening(p) ==
  /\ listening' = listening \ {p}
  /\ sock' = sock \ {p}
  /\ queue' = [queue EXCEPT ![p] = 0]

CloseListener ==
  /\ main = "closeListener"
  /\ StopListening(next)
  /\ main' = "waitLoop"
  /\ UNCHANGED <<config, status, disk, next, closing, loop, dials, handlers,
                 network>>

WaitLoopNot ==
  /\ main = "waitLoop"
  /\ main' = "closeChan" /\ next' = next + 1
  /\ UNCHANGED <<config, status, disk, proxyVars, connVars, network>>

WaitLoop ==
  /\ main = "waitLoop" /\ loop[next] = "returned"
  /\ main' = "closeChan" /\ next' = next + 1
  /\ UNCHANGED <<config, status, disk, proxyVars, connVars, network>>

CloseServer ==
  /\ main = "closeServer"
  /\ StopListening(0)
  /\ main' = "waitServe"
  /\ UNCHANGED <<config, status, disk, next, closing, loop, dials, handlers,
                 network>>

WaitServe ==
  /\ main = "waitServe" /\ loop[0] = "returned"
  /\ main' = "removeNet"
  /\ UNCHANGED <<config, status, disk, next, proxyVars, connVars, network>>

RemoveNetKept ==
  /\ main = "removeNet"
  /\ disk' = IF status = "ran" THEN disk \ {"net"} ELSE disk
  /\ main' = IF status = "ran" THEN "removeConfig" ELSE "exited"
  /\ UNCHANGED <<config, status, next, proxyVars, connVars, network>>

RemoveNet ==
  /\ main = "removeNet"
  /\ disk' = disk \ {"net"}
  /\ main' = IF status = "ran" THEN "removeConfig" ELSE "exited"
  /\ UNCHANGED <<config, status, next, proxyVars, connVars, network>>

RemoveConfigNot ==
  /\ main = "removeConfig"
  /\ main' = "exited"
  /\ UNCHANGED <<config, status, disk, next, proxyVars, connVars, network>>

RemoveConfig ==
  /\ main = "removeConfig"
  /\ disk' = IF config = "yes" THEN disk \ {"config"} ELSE disk
  /\ main' = "exited"
  /\ UNCHANGED <<config, status, next, proxyVars, connVars, network>>

(* A signal that no handler is registered for ends flar on the spot. *)
Killed ==
  /\ main # "exited"
  /\ main' = "exited" /\ status' = "killed"
  /\ UNCHANGED <<config, disk, next, proxyVars, connVars, network>>

-----------------------------------------------------------------------------
(* The accept loops, which end with the process.                           *)

AcceptUnchecked(p) ==
  /\ main # "exited"
  /\ loop[p] = "accept"
  /\ queue' = [queue EXCEPT ![p] = IF @ > 0 THEN @ - 1 ELSE 0]
  /\ loop' = [loop EXCEPT ![p] = "got"]
  /\ UNCHANGED <<mainVars, sock, listening, closing, dials, handlers, network>>

Accept(p) ==
  /\ main # "exited"
  /\ loop[p] = "accept" /\ queue[p] > 0
  /\ queue' = [queue EXCEPT ![p] = @ - 1]
  /\ loop' = [loop EXCEPT ![p] = "got"]
  /\ UNCHANGED <<mainVars, sock, listening, closing, dials, handlers, network>>

Handle(p) ==
  /\ main # "exited"
  /\ loop[p] = "got"
  /\ handlers' = [handlers EXCEPT ![p] = @ + 1]
  /\ loop' = [loop EXCEPT ![p] = "accept"]
  /\ UNCHANGED <<mainVars, sock, listening, closing, queue, dials, network>>

(* Accept fails for good on a closed listener, and for a time on an open   *)
(* one (too many open files).                                              *)
AcceptFails(p) ==
  /\ main # "exited"
  /\ loop[p] = "accept"
  /\ loop' = [loop EXCEPT ![p] = "error"]
  /\ UNCHANGED <<mainVars, sock, listening, closing, connVars, network>>

(* A port proxy returns if its closeChan is closed, the HTTP server if it  *)
(* is closed; otherwise they accept again.                                 *)
GivesUpNever(p) == FALSE
GivesUp(p) == IF p = 0 THEN 0 \notin listening ELSE p \in closing

AfterError(p) ==
  /\ main # "exited"
  /\ loop[p] = "error"
  /\ loop' = [loop EXCEPT ![p] = IF GivesUp(p) THEN "returned" ELSE "accept"]
  /\ UNCHANGED <<mainVars, sock, listening, closing, connVars, network>>

(* The sandbox opens a connection to a proxy. *)
Dial(p) ==
  /\ main = "run" /\ p \in listening
  /\ dials[p] < MaxDials
  /\ dials' = [dials EXCEPT ![p] = @ + 1]
  /\ queue' = [queue EXCEPT ![p] = @ + 1]
  /\ UNCHANGED <<mainVars, proxyVars, handlers, network>>

Main == \/ PrepareConfigDir \/ MakeNetDir \/ StartHttpProxy \/ StartHostProxy
        \/ ProxiesStarted \/ CloseChan \/ CloseListener \/ WaitLoop
        \/ CloseServer \/ WaitServe \/ RemoveNet \/ RemoveConfig

Next == \/ Main \/ RunSandboxReturns \/ Killed
        \/ \E p \in Proxies : \/ Accept(p) \/ Handle(p)
                              \/ AcceptFails(p) \/ AfterError(p)
                              \/ Dial(p)

Spec == Init /\ [][Next]_vars

(* The scheduler runs main and every loop, and Accept returns on a closed  *)
(* listener.  That the sandbox ends is shown in SandboxRun, not assumed.   *)
LoopGoesOn(p) == \/ Accept(p) \/ Handle(p) \/ AfterError(p)
                 \/ p \notin listening /\ AcceptFails(p)
Fairness == /\ WF_vars(Main)
            /\ \A p \in Proxies : WF_vars(LoopGoesOn(p))

FairSpec == Spec /\ Fairness

-----------------------------------------------------------------------------
(* Every variable keeps its type. *)
TypeOK ==
  /\ main \in Stages
  /\ network \in {"isolated", "host"}
  /\ config \in {"yes", "no"}
  /\ status \in {"none", "ran", "failed", "killed"}
  /\ disk \subseteq {"config", "net"}
  /\ sock \subseteq Proxies /\ listening \subseteq Proxies
  /\ closing \subseteq Ports
  /\ next \in 1..(NPorts + 1)
  /\ loop \in [Proxies -> LoopLabels]
  /\ queue \in [Proxies -> 0..MaxDials]
  /\ dials \in [Proxies -> 0..MaxDials]
  /\ handlers \in [Proxies -> 0..MaxDials]

(* The sandbox starts only when every proxy it will dial has its socket in *)
(* place and a loop that accepts, and its directories are there to be      *)
(* bound (main.go:196-227).                                                *)
ReadyBeforeRun ==
  main = "run" =>
    /\ config = "yes" => "config" \in disk
    /\ network = "isolated" =>
         /\ "net" \in disk
         /\ \A p \in Proxies : /\ p \in sock \cap listening
                               /\ loop[p] # "returned"

(* After a run that was not killed nothing is left behind: no directory    *)
(* with credentials, no socket, no loop (main.go:244-258).                 *)
NothingLeft ==
  main = "exited" /\ status = "ran" =>
    /\ disk = {} /\ sock = {} /\ listening = {}
    /\ \A p \in Proxies : loop[p] \in {"none", "returned"}

(* A start that fails half way takes back the proxies it had started and   *)
(* their directory (main.go:206-223).                                      *)
FailureUndone ==
  main = "exited" /\ status = "failed" =>
    /\ "net" \notin disk /\ sock = {} /\ listening = {}
    /\ \A p \in Proxies : loop[p] \in {"none", "returned"}

(* Close waits for the loop, so once a proxy is closed no connection is    *)
(* handed to a handler any more, though one may have been accepted while   *)
(* the listener was being closed (proxy.go:82-87, 307-312).                *)
Closed(p) == \/ main \in {"removeNet", "removeConfig", "exited"}
             \/ /\ p \in 1..(next - 1)
                /\ main \in {"closeChan", "closeListener", "waitLoop",
                             "closeServer", "waitServe"}
NoHandlerAfterClose ==
  [][\A p \in Proxies :
       Closed(p) => handlers'[p] = handlers[p]]_vars

(* Closing never hangs: once the sandbox has ended, or a proxy could not   *)
(* be started, flar exits (a loop that does not see its closeChan would    *)
(* keep wg.Wait waiting, proxy.go:45-51).                                  *)
CloseEnds == (main = "closeChan") ~> (main = "exited")

(* What PrepareConfigDir says of its directory: "The caller is responsible *)
(* for deleting it." (comment at config.go:14).                            *)
ConfigDeleted ==
  main = "exited" /\ status # "killed" => "config" \notin disk
=============================================================================
