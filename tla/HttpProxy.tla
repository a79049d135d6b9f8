------------------------------ MODULE HttpProxy ------------------------------
(***************************************************************************)
(* The HTTP proxy on the host, the isolated sandbox's only way to the      *)
(* network (proxy.go:126-312).  Each request has its handler, on its own   *)
(* goroutine.  The handler resolves the name it is given, checks all the   *)
(* addresses, and dials one of them: for CONNECT as a tunnel, otherwise    *)
(* with an HTTP client.                                                    *)
(*                                                                         *)
(* A lookup may return anything at any time: two lookups of one name need  *)
(* not agree, and a host is nothing but what its lookups return.  An       *)
(* invalid host or port is the port NoPort.                                *)
(***************************************************************************)
EXTENDS Naturals, Sequences, Functions

CONSTANTS Requests,   \* the requests
          Ports,      \* the ports they ask for
          AllowPorts, \* the ports the user allowed
          Loopback4, Loopback6,  \* the loopback addresses, IPv4 and IPv6
          Private,    \* every other address that is local or private
          Public,     \* the rest
          Answers     \* what a lookup may return: sequences of addresses

NoPort == 0
Loopback == Loopback4 \cup Loopback6
Addresses == Loopback \cup Private \cup Public
NoAddress == "none"

ASSUME ProxyAssumption ==
  /\ Ports \subseteq Nat /\ AllowPorts \subseteq Nat \ {NoPort}
  /\ Answers \subseteq Seq(Addresses)
  /\ Loopback4 \cap Loopback6 = {} /\ Loopback \cap Private = {}
  /\ Public \cap (Loopback \cup Private) = {}
  /\ NoAddress \notin Addresses

VARIABLES
  server, \* "serving" or "closed"
  pc,     \* per request: where its handler is
  method, \* per request: "CONNECT", or "GET" for any other
  port,   \* per request: the port of its URL
  answer, \* per request: what LookupIP returned, when it was accepted
  addr,   \* per request: dialAddr
  reply,  \* per request: the status it was answered with
  gone,   \* the requests whose client has closed its connection
  ended,  \* the requests whose destination has closed its connection
  writing, \* the copies blocked in a Write to an end that does not read
  dials   \* every address dialed: its port and answer

request == <<method, port>>
ends == <<gone, ended>>
vars == <<server, pc, request, answer, addr, reply, ends, writing, dials>>

Labels == {"none", "resolve", "dial", "tunnel", "exchange", "body", "done"}
Replies == {"none", "ok", "redirect", "bad request", "forbidden",
            "unavailable", "bad gateway"}
Methods == {"CONNECT", "GET"}

(* The two copies of a tunnel: "up" reads what the client sends, "down"    *)
(* what the destination sends.                                             *)
Copies == {"up", "down"}
Opposite(c) == IF c = "up" THEN "down" ELSE "up"

Init ==
  /\ server = "serving"
  /\ pc = [r \in Requests |-> "none"]
  /\ method \in [Requests -> Methods]
  /\ port \in [Requests -> Ports]
  /\ answer = [r \in Requests |-> <<>>]
  /\ addr = [r \in Requests |-> NoAddress]
  /\ reply = [r \in Requests |-> "none"]
  /\ gone = {} /\ ended = {}
  /\ writing = {} /\ dials = {}

Goto(r, label) == pc' = [pc EXCEPT ![r] = label]
Reply(r, status) == /\ reply' = [reply EXCEPT ![r] = status]
                    /\ Goto(r, "done")

-----------------------------------------------------------------------------
(* resolveAndCheck, on the addresses of one lookup.                        *)

PortAllowed(p) == p \in AllowPorts

(* Only the first address is checked. *)
RefusedByFirst(ips, p) ==
  LET first == IF ips = <<>> THEN NoAddress ELSE ips[1]
  IN \/ first \in Private \cup {NoAddress}
     \/ first \in Loopback /\ ~PortAllowed(p)

(* One address that is private refuses them all; a loopback address does   *)
(* unless its port is allowed.                                             *)
Refused(ips, p) ==
  \/ ips = <<>>
  \/ Range(ips) \cap Private # {}
  \/ Range(ips) \cap Loopback # {} /\ ~PortAllowed(p)

FirstIn(ips, S) ==
  ips[CHOOSE i \in DOMAIN ips :
        ips[i] \in S /\ \A j \in 1..(i - 1) : ips[j] \notin S]

(* The first address is dialed, whatever the check was about. *)
ChosenFirst(ips) == ips[1]

Chosen(ips) ==
  IF Range(ips) \cap Loopback4 # {} THEN FirstIn(ips, Loopback4)
  ELSE IF Range(ips) \cap Loopback6 # {} THEN FirstIn(ips, Loopback6)
  ELSE ips[1]

-----------------------------------------------------------------------------
(* The handler of a request.                                               *)

Arrive(r) ==
  /\ server = "serving" /\ pc[r] = "none"
  /\ Goto(r, "resolve")
  /\ UNCHANGED <<server, request, answer, addr, reply, ends, writing,
                 dials>>

BadRequest(r) ==
  /\ pc[r] = "resolve" /\ port[r] = NoPort
  /\ \E status \in {"bad request", "forbidden"} : Reply(r, status)
  /\ UNCHANGED <<server, request, answer, addr, ends, writing, dials>>

(* The error is written and the handler goes on. *)
ForbiddenGoesOn(r) ==
  /\ pc[r] = "resolve" /\ port[r] # NoPort
  /\ \E ips \in Answers : Refused(ips, port[r])
  /\ reply' = [reply EXCEPT ![r] = "forbidden"]
  /\ Goto(r, "dial")
  /\ UNCHANGED <<server, request, answer, addr, ends, writing, dials>>

Forbidden(r) ==
  /\ pc[r] = "resolve" /\ port[r] # NoPort
  /\ \E ips \in Answers : Refused(ips, port[r])
  /\ Reply(r, "forbidden")
  /\ UNCHANGED <<server, request, answer, addr, ends, writing, dials>>

Resolve(r) ==
  /\ pc[r] = "resolve" /\ port[r] # NoPort
  /\ \E ips \in Answers : /\ ~Refused(ips, port[r])
                          /\ answer' = [answer EXCEPT ![r] = ips]
                          /\ addr' = [addr EXCEPT ![r] = Chosen(ips)]
  /\ Goto(r, "dial")
  /\ UNCHANGED <<server, request, reply, ends, writing, dials>>

(* The name is resolved again. *)
DialAgain(r) == UNION {Range(ips) : ips \in Answers}

(* The address to dial is the one that was checked. *)
DialAddr(r) == {addr[r]}
Dialed(r, a) ==
  dials' = dials \cup {[to |-> a, port |-> port[r], answer |-> answer[r]]}

DialTunnel(r) ==
  /\ pc[r] = "dial" /\ method[r] = "CONNECT"
  /\ \E a \in DialAddr(r) : Dialed(r, a)
  /\ \/ \E next \in {"tunnel", "done"} :   \* "done": no connection to hijack
          Goto(r, next) /\ reply' = [reply EXCEPT ![r] = "ok"]
     \/ Reply(r, "unavailable")
  /\ UNCHANGED <<server, request, answer, addr, ends, writing>>

DialAndSend(r) ==
  /\ pc[r] = "dial" /\ method[r] # "CONNECT"
  /\ \E a \in DialAddr(r) : Dialed(r, a)
  /\ \/ Goto(r, "exchange") /\ UNCHANGED reply
     \/ Reply(r, "bad gateway")
  /\ UNCHANGED <<server, request, answer, addr, ends, writing>>

(* A redirect is a response like any other: it goes back to the agent.     *)
Respond(r) ==
  /\ pc[r] = "exchange"
  /\ \E status \in {"ok", "redirect"} :
       reply' = [reply EXCEPT ![r] = status]
  /\ Goto(r, "body")
  /\ UNCHANGED <<server, request, answer, addr, ends, writing, dials>>

(* The destination closes, or the request's context is cancelled, before   *)
(* there is a response.                                                    *)
ExchangeFails(r) ==
  /\ pc[r] = "exchange" /\ r \in gone \cup ended
  /\ Reply(r, "bad gateway")
  /\ UNCHANGED <<server, request, answer, addr, ends, writing, dials>>

(* The requests whose end that copy c reads from has closed. *)
Left(c) == IF c = "up" THEN gone ELSE ended

(* io.Copy returns when the end it reads from has closed, or when the end  *)
(* it is blocked writing to has.  In a Write it does not see the former.   *)
CopyEnds(r, c) == IF <<r, c>> \in writing THEN r \in Left(Opposite(c))
                                           ELSE r \in Left(c)

HandlerReturns(r) ==
  /\ Goto(r, "done")
  /\ writing' = writing \ ({r} \X Copies)
  /\ UNCHANGED <<server, request, answer, addr, reply, ends, dials>>

(* When the client goes, the server cancels the request's context, and the *)
(* copy of the body ends wherever it is.                                   *)
BodyCopied(r) ==
  /\ pc[r] = "body"
  /\ r \in gone \/ CopyEnds(r, "down")
  /\ HandlerReturns(r)

(* Both copies have to end. *)
TunnelEndsLate(r) ==
  /\ pc[r] = "tunnel"
  /\ \A c \in Copies : CopyEnds(r, c)
  /\ HandlerReturns(r)

(* The first of the two copies that ends closes both connections. *)
TunnelEnds(r) ==
  /\ pc[r] = "tunnel"
  /\ \E c \in Copies : CopyEnds(r, c)
  /\ HandlerReturns(r)

(* A copy that has something to write to an end that has closed ends too.  *)
TunnelWriteFails(r) ==
  /\ pc[r] = "tunnel"
  /\ \E c \in Copies : r \in Left(Opposite(c)) /\ <<r, c>> \notin writing
  /\ HandlerReturns(r)

-----------------------------------------------------------------------------
(* The two ends of the connections, and Close.                             *)

ClientGone(r) ==
  /\ pc[r] \notin {"none", "done"} /\ r \notin gone
  /\ gone' = gone \cup {r}
  /\ UNCHANGED <<server, pc, request, answer, addr, reply, ended, writing, dials>>

(* The destination closes its connection, after its response for instance. *)
DestinationEnds(r) ==
  /\ pc[r] \in {"tunnel", "exchange", "body"} /\ r \notin ended
  /\ ended' = ended \cup {r}
  /\ UNCHANGED <<server, pc, request, answer, addr, reply, gone, writing, dials>>

(* The copy has something to write, and the other end's buffers are full.  *)
(* It may stay so while an end closes; what is in flight then is finite,   *)
(* and a Write that would begin later is not distinguished from this one.  *)
WriteBlocks(r, c) ==
  /\ pc[r] = "tunnel" \/ (pc[r] = "body" /\ c = "down")
  /\ r \notin gone \cup ended /\ <<r, c>> \notin writing
  /\ writing' = writing \cup {<<r, c>>}
  /\ UNCHANGED <<server, pc, request, answer, addr, reply, ends, dials>>

(* That end reads again. *)
EndReads(r, c) ==
  /\ <<r, c>> \in writing /\ r \notin Left(Opposite(c))
  /\ writing' = writing \ {<<r, c>>}
  /\ UNCHANGED <<server, pc, request, answer, addr, reply, ends, dials>>

(* Closing the server closes its connections, except those of tunnels,     *)
(* which were taken from it (hijacked).                                    *)
Serving == {r \in Requests : pc[r] \notin {"none", "tunnel", "done"}}
Close ==
  /\ server = "serving"
  /\ server' = "closed"
  /\ gone' = gone \cup Serving
  /\ UNCHANGED <<pc, request, answer, addr, reply, ended, writing, dials>>

Handler(r) == \/ BadRequest(r) \/ Forbidden(r) \/ Resolve(r)
              \/ DialTunnel(r) \/ DialAndSend(r) \/ ExchangeFails(r)
              \/ BodyCopied(r) \/ TunnelEnds(r)

Next == \/ Close
        \/ \E r \in Requests : \/ Handler(r) \/ Arrive(r) \/ Respond(r)
                               \/ TunnelWriteFails(r)
                               \/ ClientGone(r) \/ DestinationEnds(r)
                               \/ \E c \in Copies : \/ WriteBlocks(r, c)
                                                   \/ EndReads(r, c)

Spec == Init /\ [][Next]_vars

(* Lookups and dials end, with an answer or a timeout, and a copy returns  *)
(* once it can see that an end has closed.  The ends read in the end what  *)
(* is written to them, or close: without that a copy stays in its Write.   *)
(* Nothing makes a destination answer or close.                            *)
FairSpec ==
  /\ Spec
  /\ \A r \in Requests : /\ WF_vars(Handler(r))
                         /\ \A c \in Copies : WF_vars(EndReads(r, c))

-----------------------------------------------------------------------------
(* Every variable keeps its type. *)
TypeOK ==
  /\ server \in {"serving", "closed"}
  /\ pc \in [Requests -> Labels]
  /\ method \in [Requests -> Methods]
  /\ port \in [Requests -> Ports]
  /\ answer \in [Requests -> {<<>>} \cup Answers]
  /\ addr \in [Requests -> Addresses \cup {NoAddress}]
  /\ reply \in [Requests -> Replies]
  /\ gone \subseteq Requests /\ ended \subseteq Requests
  /\ dials \subseteq [to : Addresses, port : Ports, answer : Answers]
  /\ writing \subseteq {r \in Requests : pc[r] \in {"tunnel", "body"}} \X Copies

(* "blocks traffic to loopback, private (RFC 1918/CGNAT), link-local ...   *)
(* addresses" (README.md:20), but for the ports the user allowed on        *)
(* loopback.  It holds of every address that is dialed, whatever a lookup  *)
(* of the same name returns before or after the check.                     *)
Permitted(a, p) == a \in Public \/ (a \in Loopback /\ p \in AllowPorts)
OnlyPermitted == \A d \in dials : Permitted(d.to, d.port)

(* A name with one address that is not permitted is refused as a whole,    *)
(* also when the others are public (proxy.go:249-272).                     *)
MixedRefused ==
  \A d \in dials : \A a \in Range(d.answer) : Permitted(a, d.port)

(* "The proxy dials the IP it validated": the address is one of those the  *)
(* check was about, and a service of the host wins over the network: when  *)
(* one of the addresses is loopback, so is the one dialed (README.md:20,   *)
(* proxy.go:260-272).                                                      *)
DialsChecked ==
  \A d \in dials :
    /\ d.to \in Range(d.answer)
    /\ Range(d.answer) \cap Loopback # {} => d.to \in Loopback
    /\ Range(d.answer) \cap Loopback4 # {} => d.to \in Loopback4

(* No handler, and so no connection, outlives an end of it: once the       *)
(* client has gone, or the destination has closed, the handler ends, also  *)
(* when a copy is then blocked in a Write to the other end (which reads    *)
(* again in the end, FairSpec) (proxy.go:158-182, 206-226).                *)
HandlersEnd ==
  \A r \in Requests : (r \in gone \cup ended) ~> (pc[r] = "done")
=============================================================================
