-------------------------------- MODULE Relay --------------------------------
(***************************************************************************)
(* One connection from a process in the sandbox to a service outside, and  *)
(* the relays it goes through (proxy.go:60-79, 316-349):                   *)
(*                                                                         *)
(*   client -TCP- RunSandboxProxy -unix- PortProxy -TCP- server            *)
(*                                                                         *)
(* In place of the PortProxy there may be the HTTP proxy with a tunnel     *)
(* (proxy.go:146-178), whose copying is the same.  Relay k joins link k,   *)
(* on its left, to link k+1, which it dials.  It runs one copy (io.Copy)   *)
(* in each direction and closes both connections when one of them ends.    *)
(* "up" is from the client to the server, "down" is back.                  *)
(*                                                                         *)
(* Data is counted in chunks: what io.Copy reads and writes at once.       *)
(***************************************************************************)
EXTENDS Naturals, FiniteSets

CONSTANTS NRelays,  \* number of relays: 2 in the code
          Capacity, \* chunks a link holds in each direction
          MaxSent   \* bound: chunks the client, and the server, send

ASSUME RelayAssumption ==
  NRelays \in Nat \ {0} /\ Capacity \in Nat \ {0} /\ MaxSent \in Nat

Relays == 1..NRelays
Links == 1..(NRelays + 1)
Dirs == {"up", "down"}
Ends == {"left", "right"} \X Links

Other(d) == IF d = "up" THEN "down" ELSE "up"

(* The end of a link that writes, or reads, in a direction; the links a    *)
(* relay copies from and to.                                               *)
Writer(d, l) == <<IF d = "up" THEN "left" ELSE "right", l>>
Reader(d, l) == Writer(Other(d), l)
From(d, k) == IF d = "up" THEN k ELSE k + 1
To(d, k) == IF d = "up" THEN k + 1 ELSE k

VARIABLES
  client, \* "open", "half" (it has ended its sending) or "closed"
  server, \* "none", "open", "closed" or "refused"
  relay,  \* per relay: where its handler is
  copy,   \* per direction and relay: where its io.Copy is
  buf,    \* per direction and link: chunks written and not yet read
  fin,    \* the ends that will write no more
  shut,   \* the ends that are closed
  sent,   \* chunks the client has sent up, and the server down
  got     \* chunks the server has got from up, and the client from down

vars == <<client, server, relay, copy, buf, fin, shut, sent, got>>

Init ==
  /\ client = "open" /\ server = "none"
  /\ relay = [k \in Relays |-> IF k = 1 THEN "dial" ELSE "none"]
  /\ copy = [d \in Dirs |-> [k \in Relays |-> "none"]]
  /\ buf = [d \in Dirs |-> [l \in Links |-> 0]]
  /\ fin = {} /\ shut = {}
  /\ sent = [d \in Dirs |-> 0]
  /\ got = [d \in Dirs |-> 0]

-----------------------------------------------------------------------------
(* Connections.                                                            *)

(* A read that finds nothing counts as the end. *)
AtEndOrEmpty(d, l) == buf[d][l] = 0

(* A read returns nothing but an error or the end of the stream. *)
AtEnd(d, l) ==
  /\ buf[d][l] = 0
  /\ Writer(d, l) \in fin \/ Reader(d, l) \in shut

(* What was not read is dropped when the reader closes; the peer is then   *)
(* reset, and may lose what was under way to it.                           *)
CloseEnd(side, l) ==
  LET out == IF side = "left" THEN "up" ELSE "down"
      in == Other(out)
  IN /\ fin' = fin \cup {<<side, l>>}
     /\ shut' = shut \cup {<<side, l>>}
     /\ \E rest \in 0..buf[out][l] :
          /\ buf[in][l] = 0 => rest = buf[out][l]
          /\ buf' = [buf EXCEPT ![in][l] = 0, ![out][l] = rest]

-----------------------------------------------------------------------------
(* The relays.                                                             *)

(* A relay dials its right link and the next one, or the server, accepts.  *)
Dial(k) ==
  /\ relay[k] = "dial"
  /\ relay' = [i \in Relays |-> IF i = k THEN "copy"
                                ELSE IF i = k + 1 THEN "dial" ELSE relay[i]]
  /\ copy' = [d \in Dirs |-> [copy[d] EXCEPT ![k] = "read"]]
  /\ server' = IF k = NRelays THEN "open" ELSE server
  /\ UNCHANGED <<client, buf, fin, shut, sent, got>>

DialFails(k) ==
  /\ relay[k] = "dial"
  /\ relay' = [relay EXCEPT ![k] = "closeLeft"]
  /\ server' = "refused"
  /\ UNCHANGED <<client, copy, buf, fin, shut, sent, got>>

(* A read of nothing counts as a chunk. *)
CopyReadNothing(d, k) ==
  /\ copy[d][k] = "read"
  /\ buf' = [buf EXCEPT ![d][From(d, k)] = @ - 1]
  /\ copy' = [copy EXCEPT ![d][k] = "write"]
  /\ UNCHANGED <<client, server, relay, fin, shut, sent, got>>

(* The last chunk is read together with the end, and dropped. *)
CopyReadLast(d, k) ==
  /\ copy[d][k] = "read" /\ buf[d][From(d, k)] > 0
  /\ buf' = [buf EXCEPT ![d][From(d, k)] = @ - 1]
  /\ copy' = [copy EXCEPT ![d][k] =
                IF buf[d][From(d, k)] = 1 /\ Writer(d, From(d, k)) \in fin
                THEN "done" ELSE "write"]
  /\ UNCHANGED <<client, server, relay, fin, shut, sent, got>>

(* io.Copy reads a chunk and writes it, until a read or a write fails. *)
CopyRead(d, k) ==
  /\ copy[d][k] = "read" /\ buf[d][From(d, k)] > 0
  /\ buf' = [buf EXCEPT ![d][From(d, k)] = @ - 1]
  /\ copy' = [copy EXCEPT ![d][k] = "write"]
  /\ UNCHANGED <<client, server, relay, fin, shut, sent, got>>

CopyEnds(d, k) ==
  /\ copy[d][k] = "read" /\ AtEnd(d, From(d, k))
  /\ copy' = [copy EXCEPT ![d][k] = "done"]
  /\ UNCHANGED <<client, server, relay, buf, fin, shut, sent, got>>

Open(d, l) == {Writer(d, l), Reader(d, l)} \cap shut = {}

(* What could not be written is dropped, and the copy goes on. *)
CopyWriteShort(d, k) ==
  /\ copy[d][k] = "write" /\ Open(d, To(d, k))
  /\ buf' = [buf EXCEPT ![d][To(d, k)] = IF @ < Capacity THEN @ + 1 ELSE @]
  /\ copy' = [copy EXCEPT ![d][k] = "read"]
  /\ UNCHANGED <<client, server, relay, fin, shut, sent, got>>

CopyWrite(d, k) ==
  /\ copy[d][k] = "write" /\ Open(d, To(d, k))
  /\ buf[d][To(d, k)] < Capacity
  /\ buf' = [buf EXCEPT ![d][To(d, k)] = @ + 1]
  /\ copy' = [copy EXCEPT ![d][k] = "read"]
  /\ UNCHANGED <<client, server, relay, fin, shut, sent, got>>

(* A write after an end was closed fails, or, if it was the other end, is  *)
(* dropped.                                                                *)
CopyWriteFails(d, k) ==
  /\ copy[d][k] = "write" /\ ~Open(d, To(d, k))
  /\ \/ copy' = [copy EXCEPT ![d][k] = "done"]
     \/ /\ Writer(d, To(d, k)) \notin shut
        /\ copy' = [copy EXCEPT ![d][k] = "read"]
  /\ UNCHANGED <<client, server, relay, buf, fin, shut, sent, got>>

(* Both copies have to end. *)
FirstDoneBoth(k) ==
  /\ relay[k] = "copy" /\ \A d \in Dirs : copy[d][k] = "done"
  /\ relay' = [relay EXCEPT ![k] = "closeRight"]
  /\ UNCHANGED <<client, server, copy, buf, fin, shut, sent, got>>

(* <-done: the handler returns, and its deferred calls close the right     *)
(* connection and then the left one.                                       *)
FirstDone(k) ==
  /\ relay[k] = "copy" /\ \E d \in Dirs : copy[d][k] = "done"
  /\ relay' = [relay EXCEPT ![k] = "closeRight"]
  /\ UNCHANGED <<client, server, copy, buf, fin, shut, sent, got>>

CloseRight(k) ==
  /\ relay[k] = "closeRight"
  /\ CloseEnd("left", k + 1)
  /\ relay' = [relay EXCEPT ![k] = "closeLeft"]
  /\ UNCHANGED <<client, server, copy, sent, got>>

CloseLeftNot(k) ==
  /\ relay[k] = "closeLeft"
  /\ relay' = [relay EXCEPT ![k] = "closed"]
  /\ UNCHANGED <<client, server, copy, sent, got, buf, fin, shut>>

CloseLeft(k) ==
  /\ relay[k] = "closeLeft"
  /\ CloseEnd("right", k)
  /\ relay' = [relay EXCEPT ![k] = "closed"]
  /\ UNCHANGED <<client, server, copy, sent, got>>

-----------------------------------------------------------------------------
(* The client and the server.                                              *)

Last == NRelays + 1
EndLink(d) == IF d = "up" THEN 1 ELSE Last
Sends(d) == IF d = "up" THEN client = "open" ELSE server = "open"
Reads(d) == IF d = "up" THEN server = "open" ELSE client \in {"open", "half"}

Send(d) ==
  /\ Sends(d) /\ sent[d] < MaxSent
  /\ Open(d, EndLink(d)) /\ buf[d][EndLink(d)] < Capacity
  /\ buf' = [buf EXCEPT ![d][EndLink(d)] = @ + 1]
  /\ sent' = [sent EXCEPT ![d] = @ + 1]
  /\ UNCHANGED <<client, server, relay, copy, fin, shut, got>>

(* It is dropped, though the sender may not notice. *)
SendDropped(d) ==
  /\ Sends(d) /\ sent[d] < MaxSent /\ ~Open(d, EndLink(d))
  /\ sent' = [sent EXCEPT ![d] = @ + 1]
  /\ UNCHANGED <<client, server, relay, copy, buf, fin, shut, got>>

Receive(d) ==
  LET l == EndLink(Other(d)) IN
  /\ Reads(d) /\ buf[d][l] > 0
  /\ buf' = [buf EXCEPT ![d][l] = @ - 1]
  /\ got' = [got EXCEPT ![d] = @ + 1]
  /\ UNCHANGED <<client, server, relay, copy, fin, shut, sent>>

ClientHalfCloses ==
  /\ client = "open"
  /\ client' = "half"
  /\ fin' = fin \cup {<<"left", 1>>}
  /\ UNCHANGED <<server, relay, copy, buf, shut, sent, got>>

ClientCloses ==
  /\ client # "closed"
  /\ client' = "closed"
  /\ CloseEnd("left", 1)
  /\ UNCHANGED <<server, relay, copy, sent, got>>

ServerCloses ==
  /\ server = "open"
  /\ server' = "closed"
  /\ CloseEnd("right", Last)
  /\ UNCHANGED <<client, relay, copy, sent, got>>

Copying(d, k) == \/ CopyRead(d, k) \/ CopyEnds(d, k)
                 \/ CopyWrite(d, k) \/ CopyWriteFails(d, k)
Handling(k) == \/ Dial(k) \/ DialFails(k) \/ FirstDone(k)
               \/ CloseRight(k) \/ CloseLeft(k)

Next == \/ \E k \in Relays : Handling(k) \/ \E d \in Dirs : Copying(d, k)
        \/ \E d \in Dirs : Send(d) \/ SendDropped(d) \/ Receive(d)
        \/ ClientHalfCloses \/ ClientCloses \/ ServerCloses

Spec == Init /\ [][Next]_vars

(* The scheduler runs every goroutine.  The client and the server read     *)
(* what there is to read until they close; nothing makes them close.       *)
FairSpec ==
  /\ Spec
  /\ \A k \in Relays : /\ WF_vars(Handling(k))
                       /\ \A d \in Dirs : WF_vars(Copying(d, k))
  /\ \A d \in Dirs : WF_vars(Receive(d))

-----------------------------------------------------------------------------
(* Every variable keeps its type. *)
TypeOK ==
  /\ client \in {"open", "half", "closed"}
  /\ server \in {"none", "open", "closed", "refused"}
  /\ relay \in [Relays -> {"none", "dial", "copy", "closeRight", "closeLeft",
                           "closed"}]
  /\ copy \in [Dirs -> [Relays -> {"none", "read", "write", "done"}]]
  /\ buf \in [Dirs -> [Links -> 0..Capacity]]
  /\ fin \subseteq Ends /\ shut \subseteq Ends
  /\ sent \in [Dirs -> 0..MaxSent]
  /\ got \in [Dirs -> Nat]

Writing(c) == {k \in Relays : c[k] = "write"}
Chunks(b) == {p \in Links \X (1..Capacity) : p[2] <= b[p[1]]}
Held(d) == Cardinality(Writing(copy[d]))
Total(d) == Cardinality(Chunks(buf[d]))

(* While nobody has ended a stream, every chunk that was sent was received *)
(* or is under way, in a link or in a copy: none is lost or doubled.       *)
Conserved ==
  fin = {} => \A d \in Dirs : sent[d] = got[d] + Total(d) + Held(d)

(* A connection without traffic stays open: a relay closes only after the  *)
(* client or the server has ended its stream, or a dial has failed         *)
(* (proxy.go:60-79).                                                       *)
OpenWhileUsed ==
  (\E k \in Relays : relay[k] \in {"closeRight", "closeLeft", "closed"}) =>
    client # "open" \/ server \in {"closed", "refused"}

(* When the server has read what the client sent, and closes after its     *)
(* response, and the client has not ended its own stream, the client sees  *)
(* the end of the stream only after the whole response, though the first   *)
(* copy that ends makes every relay close both its connections.            *)
CompleteResponse ==
  /\ server = "closed" /\ client = "open"
  /\ got["up"] = sent["up"]
  /\ AtEnd("down", 1)
  => got["down"] = sent["down"]

(* No relay, and so no connection, outlives the client, the server or a    *)
(* dial that failed: in the end all ends are closed but, perhaps, those of *)
(* the client and the server (proxy.go:61-66, 334-340).                    *)
Over == client = "closed" \/ server \in {"closed", "refused"}
AllClosed ==
  \A k \in Relays : /\ relay[k] \in {"none", "closed"}
                    /\ relay[k] = "closed" => <<"right", k>> \in shut
ChainCloses == Over ~> AllClosed
=============================================================================
