--------------------------- MODULE SecretService ---------------------------
(***************************************************************************)
(* flar's Secret Service for agy (secretsvc.go:57-526): one listener, one  *)
(* goroutine per connection, a line-based handshake and then D-Bus         *)
(* messages, which arrive in pieces of any size through one buffered       *)
(* reader.  A connection's input is measured in words of four bytes; what  *)
(* each word holds follows from the script of its client.                  *)
(*                                                                         *)
(* An item of a script starts at word `at` and is                          *)
(*   [kind |-> "nul"], the byte a client starts with,                      *)
(*   [kind |-> "line", text |-> ...], a line of the handshake, or          *)
(*   [kind |-> "msg", endian, type, serial, method, fields, body], with    *)
(*   the lengths of the header fields and of the body in words.            *)
(***************************************************************************)
EXTENDS Integers, Sequences, FiniteSets

CONSTANTS Conns,    \* connections
          Scripts,  \* per connection: the scripts its client may have
          Pieces,   \* lengths of an item's beginning that may be sent alone
          OutCap    \* replies the socket holds until the client reads them

Header == 4  \* words
Align8(n) == n + (n % 2)

(* How a client lays out an item (external: the D-Bus specification). *)
Size(item) ==
  CASE item.kind = "nul" -> 1
    [] item.kind = "line" -> 2
    [] item.kind = "msg" -> Align8(Header + item.fields) + item.body

Items ==
  [at : Nat, kind : {"nul"}] \cup [at : Nat, kind : {"line"}, text : STRING]
  \cup [at : Nat, kind : {"msg"}, endian : {"little", "big"}, type : STRING,
        serial : Nat, method : STRING, fields : Nat, body : Nat]

(* Items follow each other without a gap, and messages follow BEGIN. *)
Laid(s) ==
  /\ Len(s) > 0 => s[1].at = 1
  /\ \A i \in 1..(Len(s) - 1) : s[i + 1].at = s[i].at + Size(s[i])
Begun(s, k) ==
  \E i \in DOMAIN s : i <= k /\ s[i].kind = "line" /\ s[i].text = "BEGIN"
WellFormed(s) ==
  /\ s \in Seq(Items) /\ Laid(s)
  /\ \A i \in DOMAIN s : /\ s[i].kind = "nul" => i = 1
                         /\ s[i].kind = "msg" <=> Begun(s, i - 1)

ASSUME ScriptsAssumption ==
  /\ OutCap \in Nat \ {0}
  /\ Pieces \subseteq Nat
  /\ \A c \in Conns : \A s \in Scripts[c] : WellFormed(s)

VARIABLES
  svc,      \* the listener: "start", "bound", "listening" or "down"
  script,   \* per connection: the script of its client
  conn,     \* per connection: "none", "queued", "nul", "sasl", "calls", "closed"
  gone,     \* the connections whose client has closed its end
  sent,     \* per connection: words the client has written
  fetched,  \* per connection: words read into the buffered reader
  pos,      \* per connection: words taken from the buffered reader
  serial,   \* per connection: outSerial
  pend,     \* per connection: <<>>, or the reply being written
  out,      \* per connection: replies in the socket
  got       \* per connection: replies the client has read

inVars == <<sent, fetched, pos>>
outVars == <<serial, pend, out, got>>
vars == <<svc, script, conn, gone, inVars, outVars>>

Serving == {"nul", "sasl", "calls"}

Init ==
  /\ svc = "start"
  /\ script \in {f \in [Conns -> UNION {Scripts[c] : c \in Conns}] :
                   \A c \in Conns : f[c] \in Scripts[c]}
  /\ conn = [c \in Conns |-> "none"]
  /\ gone = {}
  /\ sent = [c \in Conns |-> 0]
  /\ fetched = [c \in Conns |-> 0]
  /\ pos = [c \in Conns |-> 0]
  /\ serial = [c \in Conns |-> 0]
  /\ pend = [c \in Conns |-> <<>>]
  /\ out = [c \in Conns |-> <<>>]
  /\ got = [c \in Conns |-> <<>>]

-----------------------------------------------------------------------------
(* The answers.                                                            *)

SaslAnswer(text) ==
  CASE text = "AUTH EXTERNAL" -> "OK"
    [] text \in {"AUTH", "CANCEL"} -> "REJECTED"
    [] OTHER -> "ERROR"

(* What a method returns; Unlock and Lock echo the paths they are given. *)
Returns ==
  [Hello |-> "name", AddMatch |-> "empty", RemoveMatch |-> "empty",
   GetNameOwner |-> "name", Ping |-> "empty", GetMachineId |-> "guid",
   OpenSession |-> "session", Unlock |-> "paths", Lock |-> "paths",
   SearchItems |-> "item", ReadAlias |-> "collection",
   GetSecrets |-> "secret", GetSecret |-> "secret", Close |-> "empty",
   Get |-> "value"]

Dispatch(m) == IF m.method \in DOMAIN Returns THEN Returns[m.method]
                                              ELSE "UnknownMethod"

SaslReply(line) == [kind |-> SaslAnswer(line.text), to |-> 0, serial |-> 0]
ReplyOwnSerial(m, n) == [kind |-> Dispatch(m), to |-> n, serial |-> n]
Reply(m, n) == [kind |-> Dispatch(m), to |-> m.serial, serial |-> n]

-----------------------------------------------------------------------------
(* RunSecretService.                                                       *)

(* os.Remove and bind: the socket can be seen in the file system. *)
Bind == /\ svc = "start"
        /\ \/ svc' = "bound"
           \/ svc' = "down"
        /\ UNCHANGED <<script, conn, gone, inVars, outVars>>

Listen == /\ svc = "bound"
          /\ svc' = "listening"
          /\ UNCHANGED <<script, conn, gone, inVars, outVars>>

(* Every connection is served on a goroutine of its own. *)
LoopFreeAlone == \A c \in Conns : conn[c] \notin Serving
LoopFree == TRUE

Accept(c) ==
  /\ svc = "listening" /\ LoopFree
  /\ conn[c] = "queued"
  /\ conn' = [conn EXCEPT ![c] = "nul"]
  /\ UNCHANGED <<svc, script, gone, inVars, outVars>>

(* An Accept that fails ends the service, and its process. *)
AcceptFails ==
  /\ svc = "listening" /\ LoopFree
  /\ svc' = "down"
  /\ conn' = [c \in Conns |-> IF conn[c] = "none" THEN "none" ELSE "closed"]
  /\ UNCHANGED <<script, gone, inVars, outVars>>

-----------------------------------------------------------------------------
(* One connection: the buffered reader, the handshake, the messages.       *)

(* The item whose first word is the next word to be taken, if there is one *)
(* (there is none once a reader has lost count).                           *)
AtItem(c) == {i \in DOMAIN script[c] : script[c][i].at = pos[c] + 1}
NextItem(c) == script[c][CHOOSE i \in AtItem(c) : TRUE]
IsNext(c, kind) == AtItem(c) # {} /\ NextItem(c).kind = kind

(* The length readMessage computes from the two lengths in the header. *)
FrameLen(m) == Align8(Header + m.fields) + m.body
Framed(c) == IsNext(c, "msg") /\ NextItem(c).endian = "little"

(* How much the goroutine needs before it can go on. *)
Needed(c) ==
  CASE conn[c] = "nul" -> 1
    [] conn[c] = "sasl" -> 2
    [] conn[c] = "calls" -> IF Framed(c) THEN FrameLen(NextItem(c)) ELSE Header

Ready(c) == /\ conn[c] \in Serving /\ pend[c] = <<>>
            /\ fetched[c] - pos[c] >= Needed(c)
Starved(c) == /\ conn[c] \in Serving /\ pend[c] = <<>>
              /\ fetched[c] - pos[c] < Needed(c)

(* A read returns what has arrived, also of later items. *)
Fetch(c) ==
  /\ Starved(c) /\ fetched[c] < sent[c]
  /\ fetched' = [fetched EXCEPT ![c] = sent[c]]
  /\ UNCHANGED <<svc, script, conn, gone, sent, pos, outVars>>

(* A client that has gone is the end of the input. *)
EndOfInput(c) ==
  /\ Starved(c) /\ c \in gone /\ fetched[c] = sent[c]
  /\ conn' = [conn EXCEPT ![c] = "closed"]
  /\ UNCHANGED <<svc, script, gone, inVars, outVars>>

Take(c, n) == pos' = [pos EXCEPT ![c] = @ + n]

ReadNul(c) ==
  /\ Ready(c) /\ conn[c] = "nul"
  /\ conn' = [conn EXCEPT ![c] = IF IsNext(c, "nul") THEN "sasl" ELSE "closed"]
  /\ Take(c, 1)
  /\ UNCHANGED <<svc, script, gone, sent, fetched, outVars>>

(* BEGIN ends the handshake, with or without an AUTH before it.  What was  *)
(* read together with it stays in the reader for the messages.             *)
BeginAfreshReader(c) ==
  /\ Ready(c) /\ conn[c] = "sasl" /\ NextItem(c).text = "BEGIN"
  /\ conn' = [conn EXCEPT ![c] = "calls"]
  /\ pos' = [pos EXCEPT ![c] = fetched[c]]
  /\ UNCHANGED <<svc, script, gone, sent, fetched, outVars>>

Begin(c) ==
  /\ Ready(c) /\ conn[c] = "sasl" /\ NextItem(c).text = "BEGIN"
  /\ conn' = [conn EXCEPT ![c] = "calls"]
  /\ Take(c, 2)
  /\ UNCHANGED <<svc, script, gone, sent, fetched, outVars>>

SaslLine(c) ==
  /\ Ready(c) /\ conn[c] = "sasl" /\ NextItem(c).text # "BEGIN"
  /\ Take(c, 2)
  /\ pend' = [pend EXCEPT ![c] = <<SaslReply(NextItem(c))>>]
  /\ UNCHANGED <<svc, script, conn, gone, sent, fetched, serial, out, got>>

(* A message that is not a call is skipped; a call is dispatched. *)
ReadMessage(c) ==
  /\ Ready(c) /\ conn[c] = "calls" /\ Framed(c)
  /\ Take(c, FrameLen(NextItem(c)))
  /\ IF NextItem(c).type = "call"
     THEN /\ serial' = [serial EXCEPT ![c] = @ + 1]
          /\ pend' = [pend EXCEPT ![c] = <<Reply(NextItem(c), serial[c] + 1)>>]
     ELSE UNCHANGED <<serial, pend>>
  /\ UNCHANGED <<svc, script, conn, gone, sent, fetched, out, got>>

(* A header that is not one of a little-endian message. *)
BadMessage(c) ==
  /\ Ready(c) /\ conn[c] = "calls" /\ ~Framed(c)
  /\ conn' = [conn EXCEPT ![c] = "closed"]
  /\ Take(c, Header)
  /\ UNCHANGED <<svc, script, gone, sent, fetched, outVars>>

(* The write of a reply waits while the socket is full.  When the client   *)
(* has gone it fails: that ends the connection, but not the handshake.     *)
WriteReplyAnyway(c) ==
  /\ conn[c] \in Serving /\ pend[c] # <<>>
  /\ out' = [out EXCEPT ![c] = @ \o pend[c]]
  /\ pend' = [pend EXCEPT ![c] = <<>>]
  /\ UNCHANGED <<svc, script, conn, gone, inVars, serial, got>>

WriteReply(c) ==
  /\ conn[c] \in Serving /\ pend[c] # <<>>
  /\ \/ /\ c \notin gone /\ Len(out[c]) < OutCap
        /\ out' = [out EXCEPT ![c] = @ \o pend[c]]
        /\ UNCHANGED conn
     \/ /\ c \in gone
        /\ conn' = [conn EXCEPT ![c] = IF @ = "calls" THEN "closed" ELSE @]
        /\ UNCHANGED out
  /\ pend' = [pend EXCEPT ![c] = <<>>]
  /\ UNCHANGED <<svc, script, gone, inVars, serial, got>>

-----------------------------------------------------------------------------
(* The client (external): it writes ahead of the answers as far as it      *)
(* likes, any number of items and a piece of one, and may go at any time.  *)

Cuts(s) == UNION {{s[i].at - 1 + k : k \in {0, Size(s[i])} \cup
                     {n \in Pieces : n < Size(s[i])}} : i \in DOMAIN s}

Dial(c) == /\ svc = "listening" /\ conn[c] = "none"
           /\ conn' = [conn EXCEPT ![c] = "queued"]
           /\ UNCHANGED <<svc, script, gone, inVars, outVars>>

Write(c) ==
  /\ conn[c] \notin {"none", "closed"} /\ c \notin gone
  /\ \E n \in Cuts(script[c]) : n > sent[c] /\ sent' = [sent EXCEPT ![c] = n]
  /\ UNCHANGED <<svc, script, conn, gone, fetched, pos, outVars>>

ReadReply(c) ==
  /\ c \notin gone /\ out[c] # <<>>
  /\ got' = [got EXCEPT ![c] = Append(@, Head(out[c]))]
  /\ out' = [out EXCEPT ![c] = Tail(@)]
  /\ UNCHANGED <<svc, script, conn, gone, inVars, serial, pend>>

Leave(c) == /\ conn[c] # "none" /\ c \notin gone
            /\ gone' = gone \cup {c}
            /\ UNCHANGED <<svc, script, conn, inVars, outVars>>

-----------------------------------------------------------------------------
Serve(c) == \/ Fetch(c) \/ EndOfInput(c) \/ ReadNul(c) \/ Begin(c)
            \/ SaslLine(c) \/ ReadMessage(c) \/ BadMessage(c) \/ WriteReply(c)
Client(c) == Dial(c) \/ Write(c) \/ ReadReply(c) \/ Leave(c)

Next == \/ Bind \/ Listen \/ AcceptFails
        \/ \E c \in Conns : Accept(c) \/ Serve(c) \/ Client(c)

Spec == Init /\ [][Next]_vars

(* Goroutines that can run do, and a client that is still there reads.     *)
Fairness == /\ WF_vars(Bind \/ Listen)
            /\ \A c \in Conns : /\ WF_vars(Accept(c))
                                /\ WF_vars(Serve(c))
                                /\ WF_vars(ReadReply(c))

FairSpec == Spec /\ Fairness

-----------------------------------------------------------------------------
(* What the properties compare with: the answers a script should get.      *)

(* A big-endian message, or a wrong first byte, ends the connection. *)
Fatal(s, i) == \/ i = 1 /\ s[i].kind # "nul"
               \/ s[i].kind = "msg" /\ s[i].endian # "little"
Heard(s) == {i \in DOMAIN s : \A j \in 1..i : ~Fatal(s, j)}
Calls(s) == {i \in Heard(s) : s[i].kind = "msg" /\ s[i].type = "call"}
Lines(s) == {i \in Heard(s) : s[i].kind = "line" /\ s[i].text # "BEGIN"}
Answered(s) == Calls(s) \cup Lines(s)
AnswerTo(s, i) ==
  IF s[i].kind = "line" THEN SaslReply(s[i])
  ELSE [kind |-> Dispatch(s[i]), to |-> s[i].serial,
        serial |-> Cardinality({j \in Calls(s) : j <= i})]

AskedInFull(c) == {i \in DOMAIN script[c] :
                     script[c][i].at - 1 + Size(script[c][i]) <= sent[c]}

asked == [c \in Conns |-> Cardinality(AskedInFull(c))]
answers == [c \in Conns |-> got[c] \o out[c]]
Promise == INSTANCE CallServer

-----------------------------------------------------------------------------
(* Properties.                                                             *)

(* Words are taken in order (secretsvc.go:185, 204), a full socket holds no *)
(* more, and nobody is served by a service that is not there.              *)
TypeOK ==
  /\ svc \in {"start", "bound", "listening", "down"}
  /\ \A c \in Conns :
       /\ script[c] \in Scripts[c]
       /\ conn[c] \in Serving \cup {"none", "queued", "closed"}
       /\ 0 <= pos[c] /\ pos[c] <= fetched[c] /\ fetched[c] <= sent[c]
       /\ serial[c] \in Nat
       /\ Len(pend[c]) <= 1 /\ Len(out[c]) <= OutCap
       /\ svc # "listening" => conn[c] \in {"none", "closed"}
  /\ gone \subseteq Conns

(* Each question has its own answer, once and in order, with the serial of  *)
(* the call it answers (secretsvc.go:97-105, 483): CallServer.             *)
ServesCalls == Promise!Spec

(* A question sent in full is answered while its client stays, however it   *)
(* was cut up and whatever the other clients do (secretsvc.go:72, 78-94);   *)
(* a connection whose client has gone is closed, also when its goroutine is *)
(* in a write, in the handshake or half way through a message (77, 92, 104).*)
EveryCallAnswered(c) ==
  \A n \in UNION {1..Cardinality(Answered(s)) : s \in Scripts[c]} :
    Cardinality(Answered(script[c]) \cap AskedInFull(c)) >= n
      ~> Len(got[c]) >= n \/ c \in gone \/ svc = "down"
ConnReleased(c) == c \in gone ~> conn[c] = "closed"

Served == \A c \in Conns : EveryCallAnswered(c) /\ ConnReleased(c)
=============================================================================
