----------------------------- MODULE RelayProofs -----------------------------
(***************************************************************************)
(* Proofs about Relay, for any number of relays, any capacity of the links *)
(* and any amount of data.                                                 *)
(***************************************************************************)
EXTENDS Relay, FiniteSetTheorems, TLAPS

(* The ends of the links a relay or a party copies from and to are ends,   *)
(* and the links are links.                                                *)
LEMMA LinkTypes ==
  /\ \A d \in Dirs : /\ Other(d) \in Dirs
                     /\ EndLink(d) \in Links
  /\ \A d \in Dirs, k \in Relays : From(d, k) \in Links /\ To(d, k) \in Links
  /\ Last \in Links /\ 1 \in Links
  /\ \A k \in Relays : k \in Links /\ k + 1 \in Links
  BY RelayAssumption
  DEF Dirs, Other, EndLink, Links, Relays, From, To, Last

(* Closing an end keeps the types of the links. *)
LEMMA CloseEndTypes ==
  ASSUME NEW side \in {"left", "right"}, NEW l \in Links,
         TypeOK, CloseEnd(side, l)
  PROVE  /\ buf' \in [Dirs -> [Links -> 0..Capacity]]
         /\ fin' \subseteq Ends /\ shut' \subseteq Ends
<1> DEFINE out == IF side = "left" THEN "up" ELSE "down"
           in == Other(out)
<1>1. out \in Dirs /\ in \in Dirs
  BY DEF Dirs, Other
<1>2. PICK rest \in 0..buf[out][l] :
        buf' = [buf EXCEPT ![in][l] = 0, ![out][l] = rest]
  BY DEF CloseEnd
<1>3. buf[out][l] \in 0..Capacity /\ buf \in [Dirs -> [Links -> 0..Capacity]]
  BY <1>1 DEF TypeOK
<1>4. rest \in 0..Capacity /\ 0 \in 0..Capacity
  BY <1>2, <1>3, RelayAssumption
<1>5. buf' \in [Dirs -> [Links -> 0..Capacity]]
  BY <1>1, <1>2, <1>3, <1>4
<1>6. <<side, l>> \in Ends
  BY DEF Ends
<1> QED BY <1>5, <1>6 DEF CloseEnd, TypeOK

(* One chunk more, where there is room, or less, where there is one. *)
LEMMA OneChunk ==
  ASSUME NEW d \in Dirs, NEW l \in Links,
         buf \in [Dirs -> [Links -> 0..Capacity]],
         \/ /\ buf[d][l] < Capacity
            /\ buf' = [buf EXCEPT ![d][l] = @ + 1]
         \/ /\ buf[d][l] > 0
            /\ buf' = [buf EXCEPT ![d][l] = @ - 1]
  PROVE  buf' \in [Dirs -> [Links -> 0..Capacity]]
<1>1. buf[d][l] \in 0..Capacity
  OBVIOUS
<1>2. CASE buf[d][l] < Capacity /\ buf' = [buf EXCEPT ![d][l] = @ + 1]
  <2>1. buf[d][l] + 1 \in 0..Capacity
    BY <1>1, <1>2, RelayAssumption
  <2> QED BY <1>2, <2>1
<1>3. CASE buf[d][l] > 0 /\ buf' = [buf EXCEPT ![d][l] = @ - 1]
  <2>1. buf[d][l] - 1 \in 0..Capacity
    BY <1>1, <1>3, RelayAssumption
  <2> QED BY <1>3, <2>1
<1> QED BY <1>2, <1>3

(* The type invariant holds in every reachable state. *)
THEOREM TypeCorrect == Spec => []TypeOK
<1>1. Init => TypeOK
  BY RelayAssumption DEF Init, TypeOK
<1>2. TypeOK /\ [Next]_vars => TypeOK'
  <2> SUFFICES ASSUME TypeOK, [Next]_vars PROVE TypeOK'
    OBVIOUS
  <2> USE RelayAssumption, LinkTypes
  <2>1. CASE UNCHANGED vars
    BY <2>1 DEF vars, TypeOK
  <2>2. ASSUME NEW k \in Relays, Handling(k) PROVE TypeOK'
    <3>1. CASE Dial(k)
      BY <3>1 DEF Dial, TypeOK
    <3>2. CASE DialFails(k) \/ FirstDone(k)
      BY <3>2 DEF DialFails, FirstDone, TypeOK
    <3>3. CASE CloseRight(k)
      BY <3>3, CloseEndTypes DEF CloseRight, TypeOK
    <3>4. CASE CloseLeft(k)
      BY <3>4, CloseEndTypes DEF CloseLeft, TypeOK
    <3> QED BY <2>2, <3>1, <3>2, <3>3, <3>4 DEF Handling
  <2>3. ASSUME NEW k \in Relays, NEW d \in Dirs, Copying(d, k) PROVE TypeOK'
    <3>1. CASE CopyRead(d, k)
      <4>1. buf' \in [Dirs -> [Links -> 0..Capacity]]
        BY <3>1, OneChunk DEF CopyRead, TypeOK
      <4> QED BY <3>1, <4>1 DEF CopyRead, TypeOK
    <3>2. CASE CopyEnds(d, k) \/ CopyWriteFails(d, k)
      <4>1. \/ copy' = [copy EXCEPT ![d][k] = "done"]
            \/ copy' = [copy EXCEPT ![d][k] = "read"]
        BY <3>2 DEF CopyEnds, CopyWriteFails
      <4>2. copy' \in [Dirs -> [Relays -> {"none", "read", "write", "done"}]]
        <5>1. copy[d] \in [Relays -> {"none", "read", "write", "done"}]
          BY DEF TypeOK
        <5>2. PICK c \in {"read", "done"} :
                copy' = [copy EXCEPT ![d] = [copy[d] EXCEPT ![k] = c]]
          BY <4>1
        <5>3. [copy[d] EXCEPT ![k] = c]
                \in [Relays -> {"none", "read", "write", "done"}]
          BY <5>1
        <5> QED BY <5>2, <5>3 DEF TypeOK
      <4> QED BY <3>2, <4>2 DEF CopyEnds, CopyWriteFails, TypeOK
    <3>3. CASE CopyWrite(d, k)
      <4>1. buf' \in [Dirs -> [Links -> 0..Capacity]]
        BY <3>3, OneChunk DEF CopyWrite, TypeOK
      <4> QED BY <3>3, <4>1 DEF CopyWrite, TypeOK
    <3> QED BY <2>3, <3>1, <3>2, <3>3 DEF Copying
  <2>4. ASSUME NEW d \in Dirs, Send(d) \/ SendDropped(d) PROVE TypeOK'
    <3>1. buf' \in [Dirs -> [Links -> 0..Capacity]]
      BY <2>4, OneChunk DEF Send, SendDropped, TypeOK
    <3>2. sent[d] + 1 \in 0..MaxSent
      BY <2>4 DEF Send, SendDropped, TypeOK
    <3>3. sent' \in [Dirs -> 0..MaxSent]
      BY <2>4, <3>2 DEF Send, SendDropped, TypeOK
    <3> QED BY <2>4, <3>1, <3>3 DEF Send, SendDropped, TypeOK
  <2>5. ASSUME NEW d \in Dirs, Receive(d) PROVE TypeOK'
    <3>1. buf' \in [Dirs -> [Links -> 0..Capacity]]
      BY <2>5, OneChunk DEF Receive, TypeOK
    <3>2. got' \in [Dirs -> Nat]
      BY <2>5 DEF Receive, TypeOK
    <3> QED BY <2>5, <3>1, <3>2 DEF Receive, TypeOK
  <2>6. CASE ClientHalfCloses
    BY <2>6 DEF ClientHalfCloses, TypeOK, Ends
  <2>7. CASE ClientCloses \/ ServerCloses
    BY <2>7, CloseEndTypes DEF ClientCloses, ServerCloses, TypeOK
  <2> QED BY <2>1, <2>2, <2>3, <2>4, <2>5, <2>6, <2>7 DEF Next
<1> QED BY <1>1, <1>2, PTL DEF Spec

-----------------------------------------------------------------------------
(* The relays dial one after the other, and the last one of them dials the *)
(* server.                                                                 *)
Dialing ==
  \A k \in Relays :
    relay[k] = "dial" =>
      /\ server = "none"
      /\ \A i \in Relays : i > k => relay[i] = "none"

(* Dialing holds in every reachable state. *)
LEMMA DialingInvariant == Spec => []Dialing
<1>1. Init => Dialing
  BY RelayAssumption DEF Init, Dialing, Relays
<1>2. TypeOK /\ Dialing /\ [Next]_vars => Dialing'
  <2> SUFFICES ASSUME TypeOK, Dialing, [Next]_vars PROVE Dialing'
    OBVIOUS
  <2> USE DEF TypeOK, Dialing
  <2>1. ASSUME NEW k \in Relays, Dial(k) PROVE Dialing'
    <3>1. /\ relay[k] = "dial" /\ server = "none"
          /\ \A i \in Relays : i > k => relay[i] = "none"
      BY <2>1 DEF Dial
    <3>2. \A i \in Relays : relay'[i] = IF i = k THEN "copy"
                                       ELSE IF i = k + 1 THEN "dial"
                                       ELSE relay[i]
      BY <2>1 DEF Dial
    <3>3. server' = IF k = NRelays THEN "open" ELSE server
      BY <2>1 DEF Dial
    <3>4. ASSUME NEW j \in Relays, relay'[j] = "dial"
          PROVE  j = k + 1
      BY <3>1, <3>2, <3>4, RelayAssumption DEF Relays
    <3>5. ASSUME NEW j \in Relays, j = k + 1
          PROVE  /\ server' = "none"
                 /\ \A i \in Relays : i > j => relay'[i] = "none"
      BY <3>1, <3>2, <3>3, <3>5, RelayAssumption DEF Relays
    <3> QED BY <3>4, <3>5
  <2>2. ASSUME NEW k \in Relays, DialFails(k) PROVE Dialing'
    <3>1. \A i \in Relays : relay'[i] # "dial"
      BY <2>2, RelayAssumption DEF DialFails, Relays
    <3> QED BY <3>1
  <2>3. ASSUME NEW k \in Relays,
               FirstDone(k) \/ CloseRight(k) \/ CloseLeft(k)
        PROVE  Dialing'
    BY <2>3 DEF FirstDone, CloseRight, CloseLeft
  <2>4. ASSUME UNCHANGED <<relay, server>> PROVE Dialing'
    BY <2>4
  <2>5. CASE ServerCloses
    BY <2>5 DEF ServerCloses
  <2>6. ASSUME NEW k \in Relays, NEW d \in Dirs, Copying(d, k)
        PROVE  UNCHANGED <<relay, server>>
    BY <2>6 DEF Copying, CopyRead, CopyEnds, CopyWrite, CopyWriteFails
  <2>7. ASSUME NEW d \in Dirs, Send(d) \/ SendDropped(d) \/ Receive(d)
        PROVE  UNCHANGED <<relay, server>>
    BY <2>7 DEF Send, SendDropped, Receive
  <2>8. CASE ClientHalfCloses \/ ClientCloses \/ UNCHANGED vars
    BY <2>4, <2>8 DEF ClientHalfCloses, ClientCloses, vars
  <2> QED BY <2>1, <2>2, <2>3, <2>4, <2>5, <2>6, <2>7, <2>8
             DEF Next, Handling
<1> QED BY <1>1, <1>2, TypeCorrect, PTL DEF Spec

(* The inductive invariant behind OpenWhileUsed: nothing has ended in the  *)
(* links, the copies or the relays while the client and the server go on.  *)
InUse == client = "open" /\ server \notin {"closed", "refused"}
Quiet ==
  InUse => /\ fin = {} /\ shut = {}
           /\ \A d \in Dirs, k \in Relays : copy[d][k] # "done"
           /\ \A k \in Relays :
                relay[k] \notin {"closeRight", "closeLeft", "closed"}

(* Quiet holds in every reachable state. *)
LEMMA QuietInvariant == Spec => []Quiet
<1>1. Init => Quiet
  BY DEF Init, Quiet
<1>2. TypeOK /\ Dialing /\ Quiet /\ [Next]_vars => Quiet'
  <2> SUFFICES ASSUME TypeOK, Dialing, Quiet, [Next]_vars, InUse' PROVE Quiet'
    BY DEF Quiet
  <2> USE DEF Quiet, InUse, TypeOK
  <2>1. CASE UNCHANGED vars
    BY <2>1 DEF vars
  <2>2. ASSUME NEW k \in Relays, Handling(k) PROVE Quiet'
    <3>1. CASE Dial(k)
      <4>1. InUse
        BY <3>1 DEF Dial, Dialing
      <4>2. \A i \in Relays : \/ relay'[i] = relay[i]
                             \/ relay'[i] \in {"copy", "dial"}
        BY <3>1 DEF Dial
      <4>3. \A d \in Dirs, i \in Relays : \/ copy'[d][i] = copy[d][i]
                                         \/ copy'[d][i] = "read"
        BY <3>1 DEF Dial
      <4> QED BY <3>1, <4>1, <4>2, <4>3 DEF Dial
    <3>2. CASE DialFails(k)
      BY <3>2 DEF DialFails
    <3>3. CASE FirstDone(k) \/ CloseRight(k) \/ CloseLeft(k)
      BY <3>3 DEF FirstDone, CloseRight, CloseLeft
    <3> QED BY <2>2, <3>1, <3>2, <3>3 DEF Handling
  <2>3. ASSUME NEW k \in Relays, NEW d \in Dirs, Copying(d, k) PROVE Quiet'
    <3>1. CASE CopyRead(d, k) \/ CopyWrite(d, k)
      <4>1. PICK c \in {"read", "write"} : copy' = [copy EXCEPT ![d][k] = c]
        BY <3>1 DEF CopyRead, CopyWrite
      <4>2. ASSUME NEW e \in Dirs, NEW i \in Relays
            PROVE  copy'[e][i] \in {copy[e][i], c}
        <5>1. copy[e] \in [Relays -> {"none", "read", "write", "done"}]
          OBVIOUS
        <5>2. copy'[e] = IF e = d THEN [copy[d] EXCEPT ![k] = c] ELSE copy[e]
          BY <4>1
        <5>3. [copy[e] EXCEPT ![k] = c][i] = IF i = k THEN c ELSE copy[e][i]
          BY <5>1
        <5> QED BY <5>2, <5>3
      <4>3. \A e \in Dirs, i \in Relays :
              copy[e][i] # "done" => copy'[e][i] # "done"
        BY <4>1, <4>2
      <4> QED BY <3>1, <4>3 DEF CopyRead, CopyWrite
    <3>2. CASE CopyEnds(d, k)
      BY <3>2 DEF CopyEnds, AtEnd
    <3>3. CASE CopyWriteFails(d, k)
      BY <3>3 DEF CopyWriteFails, Open
    <3> QED BY <2>3, <3>1, <3>2, <3>3 DEF Copying
  <2>4. ASSUME NEW d \in Dirs, Send(d) \/ SendDropped(d) \/ Receive(d)
        PROVE  Quiet'
    BY <2>4 DEF Send, SendDropped, Receive
  <2>5. CASE ClientHalfCloses \/ ClientCloses \/ ServerCloses
    BY <2>5 DEF ClientHalfCloses, ClientCloses, ServerCloses
  <2> QED BY <2>1, <2>2, <2>3, <2>4, <2>5 DEF Next
<1> QED BY <1>1, <1>2, TypeCorrect, DialingInvariant, PTL DEF Spec

(* A relay closes only after the client or the server has ended its        *)
(* stream, or a dial has failed.                                           *)
THEOREM OpenWhileUsedHolds == Spec => []OpenWhileUsed
<1>1. TypeOK /\ Quiet => OpenWhileUsed
  BY DEF TypeOK, Quiet, InUse, OpenWhileUsed
<1> QED BY <1>1, TypeCorrect, QuietInvariant, PTL

-----------------------------------------------------------------------------
(* Counting the chunks that are under way.                                 *)

LEMMA ChunksFinite ==
  ASSUME NEW b \in [Links -> 0..Capacity]
  PROVE  IsFiniteSet(Chunks(b)) /\ Cardinality(Chunks(b)) \in Nat
<1>1. IsFiniteSet(Links) /\ IsFiniteSet(1..Capacity)
  BY RelayAssumption, FS_Interval DEF Links
<1>2. IsFiniteSet(Links \X (1..Capacity))
  BY <1>1, FS_Product
<1>3. Chunks(b) \in SUBSET (Links \X (1..Capacity))
  BY DEF Chunks
<1> QED BY <1>2, <1>3, FS_Subset, FS_CardinalityType

LEMMA ChunksPlus ==
  ASSUME NEW b \in [Links -> 0..Capacity], NEW l \in Links, b[l] < Capacity
  PROVE  Cardinality(Chunks([b EXCEPT ![l] = b[l] + 1]))
           = Cardinality(Chunks(b)) + 1
<1> DEFINE c == [b EXCEPT ![l] = b[l] + 1]
           x == <<l, b[l] + 1>>
<1>1. b[l] \in Nat /\ b[l] + 1 \in 1..Capacity
  BY RelayAssumption
<1>2. x \in Links \X (1..Capacity) /\ x[1] = l /\ x[2] = b[l] + 1
  BY <1>1
<1>3. x \notin Chunks(b)
  BY <1>1, <1>2 DEF Chunks
<1>4. ASSUME NEW p \in Links \X (1..Capacity)
      PROVE  p[2] <= c[p[1]] <=> p[2] <= b[p[1]] \/ p = x
  <2>1. p[1] \in Links /\ p[2] \in Nat /\ p = <<p[1], p[2]>>
    OBVIOUS
  <2>2. CASE p[1] = l
    <3>1. c[p[1]] = b[l] + 1
      BY <2>2
    <3>2. p = x <=> p[2] = b[l] + 1
      BY <2>1, <2>2
    <3> QED BY <1>1, <2>1, <2>2, <3>1, <3>2
  <2>3. CASE p[1] # l
    BY <1>2, <2>1, <2>3
  <2> QED BY <2>2, <2>3
<1>5. Chunks(c) = Chunks(b) \cup {x}
  <2> HIDE DEF c, x
  <2> QED BY <1>2, <1>4, Zenon DEF Chunks
<1>6. Cardinality(Chunks(b) \cup {x}) = Cardinality(Chunks(b)) + 1
  BY <1>3, ChunksFinite, FS_AddElement
<1> QED BY <1>5, <1>6

LEMMA ChunksMinus ==
  ASSUME NEW b \in [Links -> 0..Capacity], NEW l \in Links, b[l] > 0
  PROVE  Cardinality(Chunks([b EXCEPT ![l] = b[l] - 1])) + 1
           = Cardinality(Chunks(b))
<1> DEFINE c == [b EXCEPT ![l] = b[l] - 1]
<1>1. b[l] \in Nat /\ b[l] - 1 \in 0..Capacity /\ b[l] - 1 < Capacity
      /\ b[l] - 1 + 1 = b[l]
  BY RelayAssumption
<1>2. c \in [Links -> 0..Capacity] /\ c[l] = b[l] - 1
  BY <1>1
<1>3. [c EXCEPT ![l] = c[l] + 1] = b
  BY <1>1, <1>2
<1>4. c[l] < Capacity
  BY <1>1, <1>2
<1> HIDE DEF c
<1>5. Cardinality(Chunks([c EXCEPT ![l] = c[l] + 1])) = Cardinality(Chunks(c)) + 1
  BY <1>2, <1>4, ChunksPlus
<1>6. Cardinality(Chunks(b)) = Cardinality(Chunks(c)) + 1
  BY <1>3, <1>5
<1> QED BY <1>6 DEF c

LEMMA ChunksLess ==
  ASSUME NEW b \in [Links -> 0..Capacity], NEW c \in [Links -> 0..Capacity],
         \A l \in Links : c[l] <= b[l]
  PROVE  Cardinality(Chunks(c)) <= Cardinality(Chunks(b))
<1>1. ASSUME NEW p \in Links \X (1..Capacity), p[2] <= c[p[1]]
      PROVE  p[2] <= b[p[1]]
  <2>1. /\ p[1] \in Links /\ p[2] \in Nat /\ c[p[1]] \in Nat /\ b[p[1]] \in Nat
        /\ c[p[1]] <= b[p[1]]
    BY RelayAssumption
  <2> QED BY <1>1, <2>1
<1>2. Chunks(c) \subseteq Chunks(b)
  BY <1>1 DEF Chunks
<1> QED BY <1>2, ChunksFinite, FS_Subset

LEMMA NoChunks ==
  ASSUME NEW b \in [Links -> 0..Capacity]
  PROVE  Cardinality(Chunks(b)) = 0 <=> \A l \in Links : b[l] = 0
<1>1. ASSUME NEW l \in Links, b[l] # 0 PROVE <<l, 1>> \in Chunks(b)
  <2>1. b[l] \in Nat /\ 1 <= b[l] /\ 1 \in 1..Capacity
    BY <1>1, RelayAssumption
  <2> QED BY <2>1 DEF Chunks
<1>2. ASSUME \A l \in Links : b[l] = 0 PROVE Chunks(b) = {}
  <2>1. ASSUME NEW p \in Links \X (1..Capacity) PROVE ~(p[2] <= b[p[1]])
    <3>1. p[1] \in Links /\ p[2] \in 1..Capacity
      OBVIOUS
    <3> QED BY <1>2, <3>1, RelayAssumption
  <2> QED BY <2>1 DEF Chunks
<1> QED BY <1>1, <1>2, ChunksFinite, FS_EmptySet

Copies == [Relays -> {"none", "read", "write", "done"}]

LEMMA WritingFinite ==
  ASSUME NEW c
  PROVE  IsFiniteSet(Writing(c)) /\ Cardinality(Writing(c)) \in Nat
<1>1. IsFiniteSet(Relays) /\ Writing(c) \in SUBSET Relays
  BY RelayAssumption, FS_Interval DEF Relays, Writing
<1> QED BY <1>1, FS_Subset, FS_CardinalityType

LEMMA WritingPlus ==
  ASSUME NEW c \in Copies, NEW k \in Relays, c[k] # "write"
  PROVE  Cardinality(Writing([c EXCEPT ![k] = "write"]))
           = Cardinality(Writing(c)) + 1
<1>1. Writing([c EXCEPT ![k] = "write"]) = Writing(c) \cup {k}
  BY DEF Writing, Copies
<1>2. k \notin Writing(c)
  BY DEF Writing
<1>3. Cardinality(Writing(c) \cup {k}) = Cardinality(Writing(c)) + 1
  BY <1>2, WritingFinite, FS_AddElement
<1> QED BY <1>1, <1>3

LEMMA WritingMinus ==
  ASSUME NEW c \in Copies, NEW k \in Relays, c[k] = "write",
         NEW x \in {"none", "read", "done"}
  PROVE  Cardinality(Writing([c EXCEPT ![k] = x])) + 1 = Cardinality(Writing(c))
<1>1. Writing(c) = Writing([c EXCEPT ![k] = x]) \cup {k}
  BY DEF Writing, Copies
<1>2. k \notin Writing([c EXCEPT ![k] = x])
  BY DEF Writing, Copies
<1>3. Cardinality(Writing([c EXCEPT ![k] = x]) \cup {k})
        = Cardinality(Writing([c EXCEPT ![k] = x])) + 1
  BY <1>2, WritingFinite, FS_AddElement
<1> QED BY <1>1, <1>3

LEMMA WritingSame ==
  ASSUME NEW c \in Copies, NEW k \in Relays, c[k] # "write",
         NEW x \in {"none", "read", "done"}
  PROVE  Writing([c EXCEPT ![k] = x]) = Writing(c)
BY DEF Writing, Copies

(* What a step does that changes one copy, or one link. *)
CopyBecomes(d, k, c) ==
  \A e \in Dirs, i \in Relays :
    copy'[e][i] = IF e = d /\ i = k THEN c ELSE copy[e][i]
LinkBecomes(d, l, x) ==
  \A e \in Dirs, i \in Links :
    buf'[e][i] = IF e = d /\ i = l THEN x ELSE buf[e][i]

LEMMA CopyFunctions ==
  ASSUME NEW d \in Dirs, NEW k \in Relays,
         NEW c \in {"none", "read", "write", "done"}, TypeOK,
         copy' = [copy EXCEPT ![d][k] = c]
  PROVE  /\ copy'[d] = [copy[d] EXCEPT ![k] = c]
         /\ \A e \in Dirs : e # d => copy'[e] = copy[e]
BY DEF TypeOK

LEMMA CopyChange ==
  ASSUME NEW d \in Dirs, NEW k \in Relays,
         NEW c \in {"none", "read", "write", "done"}, TypeOK,
         copy' = [copy EXCEPT ![d][k] = c]
  PROVE  CopyBecomes(d, k, c)
<1>1. copy[d] \in [Relays -> {"none", "read", "write", "done"}]
  BY DEF TypeOK
<1>2. copy'[d] = [copy[d] EXCEPT ![k] = c]
  BY DEF TypeOK
<1>3. \A e \in Dirs : e # d => copy'[e] = copy[e]
  BY DEF TypeOK
<1>4. \A i \in Relays : copy'[d][i] = IF i = k THEN c ELSE copy[d][i]
  BY <1>1, <1>2
<1> QED BY <1>2, <1>3, <1>4 DEF CopyBecomes

(* A closed end writes no more.  The ends of a relay are closed by its     *)
(* handler on its return, and the others by the client and the server: the *)
(* ends that are finished say where those are.                             *)
Ended ==
  /\ shut \subseteq fin
  /\ \A l \in Links :
       /\ <<"right", l>> \in fin =>
            IF l = Last THEN server = "closed" ELSE relay[l] = "closed"
       /\ <<"left", l>> \in fin =>
            IF l = 1 THEN client # "open"
                     ELSE relay[l - 1] \in {"closeLeft", "closed"}

(* Ended holds in every reachable state. *)
LEMMA EndedInvariant == Spec => []Ended
<1>1. Init => Ended
  BY DEF Init, Ended
<1>2. TypeOK /\ Dialing /\ Ended /\ [Next]_vars => Ended'
  <2> SUFFICES ASSUME TypeOK, Dialing, Ended, [Next]_vars PROVE Ended'
    OBVIOUS
  <2> USE RelayAssumption, LinkTypes DEF TypeOK, Ended
  <2>0. \A l \in Links : /\ l # Last => l \in Relays
                         /\ l # 1 => l - 1 \in Relays
    BY DEF Links, Relays, Last
  <2>a. \A l \in Links, k \in Relays : k + 1 = l => l # 1 /\ l - 1 = k
    BY DEF Links, Relays
  <2>b. \A k \in Relays : k # Last
    BY DEF Relays, Last
  <2>1. ASSUME UNCHANGED <<client, server, relay, fin, shut>> PROVE Ended'
    BY <2>1
  <2>2. ASSUME NEW k \in Relays, Dial(k) PROVE Ended'
    <3>1. /\ relay[k] = "dial" /\ server = "none"
          /\ UNCHANGED <<client, fin, shut>>
          /\ \A i \in Relays : i > k => relay[i] = "none"
      BY <2>2 DEF Dial, Dialing
    <3>2. ASSUME NEW i \in Relays, relay[i] \in {"closeLeft", "closed"}
          PROVE  relay'[i] = relay[i]
      <4>1. i # k /\ i # k + 1
        BY <3>1, <3>2 DEF Relays
      <4> QED BY <2>2, <4>1 DEF Dial
    <3> QED BY <2>0, <3>1, <3>2
  <2>3. ASSUME NEW k \in Relays, DialFails(k) PROVE Ended'
    <3>1. /\ relay[k] = "dial" /\ server = "none"
          /\ UNCHANGED <<client, fin, shut>>
          /\ relay' = [relay EXCEPT ![k] = "closeLeft"]
      BY <2>3 DEF DialFails, Dialing
    <3> QED BY <2>0, <3>1
  <2>4. ASSUME NEW k \in Relays, FirstDone(k) PROVE Ended'
    BY <2>0, <2>4 DEF FirstDone
  <2>5. ASSUME NEW k \in Relays, CloseRight(k) PROVE Ended'
    <3>1. /\ relay[k] = "closeRight" /\ UNCHANGED <<client, server>>
          /\ relay' = [relay EXCEPT ![k] = "closeLeft"]
          /\ fin' = fin \cup {<<"left", k + 1>>}
          /\ shut' = shut \cup {<<"left", k + 1>>}
      BY <2>5 DEF CloseRight, CloseEnd
    <3> QED BY <2>0, <2>a, <3>1
  <2>6. ASSUME NEW k \in Relays, CloseLeft(k) PROVE Ended'
    <3>1. /\ relay[k] = "closeLeft" /\ UNCHANGED <<client, server>>
          /\ relay' = [relay EXCEPT ![k] = "closed"]
          /\ fin' = fin \cup {<<"right", k>>}
          /\ shut' = shut \cup {<<"right", k>>}
      BY <2>6 DEF CloseLeft, CloseEnd
    <3> QED BY <2>0, <2>b, <3>1
  <2>7. CASE ClientHalfCloses
    BY <2>7 DEF ClientHalfCloses
  <2>8. CASE ClientCloses
    BY <2>8 DEF ClientCloses, CloseEnd
  <2>9. CASE ServerCloses
    BY <2>9 DEF ServerCloses, CloseEnd
  <2>10. ASSUME NEW k \in Relays, NEW d \in Dirs, Copying(d, k)
         PROVE  UNCHANGED <<client, server, relay, fin, shut>>
    BY <2>10 DEF Copying, CopyRead, CopyEnds, CopyWrite, CopyWriteFails
  <2>11. ASSUME NEW d \in Dirs, Send(d) \/ SendDropped(d) \/ Receive(d)
         PROVE  UNCHANGED <<client, server, relay, fin, shut>>
    BY <2>11 DEF Send, SendDropped, Receive
  <2>12. CASE UNCHANGED vars
    BY <2>1, <2>12 DEF vars
  <2> QED BY <2>1, <2>2, <2>3, <2>4, <2>5, <2>6, <2>7, <2>8, <2>9, <2>10,
             <2>11, <2>12 DEF Next, Handling
<1> QED BY <1>1, <1>2, TypeCorrect, DialingInvariant, PTL DEF Spec

(* A relay that has not dialed copies nothing. *)
Idle ==
  \A k \in Relays :
    relay[k] \in {"none", "dial"} => \A d \in Dirs : copy[d][k] = "none"

(* Idle holds in every reachable state. *)
LEMMA IdleInvariant == Spec => []Idle
<1>1. Init => Idle
  BY DEF Init, Idle
<1>2. TypeOK /\ Dialing /\ Idle /\ [Next]_vars => Idle'
  <2> SUFFICES ASSUME TypeOK, Dialing, Idle, [Next]_vars PROVE Idle'
    OBVIOUS
  <2> USE DEF Idle
  <2>1. ASSUME UNCHANGED <<relay, copy>> PROVE Idle'
    BY <2>1
  <2>2. ASSUME NEW k \in Relays, Dial(k) PROVE Idle'
    <3>1. \A i \in Relays : i > k => relay[i] = "none"
      BY <2>2 DEF Dial, Dialing
    <3>2. \A i \in Relays : relay'[i] = IF i = k THEN "copy"
                                       ELSE IF i = k + 1 THEN "dial"
                                       ELSE relay[i]
      BY <2>2 DEF Dial
    <3>3. \A d \in Dirs, i \in Relays : i # k => copy'[d][i] = copy[d][i]
      BY <2>2 DEF Dial, TypeOK
    <3>4. k + 1 > k
      BY DEF Relays
    <3> QED BY <3>1, <3>2, <3>3, <3>4
  <2>3. ASSUME NEW k \in Relays,
               \/ DialFails(k) \/ FirstDone(k)
               \/ CloseRight(k) \/ CloseLeft(k)
        PROVE  Idle'
    BY <2>3 DEF DialFails, FirstDone, CloseRight, CloseLeft, TypeOK
  <2>4. ASSUME NEW k \in Relays, NEW d \in Dirs, Copying(d, k) PROVE Idle'
    <3>1. PICK c \in {"read", "write", "done"} :
            copy' = [copy EXCEPT ![d][k] = c]
      BY <2>4 DEF Copying, CopyRead, CopyEnds, CopyWrite, CopyWriteFails
    <3>2. relay' = relay /\ copy[d][k] \in {"read", "write"}
      BY <2>4 DEF Copying, CopyRead, CopyEnds, CopyWrite, CopyWriteFails
    <3>3. CopyBecomes(d, k, c)
      BY <3>1, CopyChange
    <3> QED BY <3>2, <3>3 DEF CopyBecomes
  <2>5. ASSUME NEW d \in Dirs, Send(d) \/ SendDropped(d) \/ Receive(d)
        PROVE  UNCHANGED <<relay, copy>>
    BY <2>5 DEF Send, SendDropped, Receive
  <2>6. CASE \/ ClientHalfCloses \/ ClientCloses \/ ServerCloses
             \/ UNCHANGED vars
    BY <2>1, <2>6 DEF ClientHalfCloses, ClientCloses, ServerCloses, vars
  <2> QED BY <2>1, <2>2, <2>3, <2>4, <2>5, <2>6 DEF Next, Handling
<1> QED BY <1>1, <1>2, TypeCorrect, DialingInvariant, PTL DEF Spec

(* The chunks of a direction that were received or are under way. *)
Counted(d) == got[d] + Total(d) + Held(d)

LEMMA CountTypes ==
  ASSUME NEW d \in Dirs, TypeOK
  PROVE  got[d] \in Nat /\ Total(d) \in Nat /\ Held(d) \in Nat /\ sent[d] \in Nat
<1>1. buf[d] \in [Links -> 0..Capacity]
  BY DEF TypeOK
<1> QED BY <1>1, ChunksFinite, WritingFinite, RelayAssumption
           DEF TypeOK, Total, Held

(* The same in both states of a step. *)
LEMMA BothCountTypes ==
  ASSUME NEW d \in Dirs, TypeOK, TypeOK'
  PROVE  /\ got[d] \in Nat /\ Total(d) \in Nat /\ Held(d) \in Nat /\ sent[d] \in Nat
         /\ got'[d] \in Nat /\ Total(d)' \in Nat /\ Held(d)' \in Nat
         /\ sent'[d] \in Nat
<1>1. /\ got[d] \in Nat /\ Total(d) \in Nat /\ Held(d) \in Nat /\ sent[d] \in Nat
  BY CountTypes
<1>2. (/\ got[d] \in Nat /\ Total(d) \in Nat /\ Held(d) \in Nat /\ sent[d] \in Nat)'
  <2>1. buf'[d] \in [Links -> 0..Capacity]
    BY DEF TypeOK
  <2> QED BY <2>1, ChunksFinite, WritingFinite, RelayAssumption
             DEF TypeOK, Total, Held
<1> QED BY <1>1, <1>2

LEMMA CountNaturals ==
  ASSUME NEW d \in Dirs, TypeOK, TypeOK'
  PROVE  /\ Counted(d) \in Nat /\ sent[d] \in Nat
         /\ Counted(d)' \in Nat /\ sent'[d] \in Nat
BY BothCountTypes DEF Counted

LEMMA TotalPlus ==
  ASSUME NEW d \in Dirs, NEW l \in Links, TypeOK, buf[d][l] < Capacity,
         buf' = [buf EXCEPT ![d][l] = @ + 1]
  PROVE  /\ Total(d)' = Total(d) + 1
         /\ \A e \in Dirs : e # d => Total(e)' = Total(e)
<1>1. buf[d] \in [Links -> 0..Capacity]
  BY DEF TypeOK
<1>2. buf'[d] = [buf[d] EXCEPT ![l] = buf[d][l] + 1]
  BY DEF TypeOK
<1>3. \A e \in Dirs : e # d => buf'[e] = buf[e]
  BY DEF TypeOK
<1>4. Cardinality(Chunks(buf'[d])) = Cardinality(Chunks(buf[d])) + 1
  <2>1. Cardinality(Chunks([buf[d] EXCEPT ![l] = buf[d][l] + 1]))
          = Cardinality(Chunks(buf[d])) + 1
    BY <1>1, ChunksPlus
  <2> QED BY <1>2, <2>1
<1> QED BY <1>3, <1>4 DEF Total

LEMMA TotalMinus ==
  ASSUME NEW d \in Dirs, NEW l \in Links, TypeOK, buf[d][l] > 0,
         buf' = [buf EXCEPT ![d][l] = @ - 1]
  PROVE  /\ Total(d)' + 1 = Total(d)
         /\ \A e \in Dirs : e # d => Total(e)' = Total(e)
<1>1. buf[d] \in [Links -> 0..Capacity]
  BY DEF TypeOK
<1>2. buf'[d] = [buf[d] EXCEPT ![l] = buf[d][l] - 1]
  BY DEF TypeOK
<1>3. \A e \in Dirs : e # d => buf'[e] = buf[e]
  BY DEF TypeOK
<1>4. Cardinality(Chunks(buf'[d])) + 1 = Cardinality(Chunks(buf[d]))
  <2>1. Cardinality(Chunks([buf[d] EXCEPT ![l] = buf[d][l] - 1])) + 1
          = Cardinality(Chunks(buf[d]))
    BY <1>1, ChunksMinus
  <2> QED BY <1>2, <2>1
<1> QED BY <1>3, <1>4 DEF Total

LEMMA HeldPlus ==
  ASSUME NEW d \in Dirs, NEW k \in Relays, TypeOK, copy[d][k] # "write",
         copy' = [copy EXCEPT ![d][k] = "write"]
  PROVE  /\ Held(d)' = Held(d) + 1
         /\ \A e \in Dirs : e # d => Held(e)' = Held(e)
<1>1. copy[d] \in Copies
  BY DEF TypeOK, Copies
<1>2. /\ copy'[d] = [copy[d] EXCEPT ![k] = "write"]
      /\ \A e \in Dirs : e # d => copy'[e] = copy[e]
  BY CopyFunctions
<1>3. Cardinality(Writing(copy'[d])) = Cardinality(Writing(copy[d])) + 1
  <2>1. Cardinality(Writing([copy[d] EXCEPT ![k] = "write"]))
          = Cardinality(Writing(copy[d])) + 1
    BY <1>1, WritingPlus
  <2> QED BY <1>2, <2>1
<1> QED BY <1>2, <1>3 DEF Held

LEMMA HeldMinus ==
  ASSUME NEW d \in Dirs, NEW k \in Relays, NEW c \in {"none", "read", "done"},
         TypeOK, copy[d][k] = "write",
         copy' = [copy EXCEPT ![d][k] = c]
  PROVE  /\ Held(d)' + 1 = Held(d)
         /\ \A e \in Dirs : e # d => Held(e)' = Held(e)
<1>1. copy[d] \in Copies
  BY DEF TypeOK, Copies
<1>2. /\ copy'[d] = [copy[d] EXCEPT ![k] = c]
      /\ \A e \in Dirs : e # d => copy'[e] = copy[e]
  BY DEF TypeOK
<1>3. Cardinality(Writing(copy'[d])) + 1 = Cardinality(Writing(copy[d]))
  <2>1. Cardinality(Writing([copy[d] EXCEPT ![k] = c])) + 1
          = Cardinality(Writing(copy[d]))
    BY <1>1, WritingMinus
  <2> QED BY <1>2, <2>1
<1> QED BY <1>2, <1>3 DEF Held

(* The steps that neither lose nor add a chunk, and those that may lose.   *)
Moves ==
  \/ \E k \in Relays :
       \/ Dial(k) \/ DialFails(k) \/ FirstDone(k)
       \/ \E d \in Dirs : CopyRead(d, k) \/ CopyEnds(d, k) \/ CopyWrite(d, k)
  \/ \E d \in Dirs : Send(d) \/ Receive(d)
  \/ ClientHalfCloses
  \/ UNCHANGED vars
Drops ==
  \/ \E k \in Relays :
       \/ CloseRight(k) \/ CloseLeft(k)
       \/ \E d \in Dirs : CopyWriteFails(d, k)
  \/ \E d \in Dirs : SendDropped(d)
  \/ ClientCloses \/ ServerCloses

LEMMA MovesOrDrops == [Next]_vars => Moves \/ Drops
BY DEF Next, Handling, Copying, Moves, Drops

LEMMA MovesCount ==
  ASSUME TypeOK, TypeOK', Idle, Moves, NEW e \in Dirs
  PROVE  Counted(e)' + sent[e] = Counted(e) + sent'[e]
<1> USE LinkTypes
<1>1. /\ got[e] \in Nat /\ Total(e) \in Nat /\ Held(e) \in Nat /\ sent[e] \in Nat
      /\ got'[e] \in Nat /\ Total(e)' \in Nat /\ Held(e)' \in Nat
      /\ sent'[e] \in Nat
  BY BothCountTypes
<1>2. ASSUME UNCHANGED <<buf, copy, sent, got>>
      PROVE  Counted(e)' + sent[e] = Counted(e) + sent'[e]
  BY <1>2 DEF Counted, Total, Held
<1>3. ASSUME NEW k \in Relays, Dial(k)
      PROVE  Counted(e)' + sent[e] = Counted(e) + sent'[e]
  <2>1. copy[e][k] = "none" /\ copy[e] \in Copies
    BY <1>3 DEF Dial, Idle, TypeOK, Copies
  <2>2. copy'[e] = [copy[e] EXCEPT ![k] = "read"]
    BY <1>3 DEF Dial
  <2>3. Writing(copy'[e]) = Writing(copy[e])
    <3>1. Writing([copy[e] EXCEPT ![k] = "read"]) = Writing(copy[e])
      BY <2>1, WritingSame
    <3> QED BY <2>2, <3>1
  <2>4. Held(e)' = Held(e) /\ Total(e)' = Total(e)
    BY <1>3, <2>3 DEF Dial, Held, Total
  <2> QED BY <1>3, <2>4 DEF Dial, Counted
<1>4. ASSUME NEW k \in Relays, NEW d \in Dirs, CopyRead(d, k)
      PROVE  Counted(e)' + sent[e] = Counted(e) + sent'[e]
  <2>1. \/ e = d /\ Total(e)' + 1 = Total(e)
        \/ e # d /\ Total(e)' = Total(e)
    BY <1>4, TotalMinus DEF CopyRead
  <2>2. \/ e = d /\ Held(e)' = Held(e) + 1
        \/ e # d /\ Held(e)' = Held(e)
    BY <1>4, HeldPlus DEF CopyRead
  <2>3. sent' = sent /\ got' = got
    BY <1>4 DEF CopyRead
  <2> QED BY <1>1, <2>1, <2>2, <2>3 DEF Counted
<1>5. ASSUME NEW k \in Relays, NEW d \in Dirs, CopyEnds(d, k)
      PROVE  Counted(e)' + sent[e] = Counted(e) + sent'[e]
  <2>1. copy[d][k] = "read" /\ copy' = [copy EXCEPT ![d][k] = "done"]
    BY <1>5 DEF CopyEnds
  <2>2. /\ copy'[d] = [copy[d] EXCEPT ![k] = "done"]
        /\ \A f \in Dirs : f # d => copy'[f] = copy[f]
    BY <2>1, CopyFunctions
  <2>3. copy[d] \in Copies
    BY DEF TypeOK, Copies
  <2>4. Writing(copy'[d]) = Writing(copy[d])
    <3>1. Writing([copy[d] EXCEPT ![k] = "done"]) = Writing(copy[d])
      BY <2>1, <2>3, WritingSame
    <3> QED BY <2>2, <3>1
  <2>5. Writing(copy'[e]) = Writing(copy[e])
    BY <2>2, <2>4
  <2>6. Held(e)' = Held(e) /\ Total(e)' = Total(e)
    BY <1>5, <2>5 DEF CopyEnds, Held, Total
  <2> QED BY <1>5, <2>6 DEF CopyEnds, Counted
<1>6. ASSUME NEW k \in Relays, NEW d \in Dirs, CopyWrite(d, k)
      PROVE  Counted(e)' + sent[e] = Counted(e) + sent'[e]
  <2>1. \/ e = d /\ Total(e)' = Total(e) + 1
        \/ e # d /\ Total(e)' = Total(e)
    BY <1>6, TotalPlus DEF CopyWrite
  <2>2. \/ e = d /\ Held(e)' + 1 = Held(e)
        \/ e # d /\ Held(e)' = Held(e)
    BY <1>6, HeldMinus DEF CopyWrite
  <2>3. sent' = sent /\ got' = got
    BY <1>6 DEF CopyWrite
  <2> QED BY <1>1, <2>1, <2>2, <2>3 DEF Counted
<1>7. ASSUME NEW d \in Dirs, Send(d)
      PROVE  Counted(e)' + sent[e] = Counted(e) + sent'[e]
  <2>1. \/ e = d /\ Total(e)' = Total(e) + 1
        \/ e # d /\ Total(e)' = Total(e)
    BY <1>7, TotalPlus DEF Send
  <2>2. \/ e = d /\ sent'[e] = sent[e] + 1
        \/ e # d /\ sent'[e] = sent[e]
    BY <1>7 DEF Send, TypeOK
  <2>3. Held(e)' = Held(e) /\ got'[e] = got[e]
    BY <1>7 DEF Send, Held
  <2> QED BY <1>1, <2>1, <2>2, <2>3 DEF Counted
<1>8. ASSUME NEW d \in Dirs, Receive(d)
      PROVE  Counted(e)' + sent[e] = Counted(e) + sent'[e]
  <2>1. \/ e = d /\ Total(e)' + 1 = Total(e)
        \/ e # d /\ Total(e)' = Total(e)
    BY <1>8, TotalMinus DEF Receive
  <2>2. \/ e = d /\ got'[e] = got[e] + 1
        \/ e # d /\ got'[e] = got[e]
    BY <1>8 DEF Receive, TypeOK
  <2>3. Held(e)' = Held(e) /\ sent'[e] = sent[e]
    BY <1>8 DEF Receive, Held
  <2> QED BY <1>1, <2>1, <2>2, <2>3 DEF Counted
<1>9. ASSUME NEW k \in Relays, DialFails(k) \/ FirstDone(k)
      PROVE  UNCHANGED <<buf, copy, sent, got>>
  BY <1>9 DEF DialFails, FirstDone
<1>10. CASE ClientHalfCloses \/ UNCHANGED vars
  BY <1>2, <1>10 DEF ClientHalfCloses, vars
<1> QED BY <1>2, <1>3, <1>4, <1>5, <1>6, <1>7, <1>8, <1>9, <1>10 DEF Moves

(* Closing an end takes chunks away. *)
LEMMA CloseEndLess ==
  ASSUME NEW side \in {"left", "right"}, NEW l \in Links, TypeOK, TypeOK',
         CloseEnd(side, l), NEW d \in Dirs, NEW i \in Links
  PROVE  buf'[d][i] <= buf[d][i]
<1> DEFINE out == IF side = "left" THEN "up" ELSE "down"
           in == Other(out)
<1>1. out \in Dirs /\ in \in Dirs /\ in # out
  BY DEF Dirs, Other
<1>2. PICK rest \in 0..buf[out][l] :
        buf' = [buf EXCEPT ![in][l] = 0, ![out][l] = rest]
  BY DEF CloseEnd
<1>3. /\ buf[d] \in [Links -> 0..Capacity] /\ buf'[d] \in [Links -> 0..Capacity]
      /\ buf[out] \in [Links -> 0..Capacity] /\ buf[in] \in [Links -> 0..Capacity]
  BY <1>1 DEF TypeOK
<1>4. rest \in Nat /\ rest <= buf[out][l] /\ buf[in][l] >= 0
  BY <1>2, <1>3, RelayAssumption
<1> HIDE DEF out, in
<1>5. /\ buf'[in] = [buf[in] EXCEPT ![l] = 0]
      /\ buf'[out] = [buf[out] EXCEPT ![l] = rest]
      /\ d \notin {in, out} => buf'[d] = buf[d]
  BY <1>1, <1>2 DEF TypeOK
<1>6. buf[d][i] \in Nat /\ buf[d][i] <= buf[d][i]
  BY <1>3, RelayAssumption
<1>7. CASE d = in
  BY <1>3, <1>4, <1>5, <1>6, <1>7
<1>8. CASE d = out
  BY <1>3, <1>4, <1>5, <1>6, <1>8
<1> QED BY <1>5, <1>6, <1>7, <1>8

LEMMA CloseEndLoses ==
  ASSUME NEW side \in {"left", "right"}, NEW l \in Links, TypeOK, TypeOK',
         CloseEnd(side, l), NEW d \in Dirs
  PROVE  Total(d)' <= Total(d)
<1>1. buf[d] \in [Links -> 0..Capacity] /\ buf'[d] \in [Links -> 0..Capacity]
  BY DEF TypeOK
<1>2. \A i \in Links : buf'[d][i] <= buf[d][i]
  BY CloseEndLess
<1>3. Cardinality(Chunks(buf'[d])) <= Cardinality(Chunks(buf[d]))
  BY <1>1, <1>2, ChunksLess
<1> QED BY <1>3 DEF Total

LEMMA DropsCount ==
  ASSUME TypeOK, TypeOK', Drops, NEW e \in Dirs
  PROVE  Counted(e)' + sent[e] <= Counted(e) + sent'[e]
<1> USE LinkTypes
<1>1. /\ got[e] \in Nat /\ Total(e) \in Nat /\ Held(e) \in Nat /\ sent[e] \in Nat
      /\ got'[e] \in Nat /\ Total(e)' \in Nat /\ Held(e)' \in Nat
      /\ sent'[e] \in Nat
  BY BothCountTypes
<1>2. ASSUME NEW side \in {"left", "right"}, NEW l \in Links, CloseEnd(side, l),
             UNCHANGED <<copy, sent, got>>
      PROVE  Counted(e)' + sent[e] <= Counted(e) + sent'[e]
  <2>1. Total(e)' <= Total(e)
    BY <1>2, CloseEndLoses
  <2>2. Held(e)' = Held(e) /\ sent'[e] = sent[e] /\ got'[e] = got[e]
    BY <1>2 DEF Held
  <2> QED BY <1>1, <2>1, <2>2 DEF Counted
<1>3. ASSUME NEW k \in Relays, CloseRight(k) \/ CloseLeft(k)
      PROVE  Counted(e)' + sent[e] <= Counted(e) + sent'[e]
  BY <1>2, <1>3 DEF CloseRight, CloseLeft
<1>4. ASSUME NEW k \in Relays, NEW d \in Dirs, CopyWriteFails(d, k)
      PROVE  Counted(e)' + sent[e] <= Counted(e) + sent'[e]
  <2>1. PICK c \in {"read", "done"} : copy' = [copy EXCEPT ![d][k] = c]
    BY <1>4 DEF CopyWriteFails
  <2>2. copy[d][k] = "write"
    BY <1>4 DEF CopyWriteFails
  <2>3. \/ e = d /\ Held(e)' + 1 = Held(e)
        \/ e # d /\ Held(e)' = Held(e)
    BY <2>1, <2>2, HeldMinus
  <2>4. Total(e)' = Total(e) /\ sent'[e] = sent[e] /\ got'[e] = got[e]
    BY <1>4 DEF CopyWriteFails, Total
  <2> QED BY <1>1, <2>3, <2>4 DEF Counted
<1>5. ASSUME NEW d \in Dirs, SendDropped(d)
      PROVE  Counted(e)' + sent[e] <= Counted(e) + sent'[e]
  <2>1. sent'[e] \in {sent[e], sent[e] + 1}
    BY <1>5 DEF SendDropped, TypeOK
  <2>2. Total(e)' = Total(e) /\ Held(e)' = Held(e) /\ got'[e] = got[e]
    BY <1>5 DEF SendDropped, Total, Held
  <2> QED BY <1>1, <2>1, <2>2 DEF Counted
<1>6. CASE ClientCloses \/ ServerCloses
  BY <1>2, <1>6 DEF ClientCloses, ServerCloses
<1> QED BY <1>3, <1>4, <1>5, <1>6 DEF Drops

-----------------------------------------------------------------------------
LEMMA InitCount ==
  ASSUME Init, NEW d \in Dirs
  PROVE  Counted(d) = 0
<1>1. buf[d] \in [Links -> 0..Capacity] /\ \A l \in Links : buf[d][l] = 0
  BY RelayAssumption DEF Init
<1>2. Total(d) = 0
  BY <1>1, NoChunks DEF Total
<1>3. Writing(copy[d]) = {}
  BY DEF Init, Writing
<1>4. Held(d) = 0
  BY <1>3, FS_EmptySet DEF Held
<1> QED BY <1>2, <1>4 DEF Init, Counted

(* No chunk is doubled: never more was received, or is under way, than was *)
(* sent.                                                                   *)
NoneAdded == \A d \in Dirs : Counted(d) <= sent[d]

(* NoneAdded holds in every reachable state. *)
LEMMA NoneAddedInvariant == Spec => []NoneAdded
<1>1. Init => NoneAdded
  <2> SUFFICES ASSUME Init, NEW d \in Dirs PROVE Counted(d) <= sent[d]
    BY DEF NoneAdded
  <2> QED BY InitCount DEF Init
<1>2. TypeOK /\ TypeOK' /\ Idle /\ NoneAdded /\ [Next]_vars => NoneAdded'
  <2> SUFFICES ASSUME TypeOK, TypeOK', Idle, NoneAdded, [Next]_vars,
                      NEW d \in Dirs
               PROVE  Counted(d)' <= sent'[d]
    BY DEF NoneAdded
  <2>1. /\ Counted(d) \in Nat /\ sent[d] \in Nat
        /\ Counted(d)' \in Nat /\ sent'[d] \in Nat
    BY CountNaturals
  <2>2. Counted(d) <= sent[d]
    BY DEF NoneAdded
  <2>3. Counted(d)' + sent[d] <= Counted(d) + sent'[d]
    <3>1. CASE Moves
      <4>1. Counted(d)' + sent[d] = Counted(d) + sent'[d]
        BY <3>1, MovesCount
      <4> QED BY <2>1, <4>1
    <3>2. CASE Drops
      BY <3>2, DropsCount
    <3> QED BY <3>1, <3>2, MovesOrDrops
  <2> DEFINE c == Counted(d) s == sent[d] c2 == Counted(d)' s2 == sent'[d]
  <2> HIDE DEF c, s, c2, s2
  <2>4. c \in Nat /\ s \in Nat /\ c2 \in Nat /\ s2 \in Nat
    BY <2>1 DEF c, s, c2, s2
  <2>5. c <= s /\ c2 + s <= c + s2
    BY <2>2, <2>3 DEF c, s, c2, s2
  <2>6. c2 <= s2
    BY <2>4, <2>5
  <2> QED BY <2>6 DEF c2, s2
<1> QED BY <1>1, <1>2, TypeCorrect, IdleInvariant, PTL DEF Spec

(* While nobody has ended a stream, every chunk that was sent was received *)
(* or is under way through the two io.Copy of each relay (proxy.go:68-79,  *)
(* 341-349): none is lost, none doubled.                                   *)
THEOREM ConservedHolds == Spec => []Conserved
<1>1. Init => Conserved
  <2> SUFFICES ASSUME Init, NEW d \in Dirs PROVE sent[d] = Counted(d)
    BY DEF Conserved, Counted
  <2> QED BY InitCount DEF Init
<1>2. TypeOK /\ TypeOK' /\ Idle /\ Ended /\ Conserved /\ [Next]_vars
        => Conserved'
  <2> SUFFICES ASSUME TypeOK, TypeOK', Idle, Ended, Conserved, [Next]_vars,
                      fin' = {}, NEW d \in Dirs
               PROVE  sent'[d] = Counted(d)'
    BY DEF Conserved, Counted
  <2>1. fin \subseteq fin'
    BY DEF Next, Handling, Copying, Dial, DialFails, FirstDone, CloseRight,
           CloseLeft, CopyRead, CopyEnds, CopyWrite, CopyWriteFails, Send,
           SendDropped, Receive, ClientHalfCloses, ClientCloses,
           ServerCloses, CloseEnd, vars
  <2>2. fin = {} /\ shut = {}
    BY <2>1 DEF Ended
  <2>3. ~Drops
    BY <2>2 DEF Drops, CloseRight, CloseLeft, CopyWriteFails, SendDropped,
                ClientCloses, ServerCloses, CloseEnd, Open
  <2>4. Counted(d)' + sent[d] = Counted(d) + sent'[d]
    BY <2>3, MovesOrDrops, MovesCount
  <2>5. sent[d] = Counted(d)
    BY <2>2 DEF Conserved, Counted
  <2>6. /\ Counted(d) \in Nat /\ sent[d] \in Nat
        /\ Counted(d)' \in Nat /\ sent'[d] \in Nat
    BY CountNaturals
  <2> DEFINE c == Counted(d) s == sent[d] c2 == Counted(d)' s2 == sent'[d]
  <2> HIDE DEF c, s, c2, s2
  <2>7. c \in Nat /\ s \in Nat /\ c2 \in Nat /\ s2 \in Nat
    BY <2>6 DEF c, s, c2, s2
  <2>8. s = c /\ c2 + s = c + s2
    BY <2>4, <2>5 DEF c, s, c2, s2
  <2>9. s2 = c2
    BY <2>7, <2>8
  <2> QED BY <2>9 DEF c2, s2
<1> QED BY <1>1, <1>2, TypeCorrect, IdleInvariant, EndedInvariant, PTL DEF Spec

-----------------------------------------------------------------------------
(* The inductive invariant behind CompleteResponse.  Once the server has   *)
(* closed, having heard all that the client sent, nothing of the response  *)
(* is lost; and when a copy or the handler of relay k is over, whichever   *)
(* direction ended first, the response has passed relay k: there is        *)
(* nothing of it in the links or the relays behind.                        *)
Heard == server = "closed" /\ client = "open" /\ got["up"] = sent["up"]
Finished(k) ==
  \/ relay[k] \in {"closeRight", "closeLeft", "closed"}
  \/ \E d \in Dirs : copy[d][k] = "done"
Passed(k) ==
  /\ \A l \in Links : l > k => buf["down"][l] = 0
  /\ \A i \in Relays : i >= k => copy["down"][i] # "write"
Kept == sent["down"] = Counted("down")
Draining == Heard => Kept /\ \A k \in Relays : Finished(k) => Passed(k)

(* All that was sent up has been heard: nothing is under way there. *)
LEMMA UpEmpty ==
  ASSUME TypeOK, NoneAdded, got["up"] = sent["up"]
  PROVE  /\ \A l \in Links : buf["up"][l] = 0
         /\ \A k \in Relays : copy["up"][k] # "write"
<1>1. "up" \in Dirs
  BY DEF Dirs
<1>2. /\ got["up"] \in Nat /\ Total("up") \in Nat /\ Held("up") \in Nat
      /\ sent["up"] \in Nat
  BY <1>1, CountTypes
<1>3. got["up"] + Total("up") + Held("up") <= sent["up"]
  BY <1>1 DEF NoneAdded, Counted
<1>4. Total("up") = 0 /\ Held("up") = 0
  BY <1>2, <1>3
<1>5. buf["up"] \in [Links -> 0..Capacity]
  BY <1>1 DEF TypeOK
<1>6. Writing(copy["up"]) = {}
  BY <1>4, WritingFinite, FS_EmptySet DEF Held
<1> QED BY <1>4, <1>5, <1>6, NoChunks DEF Total, Writing

(* Where an end of a link has finished, the response has passed. *)
LEMMA PassedWhenFinished ==
  ASSUME TypeOK, Ended, Draining, Heard, NEW k \in Relays
  PROVE  /\ <<"right", k>> \in fin => Passed(k)
         /\ <<"left", k>> \in fin => Passed(k)
         /\ <<"left", k + 1>> \in fin => Passed(k)
         /\ <<"right", k + 1>> \in fin /\ buf["down"][k + 1] = 0
              /\ copy["down"][k] # "write" => Passed(k)
<1> USE LinkTypes, RelayAssumption
<1>1. \A i \in Relays : Finished(i) => Passed(i)
  BY DEF Draining
<1>2. \A l \in Links : l # Last => l \in Relays
  BY DEF Links, Relays, Last
<1>3. ASSUME <<"right", k>> \in fin PROVE Passed(k)
  <2>1. k # Last /\ k \in Links
    BY DEF Relays, Last
  <2>2. relay[k] = "closed"
    BY <1>3, <2>1 DEF Ended
  <2> QED BY <1>1, <2>2 DEF Finished
<1>4. ASSUME <<"left", k>> \in fin PROVE Passed(k)
  <2>1. k # 1 /\ relay[k - 1] \in {"closeLeft", "closed"}
    BY <1>4 DEF Ended, Heard
  <2>2. k - 1 \in Relays
    BY <2>1 DEF Relays
  <2>3. Passed(k - 1)
    BY <1>1, <2>1, <2>2 DEF Finished
  <2>4. \A i \in Nat : (i > k => i > k - 1) /\ (i >= k => i >= k - 1)
    BY DEF Relays
  <2>5. Links \subseteq Nat /\ Relays \subseteq Nat
    BY DEF Links, Relays
  <2> QED BY <2>3, <2>4, <2>5 DEF Passed
<1>5. ASSUME <<"left", k + 1>> \in fin PROVE Passed(k)
  <2>1. PICK l \in Links : l = k + 1
    OBVIOUS
  <2>2. l # 1 /\ l - 1 = k
    BY <2>1 DEF Relays
  <2>3. <<"left", l>> \in fin
    BY <1>5, <2>1
  <2>4. relay[l - 1] \in {"closeLeft", "closed"}
    BY <2>2, <2>3 DEF Ended
  <2> QED BY <1>1, <2>2, <2>4 DEF Finished
<1>6. ASSUME <<"right", k + 1>> \in fin, buf["down"][k + 1] = 0,
             copy["down"][k] # "write"
      PROVE  Passed(k)
  <2>1. CASE k + 1 = Last
    <3>1. \A l \in Links : l > k => l = k + 1
      BY <2>1 DEF Links, Relays, Last
    <3>2. \A i \in Relays : i >= k => i = k
      BY <2>1 DEF Relays, Last
    <3> QED BY <1>6, <3>1, <3>2 DEF Passed
  <2>2. CASE k + 1 # Last
    <3>1. k + 1 \in Relays /\ relay[k + 1] = "closed"
      BY <1>2, <1>6, <2>2 DEF Ended
    <3>2. Passed(k + 1)
      BY <1>1, <3>1 DEF Finished
    <3>3. \A l \in Links : l > k => l = k + 1 \/ l > k + 1
      BY DEF Links, Relays
    <3>4. \A i \in Relays : i >= k => i = k \/ i >= k + 1
      BY DEF Relays
    <3> QED BY <1>6, <3>2, <3>3, <3>4 DEF Passed
  <2> QED BY <2>1, <2>2
<1> QED BY <1>3, <1>4, <1>5, <1>6

(* Then no copy fails to write, and no dial is left. *)
LEMMA NoWriteFails ==
  ASSUME TypeOK, Ended, NoneAdded, Draining, Heard,
         NEW k \in Relays, NEW d \in Dirs, CopyWriteFails(d, k)
  PROVE  FALSE
<1>1. d = "down"
  BY UpEmpty DEF CopyWriteFails, Dirs, Heard
<1>2. <<"right", k>> \in fin \/ <<"left", k>> \in fin
  BY <1>1 DEF CopyWriteFails, Open, To, Writer, Reader, Other, Ended
<1>3. Passed(k)
  BY <1>2, PassedWhenFinished
<1>4. copy["down"][k] = "write" /\ k >= k
  BY <1>1 DEF CopyWriteFails, Relays
<1> QED BY <1>3, <1>4 DEF Passed

(* The client and the server send nothing more that is counted. *)
LEMMA NothingSent ==
  ASSUME TypeOK, Heard, Heard', NEW d \in Dirs, Send(d) \/ SendDropped(d)
  PROVE  FALSE
<1>1. CASE d = "up"
  <2>1. sent'["up"] = sent["up"] + 1 /\ got'["up"] = got["up"]
    BY <1>1 DEF Send, SendDropped, TypeOK
  <2> QED BY <1>1, <2>1, CountTypes DEF Heard
<1>2. CASE d = "down"
  BY <1>2 DEF Send, SendDropped, Sends, Heard
<1> QED BY <1>1, <1>2 DEF Dirs

(* Between two states in which the server has been heard out, no chunk of  *)
(* the response is lost.                                                   *)
LEMMA KeptStep ==
  ASSUME TypeOK, TypeOK', Dialing, Idle, Ended, NoneAdded, Draining,
         Heard, Heard', [Next]_vars
  PROVE  Kept'
<1> USE LinkTypes
<1>1. "down" \in Dirs /\ "up" \in Dirs /\ Kept /\ Heard
  BY DEF Dirs, Draining
<1>2. /\ \A l \in Links : buf["up"][l] = 0
      /\ \A k \in Relays : copy["up"][k] # "write"
  BY UpEmpty DEF Heard
<1>3. CASE Moves
  <2>1. Counted("down")' + sent["down"] = Counted("down") + sent'["down"]
    BY <1>1, <1>3, MovesCount
  <2>2. sent["down"] = Counted("down")
    BY <1>1 DEF Kept
  <2>3. /\ Counted("down") \in Nat /\ sent["down"] \in Nat
        /\ Counted("down")' \in Nat /\ sent'["down"] \in Nat
    BY <1>1, CountNaturals
  <2> DEFINE c == Counted("down") s == sent["down"]
             c2 == Counted("down")' s2 == sent'["down"]
  <2> HIDE DEF c, s, c2, s2
  <2>4. c \in Nat /\ s \in Nat /\ c2 \in Nat /\ s2 \in Nat
    BY <2>3 DEF c, s, c2, s2
  <2>5. s = c /\ c2 + s = c + s2
    BY <2>1, <2>2 DEF c, s, c2, s2
  <2>6. s2 = c2
    BY <2>4, <2>5
  <2> QED BY <2>6 DEF c2, s2, Kept
<1>4. ASSUME NEW k \in Relays, CloseRight(k) \/ CloseLeft(k) PROVE Kept'
  <2>1. buf["down"][k + 1] = 0
    <3>1. Passed(k)
      BY <1>1, <1>4 DEF Draining, Finished, CloseRight, CloseLeft
    <3>2. k + 1 \in Links /\ k + 1 > k
      BY DEF Relays
    <3> QED BY <3>1, <3>2 DEF Passed
  <2>2. buf'["down"] = buf["down"]
    <3>1. CASE CloseRight(k)
      <4>1. PICK rest \in 0..buf["up"][k + 1] :
              buf' = [buf EXCEPT !["down"][k + 1] = 0, !["up"][k + 1] = rest]
        BY <3>1 DEF CloseRight, CloseEnd, Other
      <4>2. buf'["down"] = [buf["down"] EXCEPT ![k + 1] = 0]
        BY <1>1, <4>1 DEF TypeOK
      <4>3. buf["down"] \in [Links -> 0..Capacity]
        BY <1>1 DEF TypeOK
      <4> QED BY <2>1, <4>2, <4>3
    <3>2. CASE CloseLeft(k)
      <4>1. buf["up"][k] = 0
        BY <1>2
      <4>2. buf' = [buf EXCEPT !["up"][k] = 0, !["down"][k] = buf["down"][k]]
        BY <3>2, <4>1 DEF CloseLeft, CloseEnd, Other
      <4>3. buf'["down"] = [buf["down"] EXCEPT ![k] = buf["down"][k]]
        BY <1>1, <4>2 DEF TypeOK
      <4>4. buf["down"] \in [Links -> 0..Capacity]
        BY <1>1 DEF TypeOK
      <4> QED BY <4>3, <4>4
    <3> QED BY <1>4, <3>1, <3>2
  <2> QED BY <1>1, <1>4, <2>2
          DEF CloseRight, CloseLeft, Kept, Counted, Total, Held
<1>5. ASSUME NEW k \in Relays, NEW d \in Dirs, CopyWriteFails(d, k)
      PROVE  FALSE
  BY <1>5, NoWriteFails
<1>6. ASSUME NEW d \in Dirs, SendDropped(d) PROVE FALSE
  BY <1>6, NothingSent
<1>7. ~ClientCloses /\ ~ServerCloses
  BY DEF ClientCloses, ServerCloses, Heard
<1> QED BY <1>3, <1>4, <1>5, <1>6, <1>7, MovesOrDrops DEF Drops

(* Nor does any of it come to be behind a relay that has finished. *)
LEMMA PassedStep ==
  ASSUME TypeOK, TypeOK', Dialing, Ended, NoneAdded, Draining,
         Heard, Heard', [Next]_vars, NEW k \in Relays, Finished(k)'
  PROVE  Passed(k)'
<1> USE LinkTypes
<1>1. "down" \in Dirs /\ "up" \in Dirs
  BY DEF Dirs
<1>2. Finished(k) => Passed(k)
  BY DEF Draining
<1>3. /\ \A l \in Links : buf["up"][l] = 0
      /\ \A i \in Relays : copy["up"][i] # "write"
  BY UpEmpty DEF Heard
<1>4. k \in Nat /\ k + 1 > k /\ Relays \subseteq Nat /\ Links \subseteq Nat
  BY DEF Relays, Links
<1>5. ASSUME NEW j \in Relays, Dial(j) \/ DialFails(j) PROVE FALSE
  BY <1>5 DEF Dial, DialFails, Dialing, Heard
<1>6. ASSUME NEW j \in Relays, FirstDone(j) PROVE Passed(k)'
  <2>1. Finished(k)
    BY <1>6 DEF FirstDone, Finished, TypeOK
  <2> QED BY <1>2, <1>6, <2>1 DEF FirstDone, Passed
<1>7. ASSUME NEW j \in Relays, CloseRight(j) \/ CloseLeft(j) PROVE Passed(k)'
  <2>1. Finished(k)
    BY <1>7 DEF CloseRight, CloseLeft, Finished, TypeOK
  <2>2. ASSUME NEW l \in Links, buf["down"][l] = 0 PROVE buf'["down"][l] = 0
    <3>1. buf'["down"][l] <= buf["down"][l]
      BY <1>1, <1>7, CloseEndLess DEF CloseRight, CloseLeft
    <3>2. buf'["down"][l] \in 0..Capacity
      BY <1>1 DEF TypeOK
    <3> QED BY <2>2, <3>1, <3>2, RelayAssumption
  <2>3. copy' = copy
    BY <1>7 DEF CloseRight, CloseLeft
  <2> QED BY <1>2, <2>1, <2>2, <2>3 DEF Passed
<1>8. ASSUME NEW j \in Relays, NEW d \in Dirs, CopyRead(d, j) PROVE Passed(k)'
  <2>1. d = "down" /\ From(d, j) = j + 1 /\ buf["down"][j + 1] > 0
    BY <1>3, <1>8 DEF CopyRead, Dirs, From
  <2>2. /\ buf' = [buf EXCEPT !["down"][j + 1] = buf["down"][j + 1] - 1]
        /\ copy' = [copy EXCEPT !["down"][j] = "write"]
        /\ relay' = relay
    BY <1>8, <2>1 DEF CopyRead
  <2>3. CopyBecomes("down", j, "write")
    BY <1>1, <2>2, CopyChange
  <2>4. Finished(k)
    BY <2>2, <2>3 DEF Finished, CopyBecomes
  <2>5. Passed(k)
    BY <1>2, <2>4
  <2>6. j + 1 \in Links /\ ~(j + 1 > k)
    BY <2>1, <2>5 DEF Passed
  <2>7. \A i \in Relays : i >= k => i # j
    BY <1>4, <2>6
  <2>8. \A l \in Links : l > k => l # j + 1
    BY <2>6
  <2>9. buf'["down"] = [buf["down"] EXCEPT ![j + 1] = buf["down"][j + 1] - 1]
    BY <1>1, <2>2 DEF TypeOK
  <2>10. buf["down"] \in [Links -> 0..Capacity]
    BY <1>1 DEF TypeOK
  <2>11. \A l \in Links : l > k => buf'["down"][l] = buf["down"][l]
    BY <2>8, <2>9, <2>10
  <2>12. \A i \in Relays : i >= k => copy'["down"][i] = copy["down"][i]
    BY <1>1, <2>3, <2>7 DEF CopyBecomes
  <2> QED BY <2>5, <2>11, <2>12 DEF Passed
<1>9. ASSUME NEW j \in Relays, NEW d \in Dirs, CopyEnds(d, j) PROVE Passed(k)'
  <2>1. /\ copy[d][j] = "read" /\ AtEnd(d, From(d, j))
        /\ copy' = [copy EXCEPT ![d][j] = "done"]
        /\ buf' = buf /\ relay' = relay
    BY <1>9 DEF CopyEnds
  <2>2. CopyBecomes(d, j, "done")
    BY <2>1, CopyChange
  <2>3. CASE k # j
    <3>1. Finished(k)
      BY <2>1, <2>2, <2>3 DEF Finished, CopyBecomes
    <3> QED BY <1>1, <1>2, <2>1, <2>2, <3>1 DEF Passed, CopyBecomes
  <2>4. CASE k = j
    <3>1. CASE d = "up"
      <4>1. AtEnd("up", k)
        BY <2>1, <2>4, <3>1 DEF From
      <4>2. <<"left", k>> \in fin \/ <<"right", k>> \in fin
        BY <4>1 DEF AtEnd, Writer, Reader, Other, Ended
      <4>3. Passed(k)
        BY <4>2, PassedWhenFinished
      <4> QED BY <4>3, <1>1, <2>1, <2>2 DEF Passed, CopyBecomes
    <3>2. CASE d = "down"
      <4>1. AtEnd("down", k + 1) /\ copy["down"][k] # "write"
        BY <2>1, <2>4, <3>2 DEF From
      <4>2. /\ buf["down"][k + 1] = 0
            /\ <<"right", k + 1>> \in fin \/ <<"left", k + 1>> \in fin
        BY <4>1 DEF AtEnd, Writer, Reader, Other, Ended
      <4>3. Passed(k)
        BY <4>1, <4>2, PassedWhenFinished
      <4> QED BY <4>3, <1>1, <2>1, <2>2 DEF Passed, CopyBecomes
    <3> QED BY <3>1, <3>2 DEF Dirs
  <2> QED BY <2>3, <2>4
<1>10. ASSUME NEW j \in Relays, NEW d \in Dirs, CopyWrite(d, j)
       PROVE  Passed(k)'
  <2>1. d = "down" /\ To(d, j) = j /\ copy["down"][j] = "write"
    BY <1>3, <1>10 DEF CopyWrite, Dirs, To
  <2>2. /\ buf' = [buf EXCEPT !["down"][j] = buf["down"][j] + 1]
        /\ copy' = [copy EXCEPT !["down"][j] = "read"]
        /\ relay' = relay
    BY <1>10, <2>1 DEF CopyWrite
  <2>3. CopyBecomes("down", j, "read")
    BY <1>1, <2>2, CopyChange
  <2>4. Finished(k)
    BY <2>2, <2>3 DEF Finished, CopyBecomes
  <2>5. Passed(k)
    BY <1>2, <2>4
  <2>6. ~(j >= k)
    BY <2>1, <2>5 DEF Passed
  <2>7. \A i \in Relays : i >= k => i # j
    BY <2>6
  <2>8. \A l \in Links : l > k => l # j
    BY <1>4, <2>6
  <2>9. buf'["down"] = [buf["down"] EXCEPT ![j] = buf["down"][j] + 1]
    BY <1>1, <2>2 DEF TypeOK
  <2>10. buf["down"] \in [Links -> 0..Capacity]
    BY <1>1 DEF TypeOK
  <2>11. \A l \in Links : l > k => buf'["down"][l] = buf["down"][l]
    BY <2>8, <2>9, <2>10
  <2>12. \A i \in Relays : i >= k => copy'["down"][i] = copy["down"][i]
    BY <1>1, <2>3, <2>7 DEF CopyBecomes
  <2> QED BY <2>5, <2>11, <2>12 DEF Passed
<1>11. ASSUME NEW d \in Dirs, Receive(d) PROVE Passed(k)'
  <2>1. d = "down"
    BY <1>11 DEF Receive, Reads, Heard, Dirs
  <2>2. /\ buf' = [buf EXCEPT !["down"][1] = buf["down"][1] - 1]
        /\ copy' = copy /\ relay' = relay
    BY <1>11, <2>1 DEF Receive, EndLink, Other
  <2>3. Passed(k)
    BY <1>2, <2>2 DEF Finished
  <2>4. buf'["down"] = [buf["down"] EXCEPT ![1] = buf["down"][1] - 1]
    BY <1>1, <2>2 DEF TypeOK
  <2>5. buf["down"] \in [Links -> 0..Capacity]
    BY <1>1 DEF TypeOK
  <2>6. \A l \in Links : l > k => l # 1
    BY DEF Relays, Links
  <2>7. \A l \in Links : l > k => buf'["down"][l] = buf["down"][l]
    BY <2>4, <2>5, <2>6
  <2> QED BY <2>2, <2>3, <2>7 DEF Passed
<1>12. ~ClientHalfCloses /\ ~ClientCloses /\ ~ServerCloses
  BY DEF ClientHalfCloses, ClientCloses, ServerCloses, Heard
<1>13. CASE UNCHANGED vars
  BY <1>2, <1>13 DEF vars, Finished, Passed
<1> QED BY <1>5, <1>6, <1>7, <1>8, <1>9, <1>10, <1>11, <1>12, <1>13,
           NoWriteFails, NothingSent DEF Next, Handling, Copying

(* Draining begins when the server closes, having heard all: until then    *)
(* nothing has ended, and nothing is lost.                                 *)
LEMMA HeardBegins ==
  ASSUME TypeOK, TypeOK', Quiet, Conserved, NoneAdded, ~Heard, Heard',
         [Next]_vars
  PROVE  Kept' /\ \A k \in Relays : ~Finished(k)'
<1> USE LinkTypes
<1>1. "down" \in Dirs /\ "up" \in Dirs
  BY DEF Dirs
<1>2. client = "open"
  BY DEF Heard, Next, Handling, Copying, Dial, DialFails, FirstDone, CloseRight,
         CloseLeft, CopyRead, CopyEnds, CopyWrite, CopyWriteFails, Send,
         SendDropped, Receive, ClientHalfCloses, ClientCloses, ServerCloses,
         vars
<1>3. CASE ServerCloses
  <2>1. /\ fin = {} /\ \A k \in Relays : ~Finished(k)
        /\ server = "open"
    BY <1>2, <1>3 DEF ServerCloses, Quiet, InUse, Finished
  <2>2. got["up"] = sent["up"]
    BY <1>3 DEF ServerCloses, Heard
  <2>3. buf["up"][Last] = 0
    BY <2>2, UpEmpty
  <2>4. buf' = [buf EXCEPT !["up"][Last] = 0, !["down"][Last] = buf["down"][Last]]
    BY <1>3, <2>3 DEF ServerCloses, CloseEnd, Other
  <2>5. buf'["down"] = [buf["down"] EXCEPT ![Last] = buf["down"][Last]]
    BY <1>1, <2>4 DEF TypeOK
  <2>6. buf["down"] \in [Links -> 0..Capacity]
    BY <1>1 DEF TypeOK
  <2>7. buf'["down"] = buf["down"]
    BY <2>5, <2>6
  <2>8. Kept'
    BY <1>1, <1>3, <2>1, <2>7
    DEF ServerCloses, Conserved, Kept, Counted, Total, Held
  <2>9. copy' = copy /\ relay' = relay
    BY <1>3 DEF ServerCloses
  <2> QED BY <2>1, <2>8, <2>9 DEF Finished
<1>4. CASE ~ServerCloses
  <2>1. server = "closed"
    BY <1>4 DEF Heard, Next, Handling, Copying, Dial, DialFails, FirstDone,
           CloseRight, CloseLeft, CopyRead, CopyEnds, CopyWrite,
           CopyWriteFails, Send, SendDropped, Receive, ClientHalfCloses,
           ClientCloses, vars
  <2>2. got["up"] # sent["up"]
    BY <1>2, <2>1 DEF Heard
  <2>3. got'["up"] = got["up"]
    <3>1. ~Receive("up")
      BY <2>1 DEF Receive, Reads
    <3>2. ASSUME Receive("down") PROVE got'["up"] = got["up"]
      BY <3>2 DEF Receive, TypeOK
    <3> QED BY <3>1, <3>2 DEF Dirs, Next, Handling, Copying, Dial, DialFails,
            FirstDone, CloseRight, CloseLeft, CopyRead, CopyEnds, CopyWrite,
            CopyWriteFails, Send, SendDropped, ClientHalfCloses, ClientCloses,
            ServerCloses, vars
  <2>4. sent'["up"] \in {sent["up"], sent["up"] + 1}
    <3>1. ASSUME NEW d \in Dirs, Send(d) \/ SendDropped(d)
          PROVE  sent'["up"] \in {sent["up"], sent["up"] + 1}
      BY <1>1, <3>1 DEF Send, SendDropped, TypeOK
    <3> QED BY <3>1 DEF Next, Handling, Copying, Dial, DialFails,
            FirstDone, CloseRight, CloseLeft, CopyRead, CopyEnds, CopyWrite,
            CopyWriteFails, Receive, ClientHalfCloses, ClientCloses,
            ServerCloses, vars
  <2>5. got["up"] + Total("up") + Held("up") <= sent["up"]
    BY <1>1 DEF NoneAdded, Counted
  <2>6. /\ got["up"] \in Nat /\ Total("up") \in Nat /\ Held("up") \in Nat
        /\ sent["up"] \in Nat
    BY <1>1, CountTypes
  <2>7. got["up"] <= sent["up"]
    BY <2>5, <2>6
  <2> QED BY <2>2, <2>3, <2>4, <2>6, <2>7 DEF Heard
<1> QED BY <1>3, <1>4

(* Draining holds in every reachable state. *)
LEMMA DrainingInvariant == Spec => []Draining
<1>1. Init => Draining
  BY DEF Init, Draining, Heard
<1>2. TypeOK /\ TypeOK' /\ Dialing /\ Idle /\ Ended /\ NoneAdded /\ Quiet
      /\ Conserved /\ Draining /\ [Next]_vars => Draining'
  <2> SUFFICES ASSUME TypeOK, TypeOK', Dialing, Idle, Ended, NoneAdded,
                      Quiet, Conserved, Draining, [Next]_vars
               PROVE  Draining'
    OBVIOUS
  <2>1. ASSUME Heard' PROVE Kept'
    BY <2>1, KeptStep, HeardBegins
  <2>2. ASSUME Heard', NEW k \in Relays, Finished(k)' PROVE Passed(k)'
    <3>1. CASE Heard
      BY <2>2, <3>1, PassedStep
    <3>2. CASE ~Heard
      BY <2>2, <3>2, HeardBegins
    <3> QED BY <3>1, <3>2
  <2> QED BY <2>1, <2>2 DEF Draining
<1> QED BY <1>1, <1>2, TypeCorrect, DialingInvariant, IdleInvariant,
           EndedInvariant, NoneAddedInvariant, QuietInvariant, ConservedHolds,
           PTL DEF Spec

(* When the server has heard all that the client sent, and closes after    *)
(* its response, the client sees the end of the stream only after the      *)
(* whole response, through any number of relays, though each of them       *)
(* closes both its connections when the first of its copies ends           *)
(* (proxy.go:68-79, 341-349).                                              *)
THEOREM CompleteResponseHolds == Spec => []CompleteResponse
<1>1. TypeOK /\ Ended /\ Draining => CompleteResponse
  <2> SUFFICES ASSUME TypeOK, Ended, Draining, Heard, AtEnd("down", 1)
               PROVE  got["down"] = sent["down"]
    BY DEF CompleteResponse, Heard
  <2>1. "down" \in Dirs /\ 1 \in Links /\ 1 \in Relays /\ 1 # Last
    BY RelayAssumption DEF Dirs, Links, Relays, Last
  <2>2. buf["down"][1] = 0 /\ <<"right", 1>> \in fin
    BY <2>1 DEF AtEnd, Writer, Reader, Other, Ended, Heard
  <2>3. Passed(1)
    BY <2>1, <2>2, PassedWhenFinished
  <2>4. \A l \in Links : l = 1 \/ l > 1
    BY DEF Links
  <2>5. \A i \in Relays : i >= 1
    BY DEF Relays
  <2>6. buf["down"] \in [Links -> 0..Capacity] /\ \A l \in Links : buf["down"][l] = 0
    BY <2>1, <2>2, <2>3, <2>4 DEF Passed, TypeOK
  <2>7. Total("down") = 0
    BY <2>6, NoChunks DEF Total
  <2>8. Writing(copy["down"]) = {}
    BY <2>3, <2>5 DEF Passed, Writing
  <2>9. Held("down") = 0
    BY <2>8, FS_EmptySet DEF Held
  <2>10. sent["down"] = got["down"] + Total("down") + Held("down")
    BY DEF Draining, Kept, Counted
  <2> QED BY <2>1, <2>7, <2>9, <2>10, CountTypes
<1> QED BY <1>1, TypeCorrect, EndedInvariant, DrainingInvariant, PTL
=============================================================================
