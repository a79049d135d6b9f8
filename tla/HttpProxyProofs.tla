-------------------------- MODULE HttpProxyProofs --------------------------
(***************************************************************************)
(* Proofs about HttpProxy, for any number of requests, any sets of         *)
(* addresses and ports, and lookups that return sequences of any length.   *)
(***************************************************************************)
EXTENDS HttpProxy, WellFoundedInduction, TLAPS

(* Every non-empty set of naturals has a least element. *)
LEMMA Least ==
  ASSUME NEW S, S \subseteq Nat, S # {}
  PROVE  \E x \in S : \A y \in S : x <= y
<1> DEFINE R == {ss \in Nat \X Nat : ss[1] < ss[2]}
<1>1. IsWellFoundedOn(R, Nat)
  BY NatLessThanWellFounded, Zenon DEF OpToRel
<1> HIDE DEF R
<1>2. PICK x \in S : \A y \in S : <<y, x>> \notin R
  BY <1>1, WFMin
<1>3. \A y \in S : ~(y < x)
  BY <1>2 DEF R
<1> QED BY <1>3

(* FirstIn returns an address of S, if there is one. *)
LEMMA FirstInSet ==
  ASSUME NEW ips \in Seq(Addresses), NEW S, Range(ips) \cap S # {}
  PROVE  FirstIn(ips, S) \in Range(ips) \cap S
<1> DEFINE At == {i \in DOMAIN ips : ips[i] \in S}
<1>1. At \subseteq Nat /\ At # {}
  BY DEF Range
<1>2. PICK i \in At : \A j \in At : i <= j
  BY <1>1, Least
<1>3. \A j \in 1..(i - 1) : ips[j] \notin S
  BY <1>1, <1>2
<1> QED BY <1>2, <1>3 DEF FirstIn, Range

(* The address that is chosen from an answer that is not refused is one of *)
(* the answer's, and is permitted.                                         *)
LEMMA ChosenPermitted ==
  ASSUME NEW ips \in Answers, NEW p, ~Refused(ips, p)
  PROVE  /\ Chosen(ips) \in Range(ips)
         /\ Chosen(ips) \in Addresses
         /\ \A a \in Range(ips) : Permitted(a, p)
         /\ Range(ips) \cap Loopback # {} => Chosen(ips) \in Loopback
         /\ Range(ips) \cap Loopback4 # {} => Chosen(ips) \in Loopback4
<1>1. ips \in Seq(Addresses) /\ ips # <<>>
  BY ProxyAssumption DEF Refused
<1>2. Range(ips) \subseteq Addresses /\ ips[1] \in Range(ips)
  BY <1>1 DEF Range
<1>3. \A a \in Range(ips) : Permitted(a, p)
  BY <1>2 DEF Refused, Permitted, PortAllowed, Addresses, Loopback
<1>4. CASE Range(ips) \cap Loopback4 # {}
  <2>1. Chosen(ips) \in Range(ips) \cap Loopback4
    BY <1>1, <1>4, FirstInSet DEF Chosen
  <2> QED BY <1>2, <1>3, <2>1 DEF Loopback
<1>5. CASE /\ Range(ips) \cap Loopback4 = {}
           /\ Range(ips) \cap Loopback6 # {}
  <2>1. Chosen(ips) \in Range(ips) \cap Loopback6
    BY <1>1, <1>5, FirstInSet DEF Chosen
  <2> QED BY <1>2, <1>3, <1>5, <2>1 DEF Loopback
<1>6. CASE /\ Range(ips) \cap Loopback4 = {}
           /\ Range(ips) \cap Loopback6 = {}
  BY <1>2, <1>3, <1>6 DEF Chosen, Loopback
<1> QED BY <1>4, <1>5, <1>6

-----------------------------------------------------------------------------
(* What holds of an address that was chosen, or dialed, for an answer. *)
Checked(a, p, ips) ==
  /\ p \in Ports /\ ips \in Answers
  /\ a \in Range(ips) /\ a \in Addresses
  /\ \A b \in Range(ips) : Permitted(b, p)
  /\ Range(ips) \cap Loopback # {} => a \in Loopback
  /\ Range(ips) \cap Loopback4 # {} => a \in Loopback4

(* The inductive invariant: a handler that is past the check holds an      *)
(* address that was checked for its port and answer, and keeps it.         *)
Inv ==
  /\ TypeOK
  /\ \A r \in Requests :
       pc[r] \in {"dial", "exchange"} => Checked(addr[r], port[r], answer[r])
  /\ \A d \in dials : Checked(d.to, d.port, d.answer)

(* One more dial of a checked address keeps what Inv says of dials. *)
LEMMA OneMoreDial ==
  ASSUME NEW D, D \subseteq [to : Addresses, port : Ports, answer : Answers],
         \A d \in D : Checked(d.to, d.port, d.answer),
         NEW a, NEW p, NEW ips, Checked(a, p, ips),
         NEW E, E = D \cup {[to |-> a, port |-> p, answer |-> ips]}
  PROVE  /\ E \subseteq [to : Addresses, port : Ports, answer : Answers]
         /\ \A d \in E : Checked(d.to, d.port, d.answer)
<1> DEFINE new == [to |-> a, port |-> p, answer |-> ips]
<1>1. new \in [to : Addresses, port : Ports, answer : Answers]
  BY DEF Checked
<1>2. Checked(new.to, new.port, new.answer)
  OBVIOUS
<1> QED BY <1>1, <1>2

(* Inv holds in every reachable state. *)
LEMMA Invariant == Spec => []Inv
<1>1. Init => Inv
  BY DEF Init, Inv, TypeOK, Labels, Replies, Methods
<1>2. Inv /\ [Next]_vars => Inv'
  <2> SUFFICES ASSUME Inv, [Next]_vars PROVE Inv'
    OBVIOUS
  <2> USE DEF Inv, TypeOK, Labels, Replies, Goto, Reply, request,
              ends
  <2>1. CASE UNCHANGED vars
    BY <2>1 DEF vars
  <2>2. CASE Close
    BY <2>2 DEF Close, Serving
  <2>3. ASSUME NEW r \in Requests, Arrive(r) PROVE Inv'
    BY <2>3 DEF Arrive
  <2>4. ASSUME NEW r \in Requests, BadRequest(r) PROVE Inv'
    BY <2>4 DEF BadRequest
  <2>5. ASSUME NEW r \in Requests, Forbidden(r) PROVE Inv'
    BY <2>5 DEF Forbidden
  <2>6. ASSUME NEW r \in Requests, Resolve(r) PROVE Inv'
    <3>1. PICK ips \in Answers :
            /\ ~Refused(ips, port[r])
            /\ answer' = [answer EXCEPT ![r] = ips]
            /\ addr' = [addr EXCEPT ![r] = Chosen(ips)]
      BY <2>6 DEF Resolve
    <3>2. Checked(Chosen(ips), port[r], ips)
      BY <3>1, ChosenPermitted DEF Checked
    <3>3. Chosen(ips) \in Addresses
      BY <3>2 DEF Checked
    <3> QED BY <2>6, <3>1, <3>2, <3>3 DEF Resolve
  <2>7. ASSUME NEW r \in Requests, DialTunnel(r) PROVE Inv'
    <3>1. Checked(addr[r], port[r], answer[r])
      BY <2>7 DEF DialTunnel
    <3>2. dials' = dials \cup
            {[to |-> addr[r], port |-> port[r], answer |-> answer[r]]}
      BY <2>7 DEF DialTunnel, DialAddr, Dialed
    <3>4. /\ dials' \subseteq [to : Addresses, port : Ports, answer : Answers]
          /\ \A d \in dials' : Checked(d.to, d.port, d.answer)
      BY <3>1, <3>2, OneMoreDial
    <3> QED BY <2>7, <3>4 DEF DialTunnel
  <2>8. ASSUME NEW r \in Requests, DialAndSend(r) PROVE Inv'
    <3>1. Checked(addr[r], port[r], answer[r])
      BY <2>8 DEF DialAndSend
    <3>2. dials' = dials \cup
            {[to |-> addr[r], port |-> port[r], answer |-> answer[r]]}
      BY <2>8 DEF DialAndSend, DialAddr, Dialed
    <3>4. /\ dials' \subseteq [to : Addresses, port : Ports, answer : Answers]
          /\ \A d \in dials' : Checked(d.to, d.port, d.answer)
      BY <3>1, <3>2, OneMoreDial
    <3> QED BY <2>8, <3>4 DEF DialAndSend
  <2>9. ASSUME NEW r \in Requests, Respond(r) PROVE Inv'
    BY <2>9 DEF Respond
  <2>10. ASSUME NEW r \in Requests, ExchangeFails(r) PROVE Inv'
    BY <2>10 DEF ExchangeFails
  <2>11. ASSUME NEW r \in Requests,
                BodyCopied(r) \/ TunnelEnds(r) \/ TunnelWriteFails(r)
         PROVE  Inv'
    <3>1. HandlerReturns(r)
      BY <2>11 DEF BodyCopied, TunnelEnds, TunnelWriteFails
    <3> QED BY <3>1 DEF HandlerReturns
  <2>12. ASSUME NEW r \in Requests, ClientGone(r) \/ DestinationEnds(r)
         PROVE  Inv'
    BY <2>12 DEF ClientGone, DestinationEnds
  <2>13. ASSUME NEW r \in Requests, NEW c \in Copies,
                WriteBlocks(r, c) \/ EndReads(r, c)
         PROVE  Inv'
    <3> DEFINE Copying == {q \in Requests : pc[q] \in {"tunnel", "body"}}
    <3>1. /\ writing' \subseteq writing \cup {<<r, c>>}
          /\ pc[r] \in {"tunnel", "body"} \/ <<r, c>> \in writing
          /\ UNCHANGED <<server, pc, request, answer, addr, reply, ends, dials>>
      BY <2>13 DEF WriteBlocks, EndReads
    <3>2. <<r, c>> \in Copying \X Copies
      <4>1. CASE pc[r] \in {"tunnel", "body"}
        <5>1. r \in Copying
          BY <4>1
        <5> QED BY <5>1
      <4>2. CASE <<r, c>> \in writing
        BY <4>2
      <4> QED BY <3>1, <4>1, <4>2
    <3>3. writing' \subseteq Copying \X Copies /\ Copying' = Copying
      BY <3>1, <3>2
    <3> HIDE DEF Copying
    <3>4. writing' \subseteq Copying' \X Copies
      BY <3>3
    <3> QED BY <3>1, <3>4 DEF Copying
  <2> QED BY <2>1, <2>2, <2>3, <2>4, <2>5, <2>6, <2>7, <2>8, <2>9, <2>10,
             <2>11, <2>12, <2>13 DEF Next, Handler
<1> QED BY <1>1, <1>2, PTL DEF Spec

(* The type invariant holds in every reachable state. *)
THEOREM TypeCorrect == Spec => []TypeOK
<1>1. Inv => TypeOK
  BY DEF Inv
<1> QED BY <1>1, Invariant, PTL

(* Every address the proxy dials is permitted for its port, whatever the   *)
(* lookups return.                                                         *)
THEOREM OnlyPermittedHolds == Spec => []OnlyPermitted
<1>1. Inv => OnlyPermitted
  BY DEF Inv, OnlyPermitted, Checked
<1> QED BY <1>1, Invariant, PTL

(* Nothing is dialed for an answer with an address that is not permitted. *)
THEOREM MixedRefusedHolds == Spec => []MixedRefused
<1>1. Inv => MixedRefused
  BY DEF Inv, MixedRefused, Checked
<1> QED BY <1>1, Invariant, PTL

(* The address dialed is one of the answer that was checked, and loopback  *)
(* when one of them is.                                                    *)
THEOREM DialsCheckedHolds == Spec => []DialsChecked
<1>1. Inv => DialsChecked
  BY DEF Inv, DialsChecked, Checked
<1> QED BY <1>1, Invariant, PTL
=============================================================================
