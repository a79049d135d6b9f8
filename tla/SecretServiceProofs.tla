------------------------ MODULE SecretServiceProofs ------------------------
(***************************************************************************)
(* Proofs about SecretService, for any number of connections and any       *)
(* well-formed scripts: messages are cut out where they are, and each      *)
(* question is answered once, in order, with its own answer.               *)
(***************************************************************************)
EXTENDS SecretService, FiniteSetTheorems, SequenceTheorems,
        WellFoundedInduction, TLAPS

(* Every non-empty set of naturals has a least element. *)
LEMMA Least ==
  ASSUME NEW S, S \subseteq Nat, S # {}
  PROVE  \E x \in S : \A y \in S : x <= y
<1> DEFINE R == {ss \in Nat \X Nat : ss[1] < ss[2]}
<1>1. IsWellFoundedOn(R, Nat)
  BY NatLessThanWellFounded, Zenon DEF OpToRel
<1> HIDE DEF R
<1>2. PICK x \in S : \A y \in S : <<y, x>> \notin R
  BY <1>1, WFMin
<1>3. \A y \in S : ~(y < x)
  BY <1>2 DEF R
<1> QED
  BY <1>3

-----------------------------------------------------------------------------
(* The places of the items.                                                *)

(* The last word of item k. *)
End(s, k) == IF k = 0 THEN 0 ELSE s[k].at - 1 + Size(s[k])

LEMMA AlignType ==
  ASSUME NEW n \in Nat
  PROVE  Align8(n) \in Nat /\ Align8(n) >= n
BY DEF Align8

LEMMA SizeType ==
  ASSUME NEW item \in Items
  PROVE  /\ item.at \in Nat /\ Size(item) \in Nat \ {0}
         /\ item.kind \in {"nul", "line", "msg"}
         /\ item.kind = "nul" => Size(item) = 1
         /\ item.kind = "line" => Size(item) = 2
         /\ item.kind = "msg" => /\ Size(item) = FrameLen(item)
                                 /\ item.serial \in Nat
                                 /\ item.endian \in {"little", "big"}
<1>1. CASE item.kind = "nul"
  BY <1>1 DEF Items, Size
<1>2. CASE item.kind = "line"
  BY <1>2 DEF Items, Size
<1>3. CASE item.kind = "msg"
  <2>1. /\ item.at \in Nat /\ item.fields \in Nat /\ item.body \in Nat
        /\ item.serial \in Nat /\ item.endian \in {"little", "big"}
    BY <1>3 DEF Items
  <2>2. Align8(Header + item.fields) \in Nat /\ Align8(Header + item.fields) >= 4
    BY <2>1, AlignType DEF Header
  <2>3. Size(item) = Align8(Header + item.fields) + item.body
    BY <1>3 DEF Size
  <2> QED
    BY <1>3, <2>1, <2>2, <2>3 DEF FrameLen
<1> QED
  BY <1>1, <1>2, <1>3 DEF Items

LEMMA EndStep ==
  ASSUME NEW s, WellFormed(s)
  PROVE  /\ Len(s) \in Nat /\ DOMAIN s = 1..Len(s)
         /\ \A i \in 1..Len(s) : s[i] \in Items
         /\ \A k \in 0..Len(s) : End(s, k) \in Nat
         /\ \A k \in 0..(Len(s) - 1) : /\ s[k + 1].at = End(s, k) + 1
                                       /\ End(s, k + 1) = End(s, k) + Size(s[k + 1])
<1>1. Len(s) \in Nat /\ DOMAIN s = 1..Len(s) /\ \A i \in 1..Len(s) : s[i] \in Items
  BY DEF WellFormed
<1>2. ASSUME NEW k \in 0..(Len(s) - 1)
      PROVE  s[k + 1].at = End(s, k) + 1
  <2>1. CASE k = 0
    BY <1>1, <2>1 DEF WellFormed, Laid, End
  <2>2. CASE k # 0
    <3>1. k \in 1..(Len(s) - 1) /\ s[k] \in Items
      BY <1>1, <2>2
    <3>2. s[k].at \in Nat /\ Size(s[k]) \in Nat
      BY <3>1, SizeType
    <3> QED
      BY <2>2, <3>1, <3>2 DEF WellFormed, Laid, End
  <2> QED
    BY <2>1, <2>2
<1>3. ASSUME NEW k \in 1..Len(s)
      PROVE  s[k].at \in Nat \ {0} /\ Size(s[k]) \in Nat
  <2>1. s[k].at \in Nat /\ Size(s[k]) \in Nat
    BY <1>1, SizeType
  <2>2. CASE k = 1
    BY <2>1, <2>2, <1>2, <1>1 DEF End
  <2>3. CASE k # 1
    <3>1. k - 1 \in 0..(Len(s) - 1) /\ k - 1 \in 1..Len(s) /\ k - 1 + 1 = k
      BY <2>3, <1>1
    <3>2. s[k].at = s[k - 1].at + Size(s[k - 1])
      BY <3>1, <1>1 DEF WellFormed, Laid
    <3>3. s[k - 1].at \in Nat /\ Size(s[k - 1]) \in Nat \ {0}
      BY <3>1, <1>1, SizeType
    <3> QED
      BY <2>1, <3>2, <3>3
  <2> QED
    BY <2>2, <2>3
<1>4. ASSUME NEW k \in 0..Len(s) PROVE End(s, k) \in Nat
  BY <1>3 DEF End
<1>5. ASSUME NEW k \in 0..(Len(s) - 1)
      PROVE  End(s, k + 1) = End(s, k) + Size(s[k + 1])
  <2>1. k + 1 \in 1..Len(s) /\ k \in 0..Len(s) /\ k + 1 # 0
    BY <1>1
  <2>2. End(s, k + 1) = s[k + 1].at - 1 + Size(s[k + 1])
    BY <2>1 DEF End
  <2>3. End(s, k) \in Nat /\ Size(s[k + 1]) \in Nat /\ s[k + 1].at = End(s, k) + 1
    BY <2>1, <1>2, <1>3, <1>4
  <2> QED
    BY <2>2, <2>3
<1> QED
  BY <1>1, <1>2, <1>4, <1>5

LEMMA EndGrows ==
  ASSUME NEW s, WellFormed(s), NEW j \in 0..Len(s), NEW k \in 0..Len(s), j < k
  PROVE  End(s, j) < End(s, k)
<1> DEFINE Bad == {n \in 1..Len(s) : j < n /\ ~(End(s, j) < End(s, n))}
<1>1. Len(s) \in Nat
  BY EndStep
<1>2. ASSUME Bad # {} PROVE FALSE
  <2>1. PICK n \in Bad : \A m \in Bad : n <= m
    <3>1. Bad \subseteq Nat
      BY <1>1
    <3> HIDE DEF Bad
    <3> QED
      BY <1>2, <3>1, Least
  <2>2. n - 1 \in 0..(Len(s) - 1) /\ n - 1 \notin Bad /\ n \in 1..Len(s) /\ j < n
    BY <1>1, <2>1
  <2>3. j = n - 1 \/ End(s, j) < End(s, n - 1)
    BY <2>2
  <2>4. End(s, n) = End(s, n - 1) + Size(s[n])
    <3>1. n - 1 + 1 = n
      BY <2>2
    <3> QED
      BY <2>2, <3>1, EndStep
  <2>5. Size(s[n]) \in Nat \ {0}
    BY <2>2, EndStep, SizeType
  <2>6. /\ End(s, j) \in Nat /\ End(s, n - 1) \in Nat /\ End(s, n) \in Nat
        /\ ~(End(s, j) < End(s, n))
    <3>1. n - 1 \in 0..Len(s) /\ n \in 0..Len(s)
      BY <1>1, <2>2
    <3> QED
      BY <2>1, <3>1, EndStep
  <2> HIDE DEF Bad
  <2> QED
    BY <2>3, <2>4, <2>5, <2>6
<1> QED
  BY <1>1, <1>2

(* Where item k has been taken, the next item is item k + 1. *)
LEMMA NextIs ==
  ASSUME NEW c \in Conns, WellFormed(script[c]), NEW k \in 0..(Len(script[c]) - 1),
         pos[c] = End(script[c], k)
  PROVE  AtItem(c) = {k + 1} /\ NextItem(c) = script[c][k + 1]
<1> DEFINE s == script[c]
<1>1. /\ Len(s) \in Nat /\ DOMAIN s = 1..Len(s) /\ k + 1 \in 1..Len(s)
      /\ s[k + 1].at = pos[c] + 1
  BY EndStep
<1>2. ASSUME NEW i \in 1..Len(s), s[i].at = pos[c] + 1 PROVE i = k + 1
  <2>1. i - 1 \in 0..(Len(s) - 1) /\ i - 1 \in 0..Len(s) /\ k \in 0..Len(s)
        /\ i - 1 + 1 = i
    BY <1>1
  <2>2. End(s, i - 1) = End(s, k)
    <3>1. /\ s[i - 1 + 1].at = End(s, i - 1) + 1
          /\ End(s, i - 1) \in Nat /\ End(s, k) \in Nat
      BY <2>1, EndStep
    <3> QED
      BY <1>2, <2>1, <3>1
  <2>3. ~(i - 1 < k) /\ ~(k < i - 1)
    <3>1. End(s, i - 1) \in Nat
      BY <2>1, EndStep
    <3> QED
      BY <2>1, <2>2, <3>1, EndGrows
  <2> QED
    BY <2>1, <2>3
<1>3. AtItem(c) = {k + 1}
  BY <1>1, <1>2 DEF AtItem
<1> QED
  BY <1>3 DEF NextItem

-----------------------------------------------------------------------------
(* Counting the questions up to an item.                                   *)

Before(S, k) == {i \in S : i <= k}

LEMMA BeforeStep ==
  ASSUME NEW n \in Nat, NEW S \in SUBSET (1..n), NEW k \in Nat
  PROVE  /\ Cardinality(Before(S, k)) \in Nat
         /\ Cardinality(Before(S, k + 1)) =
              IF k + 1 \in S THEN Cardinality(Before(S, k)) + 1
                             ELSE Cardinality(Before(S, k))
<1>1. IsFiniteSet(1..n)
  BY FS_Interval
<1>2. Before(S, k) \in SUBSET (1..n)
  BY DEF Before
<1>3. IsFiniteSet(Before(S, k)) /\ Cardinality(Before(S, k)) \in Nat
  BY <1>1, <1>2, FS_Subset, FS_CardinalityType
<1>0. \A i \in S : i <= k + 1 <=> i <= k \/ i = k + 1
  <2>1. \A i \in 1..n : i <= k + 1 <=> i <= k \/ i = k + 1
    OBVIOUS
  <2> QED
    BY <2>1
<1>4. CASE k + 1 \in S
  <2>1. Before(S, k + 1) = Before(S, k) \cup {k + 1} /\ k + 1 \notin Before(S, k)
    <3>1. ~(k + 1 <= k)
      OBVIOUS
    <3> QED
      BY <1>0, <1>4, <3>1, Zenon DEF Before
  <2> QED
    BY <1>3, <1>4, <2>1, FS_AddElement
<1>5. CASE k + 1 \notin S
  <2>1. Before(S, k + 1) = Before(S, k)
    BY <1>0, <1>5, Zenon DEF Before
  <2> QED
    BY <1>3, <1>5, <2>1
<1> QED
  BY <1>4, <1>5, <1>3

LEMMA BeforeLast ==
  ASSUME NEW n \in Nat, NEW S \in SUBSET (1..n), NEW k \in S
  PROVE  /\ Cardinality(Before(S, k - 1)) \in Nat
         /\ Cardinality(Before(S, k)) = Cardinality(Before(S, k - 1)) + 1
<1>1. k - 1 \in Nat /\ k - 1 + 1 = k
  OBVIOUS
<1>2. /\ Cardinality(Before(S, k - 1)) \in Nat
      /\ Cardinality(Before(S, k - 1 + 1)) =
           IF k - 1 + 1 \in S THEN Cardinality(Before(S, k - 1)) + 1
                              ELSE Cardinality(Before(S, k - 1))
  BY <1>1, BeforeStep
<1> QED
  BY <1>1, <1>2

LEMMA BeforeNone ==
  ASSUME NEW n \in Nat, NEW S \in SUBSET (1..n)
  PROVE  Cardinality(Before(S, 0)) = 0
<1>1. \A i \in 1..n : ~(i <= 0)
  OBVIOUS
<1>2. Before(S, 0) = {}
  BY <1>1 DEF Before
<1> QED
  BY <1>2, FS_EmptySet

LEMMA AnsweredRange ==
  ASSUME NEW s, WellFormed(s)
  PROVE  /\ Answered(s) \in SUBSET (1..Len(s)) /\ Calls(s) \in SUBSET (1..Len(s))
         /\ Len(s) \in Nat
BY EndStep DEF Answered, Calls, Lines, Heard

-----------------------------------------------------------------------------
(* What is true of one connection.                                         *)

Kinds == {"OK", "REJECTED", "ERROR", "UnknownMethod"}
           \cup {Returns[m] : m \in DOMAIN Returns}
Replies == [kind : Kinds, to : Nat, serial : Nat]

LEMMA ReplyTypes ==
  ASSUME NEW item \in Items, NEW n \in Nat
  PROVE  /\ item.kind = "line" => SaslReply(item) \in Replies
         /\ item.kind = "msg" => Reply(item, n) \in Replies
<1>1. SaslReply(item) \in Replies
  <2>1. SaslAnswer(item.text) \in Kinds
    BY DEF SaslAnswer, Kinds
  <2> QED
    BY <2>1 DEF SaslReply, Replies
<1>2. ASSUME item.kind = "msg" PROVE Reply(item, n) \in Replies
  <2>1. Dispatch(item) \in Kinds
    BY DEF Dispatch, Kinds
  <2>2. item.serial \in Nat
    BY <1>2, SizeType
  <2> QED
    BY <2>1, <2>2 DEF Reply, Replies
<1> QED
  BY <1>1, <1>2

(* The first k items of c have been taken, and their questions answered,   *)
(* but for one whose answer is being written.                              *)
Taken(c, k) ==
  LET s == script[c] IN
  /\ pos[c] = End(s, k)
  /\ \A i \in 1..k : ~Fatal(s, i)
  /\ conn[c] = "nul" => k = 0
  /\ conn[c] = "sasl" => k >= 1 /\ ~Begun(s, k)
  /\ conn[c] = "calls" => Begun(s, k)
  /\ serial[c] = Cardinality(Before(Calls(s), k))
  /\ c \notin gone =>
       /\ Len(got[c]) + Len(out[c]) + Len(pend[c])
            = Cardinality(Before(Answered(s), k))
       /\ pend[c] # <<>> => k \in Answered(s) /\ pend[c] = <<AnswerTo(s, k)>>

Conn(c) ==
  /\ script[c] \in Scripts[c]
  /\ conn[c] \in Serving \cup {"none", "queued", "closed"}
  /\ sent[c] \in Nat /\ sent[c] <= End(script[c], Len(script[c]))
  /\ fetched[c] \in Nat /\ fetched[c] <= sent[c]
  /\ pos[c] \in Nat /\ pos[c] <= fetched[c]
  /\ serial[c] \in Nat
  /\ pend[c] \in Seq(Replies) /\ Len(pend[c]) <= 1
  /\ out[c] \in Seq(Replies) /\ Len(out[c]) <= OutCap
  /\ got[c] \in Seq(Replies)
  /\ conn[c] \in Serving => \E k \in 0..Len(script[c]) : Taken(c, k)
  /\ conn[c] \in {"none", "queued"} =>
       /\ pos[c] = 0 /\ serial[c] = 0
       /\ pend[c] = <<>> /\ out[c] = <<>> /\ got[c] = <<>>
  /\ svc # "listening" => conn[c] \in {"none", "closed"}

Functions ==
  /\ script = [c \in Conns |-> script[c]] /\ conn = [c \in Conns |-> conn[c]]
  /\ sent = [c \in Conns |-> sent[c]] /\ fetched = [c \in Conns |-> fetched[c]]
  /\ pos = [c \in Conns |-> pos[c]] /\ serial = [c \in Conns |-> serial[c]]
  /\ pend = [c \in Conns |-> pend[c]] /\ out = [c \in Conns |-> out[c]]
  /\ got = [c \in Conns |-> got[c]]

Inv == /\ svc \in {"start", "bound", "listening", "down"}
       /\ gone \subseteq Conns
       /\ Functions
       /\ \A c \in Conns : Conn(c)

(* Nothing changes for d. *)
Same(d) ==
  /\ script'[d] = script[d] /\ conn'[d] = conn[d]
  /\ d \in gone' <=> d \in gone
  /\ sent'[d] = sent[d] /\ fetched'[d] = fetched[d] /\ pos'[d] = pos[d]
  /\ serial'[d] = serial[d] /\ pend'[d] = pend[d] /\ out'[d] = out[d]
  /\ got'[d] = got[d]

LEMMA SameConn ==
  ASSUME NEW d \in Conns, Conn(d), Same(d), svc' = svc
  PROVE  Conn(d)'
BY DEF Conn, Same, Taken

LEMMA ScriptForm ==
  ASSUME NEW c \in Conns, Conn(c)
  PROVE  WellFormed(script[c])
BY ScriptsAssumption DEF Conn

(* A goroutine that has what it needs is before an item of its script,     *)
(* which is one that its state is for.                                     *)
LEMMA ReadyAt ==
  ASSUME NEW c \in Conns, Conn(c), Ready(c)
  PROVE  \E k \in 0..(Len(script[c]) - 1) :
           LET item == script[c][k + 1] IN
           /\ Taken(c, k) /\ NextItem(c) = item /\ AtItem(c) # {}
           /\ k + 1 \in DOMAIN script[c] /\ item \in Items
           /\ k + 1 \in 1..Len(script[c])
           /\ conn[c] = "sasl" => item.kind = "line"
           /\ conn[c] = "calls" => item.kind = "msg"
           /\ k = 0 <=> conn[c] = "nul"
<1> DEFINE s == script[c]
<1>1. WellFormed(s)
  BY ScriptForm
<1>2. PICK k \in 0..Len(s) : Taken(c, k)
  BY DEF Conn, Ready
<1>3. Len(s) \in Nat /\ DOMAIN s = 1..Len(s)
  BY <1>1, EndStep
<1>4. Needed(c) > 0
  <2>1. ASSUME Framed(c) PROVE FrameLen(NextItem(c)) > 0
    <3>1. AtItem(c) # {} /\ NextItem(c).kind = "msg"
      BY <2>1 DEF Framed, IsNext
    <3>2. NextItem(c) \in Items
      BY <1>1, <1>3, <3>1, EndStep DEF AtItem, NextItem
    <3> QED
      BY <3>1, <3>2, SizeType
  <2> QED
    BY <2>1 DEF Needed, Ready, Serving, Header
<1>5. pos[c] < sent[c]
  <2>1. pos[c] \in Nat /\ fetched[c] \in Nat /\ sent[c] \in Nat /\ fetched[c] <= sent[c]
    BY DEF Conn
  <2>2. Needed(c) \in Int
    <3>1. ASSUME Framed(c) PROVE FrameLen(NextItem(c)) \in Int
      <4>1. AtItem(c) # {} /\ NextItem(c).kind = "msg"
        BY <3>1 DEF Framed, IsNext
      <4>2. NextItem(c) \in Items
        BY <1>1, <1>3, <4>1, EndStep DEF AtItem, NextItem
      <4> QED
        BY <4>1, <4>2, SizeType
    <3> QED
      BY <3>1 DEF Needed, Ready, Serving, Header
  <2> QED
    BY <2>1, <2>2, <1>4 DEF Ready
<1>6. k # Len(s)
  BY <1>2, <1>5 DEF Taken, Conn
<1>7. k \in 0..(Len(s) - 1) /\ k + 1 \in 1..Len(s) /\ k + 1 - 1 = k
  BY <1>3, <1>6
<1>8. NextItem(c) = s[k + 1] /\ AtItem(c) # {}
  BY <1>1, <1>2, <1>7, NextIs DEF Taken
<1>9. s[k + 1] \in Items
  BY <1>1, <1>7, EndStep
<1>10. /\ s[k + 1].kind = "nul" => k = 0
       /\ s[k + 1].kind = "msg" <=> Begun(s, k)
  BY <1>1, <1>3, <1>7 DEF WellFormed
<1>11. conn[c] \in Serving
  BY DEF Ready
<1>12. k = 0 <=> conn[c] = "nul"
  <2>1. ~Begun(s, 0)
    BY <1>3 DEF Begun
  <2> QED
    BY <1>2, <1>11, <2>1 DEF Taken, Serving
<1> QED
  BY <1>2, <1>3, <1>7, <1>8, <1>9, <1>10, <1>12, SizeType DEF Taken

-----------------------------------------------------------------------------
(* Each step keeps it.                                                     *)

LEMMA OneConn ==
  ASSUME Inv, NEW c \in Conns, svc' = svc, gone' \subseteq Conns, Functions',
         \A d \in Conns \ {c} : Same(d), Conn(c)'
  PROVE  Inv'
<1>1. ASSUME NEW d \in Conns \ {c} PROVE Conn(d)'
  BY <1>1, SameConn DEF Inv
<1> QED
  BY <1>1 DEF Inv

(* The item that is taken ends where the next one starts. *)
LEMMA TakeItem ==
  ASSUME NEW c \in Conns, Conn(c), NEW k \in 0..(Len(script[c]) - 1), Taken(c, k)
  PROVE  LET s == script[c] IN
         /\ End(s, k + 1) = pos[c] + Size(s[k + 1])
         /\ k + 1 \in 0..Len(s) /\ k + 1 >= 1
         /\ ~Fatal(s, k + 1) => /\ \A i \in 1..(k + 1) : ~Fatal(s, i)
                                /\ k + 1 \in Heard(s)
         /\ Begun(s, k + 1) <=> \/ Begun(s, k)
                                \/ s[k + 1].kind = "line" /\ s[k + 1].text = "BEGIN"
<1> DEFINE s == script[c]
<1>1. /\ WellFormed(s) /\ Len(s) \in Nat /\ DOMAIN s = 1..Len(s)
      /\ k \in Nat /\ k + 1 \in 1..Len(s)
  BY ScriptForm, EndStep
<1>2. End(s, k + 1) = pos[c] + Size(s[k + 1])
  BY <1>1, EndStep DEF Taken
<1>3. ASSUME ~Fatal(s, k + 1)
      PROVE  /\ \A i \in 1..(k + 1) : ~Fatal(s, i)
             /\ k + 1 \in Heard(s)
  <2>1. \A i \in 1..(k + 1) : i \in 1..k \/ i = k + 1
    BY <1>1
  <2> QED
    BY <1>1, <1>3, <2>1 DEF Taken, Heard
<1>4. \A i \in DOMAIN s : i <= k + 1 <=> i <= k \/ i = k + 1
  BY <1>1
<1> QED
  BY <1>1, <1>2, <1>3, <1>4 DEF Begun

(* Counting goes on with the next item. *)
LEMMA NextCount ==
  ASSUME NEW c \in Conns, Conn(c), NEW k \in 0..(Len(script[c]) - 1)
  PROVE  LET s == script[c] IN
         /\ Cardinality(Before(Calls(s), k)) \in Nat
         /\ Cardinality(Before(Answered(s), k)) \in Nat
         /\ Cardinality(Before(Calls(s), k + 1)) =
              Cardinality(Before(Calls(s), k)) + (IF k + 1 \in Calls(s) THEN 1 ELSE 0)
         /\ Cardinality(Before(Answered(s), k + 1)) =
              Cardinality(Before(Answered(s), k))
                + (IF k + 1 \in Answered(s) THEN 1 ELSE 0)
<1> DEFINE s == script[c]
<1>1. /\ Answered(s) \in SUBSET (1..Len(s)) /\ Calls(s) \in SUBSET (1..Len(s))
      /\ Len(s) \in Nat
  BY ScriptForm, AnsweredRange
<1>2. k \in Nat
  BY <1>1
<1>3. ASSUME NEW S \in SUBSET (1..Len(s))
      PROVE  /\ Cardinality(Before(S, k)) \in Nat
             /\ Cardinality(Before(S, k + 1)) =
                  Cardinality(Before(S, k)) + (IF k + 1 \in S THEN 1 ELSE 0)
  <2>1. /\ Cardinality(Before(S, k)) \in Nat
        /\ Cardinality(Before(S, k + 1)) =
             IF k + 1 \in S THEN Cardinality(Before(S, k)) + 1
                            ELSE Cardinality(Before(S, k))
    BY <1>1, <1>2, BeforeStep
  <2> QED
    BY <2>1
<1> QED
  BY <1>1, <1>3

(* A step that takes item k + 1, and has its answer to write if it has one. *)
Advances(c, k) ==
  LET s == script[c] IN
  /\ script'[c] = s /\ gone' = gone /\ got'[c] = got[c] /\ out'[c] = out[c]
  /\ pos'[c] = pos[c] + Size(s[k + 1])
  /\ conn'[c] \in {"sasl", "calls"}
  /\ conn'[c] = "calls" <=> Begun(s, k + 1)
  /\ serial'[c] = serial[c] + (IF k + 1 \in Calls(s) THEN 1 ELSE 0)
  /\ pend'[c] = IF k + 1 \in Answered(s) THEN <<AnswerTo(s, k + 1)>> ELSE <<>>

LEMMA Advance ==
  ASSUME NEW c \in Conns, Conn(c), NEW k \in 0..(Len(script[c]) - 1), Taken(c, k),
         ~Fatal(script[c], k + 1), pend[c] = <<>>, Advances(c, k)
  PROVE  Taken(c, k + 1)'
<1> DEFINE s == script[c]
<1>1. pos'[c] = End(s, k + 1) /\ \A i \in 1..(k + 1) : ~Fatal(s, i)
  BY TakeItem DEF Advances
<1>2. serial'[c] = Cardinality(Before(Calls(s), k + 1))
  BY NextCount DEF Advances, Taken
<1>3. k + 1 >= 1 /\ conn'[c] # "nul"
  BY TakeItem DEF Advances
<1>4. ASSUME c \notin gone
      PROVE  /\ Len(got[c]) + Len(out[c]) + Len(pend'[c])
                  = Cardinality(Before(Answered(s), k + 1))
             /\ pend'[c] # <<>> => /\ k + 1 \in Answered(s)
                                   /\ pend'[c] = <<AnswerTo(s, k + 1)>>
  <2>1. Len(<<>>) = 0 /\ Len(<<AnswerTo(s, k + 1)>>) = 1
    OBVIOUS
  <2>2. Len(got[c]) \in Nat /\ Len(out[c]) \in Nat
    BY DEF Conn
  <2>3. Cardinality(Before(Answered(s), k)) = Len(got[c]) + Len(out[c])
    <3>1. Len(got[c]) + Len(out[c]) + Len(pend[c]) = Cardinality(Before(Answered(s), k))
      BY <1>4 DEF Taken
    <3>2. Len(pend[c]) = 0
      BY <2>1
    <3>3. \A a, b \in Nat : \A n : a + b + 0 = n => n = a + b
      OBVIOUS
    <3> QED
      BY <2>2, <3>1, <3>2, <3>3, Zenon
  <2>4. Len(pend'[c]) = IF k + 1 \in Answered(s) THEN 1 ELSE 0
    BY <2>1 DEF Advances
  <2>5. Cardinality(Before(Answered(s), k + 1)) =
          Cardinality(Before(Answered(s), k)) + (IF k + 1 \in Answered(s) THEN 1 ELSE 0)
    BY NextCount
  <2>6. Len(got[c]) + Len(out[c]) + Len(pend'[c])
          = Cardinality(Before(Answered(s), k + 1))
    BY <2>2, <2>3, <2>4, <2>5
  <2> QED
    BY <2>6 DEF Advances
<1> QED
  BY <1>1, <1>2, <1>3, <1>4 DEF Taken, Advances

LEMMA SingleReply ==
  ASSUME NEW r \in Replies
  PROVE  <<r>> \in Seq(Replies) /\ Len(<<r>>) = 1 /\ <<r>> # <<>>
<1>1. <<r>> \in Seq(Replies)
  OBVIOUS
<1>2. Len(<<r>>) = 1 /\ <<r>> # <<>>
  OBVIOUS
<1> QED
  BY <1>1, <1>2

LEMMA NulStep ==
  ASSUME Inv, NEW c \in Conns, ReadNul(c)
  PROVE  Inv'
<1> DEFINE s == script[c]
<1>1. Conn(c) /\ Ready(c) /\ conn[c] = "nul"
  BY DEF Inv, ReadNul
<1>2. PICK k \in 0..(Len(s) - 1) :
        /\ Taken(c, k) /\ NextItem(c) = s[k + 1] /\ AtItem(c) # {}
        /\ k + 1 \in DOMAIN s /\ s[k + 1] \in Items /\ k = 0
  BY <1>1, ReadyAt
<1>3. /\ pos'[c] = pos[c] + 1 /\ pos[c] + 1 <= fetched[c]
      /\ conn'[c] = IF s[1].kind = "nul" THEN "sasl" ELSE "closed"
      /\ Functions' /\ \A d \in Conns \ {c} : Same(d)
  <2>1. Functions' /\ pos'[c] = pos[c] + 1
    BY DEF ReadNul, Take, Inv, Functions, outVars
  <2>2. \A d \in Conns \ {c} : Same(d)
    BY DEF ReadNul, Take, Inv, Functions, Same, outVars
  <2>3. pos[c] + 1 <= fetched[c]
    BY <1>1 DEF Ready, Needed, Conn
  <2>4. conn'[c] = IF IsNext(c, "nul") THEN "sasl" ELSE "closed"
    BY DEF ReadNul, Inv, Functions
  <2> QED
    BY <1>2, <2>1, <2>2, <2>3, <2>4 DEF IsNext
<1>4. UNCHANGED <<svc, script, gone, sent, fetched, serial, pend, out, got>>
  BY DEF ReadNul, outVars
<1>5. ASSUME s[1].kind = "nul" PROVE Taken(c, 1)'
  <2>1. /\ ~Fatal(s, 1) /\ 1 \notin Calls(s) /\ 1 \notin Answered(s)
        /\ Size(s[1]) = 1 /\ ~Begun(s, 0)
    BY <1>1, <1>2, <1>5, SizeType, ScriptForm, EndStep
       DEF Fatal, Calls, Lines, Answered, Begun
  <2>2. pend[c] = <<>>
    BY <1>1 DEF Ready
  <2> QED
    <3>1. k = 0 /\ 0 + 1 = 1 /\ ~Begun(s, 1)
      BY <1>1, <1>2, <1>5, <2>1, TakeItem
    <3>2. Advances(c, 0)
      BY <1>1, <1>2, <1>3, <1>4, <1>5, <2>1, <2>2, <3>1 DEF Advances, Conn
    <3> QED
      BY <1>1, <1>2, <2>1, <2>2, <3>1, <3>2, Advance
<1>6. Conn(c)'
  <2>1. Len(s) \in Nat /\ 1 \in 0..Len(s)
    BY <1>1, <1>2, ScriptForm, EndStep
  <2> QED
    BY <1>1, <1>3, <1>4, <1>5, <2>1 DEF Conn, Serving
<1> QED
  BY <1>3, <1>4, <1>6, OneConn DEF Inv

LEMMA BeginStep ==
  ASSUME Inv, NEW c \in Conns, Begin(c)
  PROVE  Inv'
<1> DEFINE s == script[c]
<1>1. Conn(c) /\ Ready(c) /\ conn[c] = "sasl" /\ pend[c] = <<>>
  BY DEF Inv, Begin, Ready
<1>2. PICK k \in 0..(Len(s) - 1) :
        /\ Taken(c, k) /\ NextItem(c) = s[k + 1] /\ k + 1 \in DOMAIN s
        /\ s[k + 1] \in Items /\ s[k + 1].kind = "line" /\ k # 0
  BY <1>1, ReadyAt
<1>3. /\ pos'[c] = pos[c] + 2 /\ pos[c] + 2 <= fetched[c] /\ conn'[c] = "calls"
      /\ Functions' /\ \A d \in Conns \ {c} : Same(d)
  <2>1. Functions' /\ pos'[c] = pos[c] + 2 /\ conn'[c] = "calls"
    BY DEF Begin, Take, Inv, Functions, outVars
  <2>2. \A d \in Conns \ {c} : Same(d)
    BY DEF Begin, Take, Inv, Functions, Same, outVars
  <2>3. pos[c] + 2 <= fetched[c]
    BY <1>1 DEF Ready, Needed, Conn
  <2> QED
    BY <2>1, <2>2, <2>3
<1>4. UNCHANGED <<svc, script, gone, sent, fetched, serial, pend, out, got>>
  BY DEF Begin, outVars
<1>5. Taken(c, k + 1)'
  <2>1. /\ ~Fatal(s, k + 1) /\ k + 1 \notin Calls(s) /\ k + 1 \notin Answered(s)
        /\ Size(s[k + 1]) = 2 /\ s[k + 1].text = "BEGIN"
    BY <1>2, SizeType DEF Fatal, Calls, Lines, Answered, Begin
  <2> QED
    <3>1. Begun(s, k + 1)
      BY <1>1, <1>2, <2>1, TakeItem
    <3>2. Advances(c, k)
      BY <1>1, <1>2, <1>3, <1>4, <2>1, <3>1 DEF Advances, Conn
    <3> QED
      BY <1>1, <1>2, <2>1, <3>2, Advance
<1>6. Conn(c)'
  <2>1. k + 1 \in 0..Len(s)
    BY <1>1, <1>2, TakeItem
  <2>2. \E j \in 0..Len(script'[c]) : Taken(c, j)'
    BY <1>4, <1>5, <2>1
  <2>3. svc = "listening"
    BY <1>1 DEF Conn
  <2>4. pos'[c] \in Nat /\ pos'[c] <= fetched'[c]
    BY <1>1, <1>3, <1>4 DEF Conn
  <2> QED
    BY <1>1, <1>3, <1>4, <2>2, <2>3, <2>4 DEF Conn, Serving
<1> QED
  BY <1>3, <1>4, <1>6, OneConn DEF Inv

LEMMA LineStep ==
  ASSUME Inv, NEW c \in Conns, SaslLine(c)
  PROVE  Inv'
<1> DEFINE s == script[c]
<1>1. Conn(c) /\ Ready(c) /\ conn[c] = "sasl" /\ pend[c] = <<>>
  BY DEF Inv, SaslLine, Ready
<1>2. PICK k \in 0..(Len(s) - 1) :
        /\ Taken(c, k) /\ NextItem(c) = s[k + 1] /\ k + 1 \in DOMAIN s
        /\ s[k + 1] \in Items /\ s[k + 1].kind = "line" /\ k # 0
  BY <1>1, ReadyAt
<1>3. /\ pos'[c] = pos[c] + 2 /\ pos[c] + 2 <= fetched[c]
      /\ pend'[c] = <<SaslReply(s[k + 1])>>
      /\ Functions' /\ \A d \in Conns \ {c} : Same(d)
  <2>1. Functions' /\ pos'[c] = pos[c] + 2 /\ pend'[c] = <<SaslReply(NextItem(c))>>
    BY DEF SaslLine, Take, Inv, Functions
  <2>2. \A d \in Conns \ {c} : Same(d)
    BY DEF SaslLine, Take, Inv, Functions, Same
  <2>3. pos[c] + 2 <= fetched[c]
    BY <1>1 DEF Ready, Needed, Conn
  <2> QED
    BY <1>2, <2>1, <2>2, <2>3
<1>4. UNCHANGED <<svc, script, conn, gone, sent, fetched, serial, out, got>>
  BY DEF SaslLine
<1>5. pend'[c] \in Seq(Replies) /\ Len(pend'[c]) = 1
  BY <1>2, <1>3, ReplyTypes, SingleReply
<1>6. Taken(c, k + 1)'
  <2>1. /\ ~Fatal(s, k + 1) /\ k + 1 \notin Calls(s)
        /\ Size(s[k + 1]) = 2 /\ s[k + 1].text # "BEGIN"
    BY <1>2, SizeType DEF Fatal, Calls, SaslLine
  <2>2. k + 1 \in Answered(s) /\ AnswerTo(s, k + 1) = SaslReply(s[k + 1])
    BY <1>1, <1>2, <2>1, TakeItem DEF Answered, Lines, AnswerTo
  <2>3. ~Begun(s, k + 1)
    BY <1>1, <1>2, <2>1, TakeItem DEF Taken
  <2>4. Advances(c, k)
    BY <1>1, <1>2, <1>3, <1>4, <2>1, <2>2, <2>3 DEF Advances, Conn
  <2> QED
    BY <1>1, <1>2, <2>1, <2>4, Advance
<1>7. Conn(c)'
  <2>1. k + 1 \in 0..Len(s)
    BY <1>1, <1>2, TakeItem
  <2> QED
    BY <1>1, <1>3, <1>4, <1>5, <1>6, <2>1 DEF Conn, Serving
<1> QED
  BY <1>3, <1>4, <1>7, OneConn DEF Inv

LEMMA MessageStep ==
  ASSUME Inv, NEW c \in Conns, ReadMessage(c)
  PROVE  Inv'
<1> DEFINE s == script[c]
<1>1. Conn(c) /\ Ready(c) /\ conn[c] = "calls" /\ pend[c] = <<>> /\ Framed(c)
  BY DEF Inv, ReadMessage, Ready
<1>2. PICK k \in 0..(Len(s) - 1) :
        /\ Taken(c, k) /\ NextItem(c) = s[k + 1] /\ k + 1 \in DOMAIN s
        /\ s[k + 1] \in Items /\ s[k + 1].kind = "msg" /\ k # 0
  BY <1>1, ReadyAt
<1>3. /\ pos'[c] = pos[c] + Size(s[k + 1]) /\ pos[c] + Size(s[k + 1]) <= fetched[c]
      /\ Functions' /\ \A d \in Conns \ {c} : Same(d)
  <2>1. FrameLen(NextItem(c)) = Size(s[k + 1])
    BY <1>2, SizeType
  <2>2. Functions' /\ pos'[c] = pos[c] + FrameLen(NextItem(c))
    BY DEF ReadMessage, Take, Inv, Functions
  <2>3. \A d \in Conns \ {c} : Same(d)
    BY DEF ReadMessage, Take, Inv, Functions, Same
  <2>4. fetched[c] - pos[c] >= Size(s[k + 1])
    BY <1>1, <2>1 DEF Ready, Needed
  <2>5. pos[c] + Size(s[k + 1]) <= fetched[c]
    <3>1. pos[c] \in Nat /\ fetched[c] \in Nat /\ Size(s[k + 1]) \in Nat
      BY <1>1, <1>2, SizeType DEF Conn
    <3> QED
      BY <2>4, <3>1
  <2> QED
    BY <2>1, <2>2, <2>3, <2>5
<1>4. UNCHANGED <<svc, script, conn, gone, sent, fetched, out, got>>
  BY DEF ReadMessage
<1>5. /\ ~Fatal(s, k + 1) /\ k + 1 \notin Lines(s) /\ k + 1 \in Heard(s)
      /\ Begun(s, k + 1)
  <2>1. s[k + 1].endian = "little" /\ k + 1 # 1
    BY <1>1, <1>2 DEF Framed
  <2>2. ~Fatal(s, k + 1) /\ k + 1 \notin Lines(s)
    BY <1>2, <2>1 DEF Fatal, Lines
  <2>3. Begun(s, k)
    BY <1>1, <1>2 DEF Taken
  <2> QED
    BY <1>1, <1>2, <2>2, <2>3, TakeItem
<1>6. /\ Taken(c, k + 1)' /\ serial'[c] \in Nat
      /\ pend'[c] \in Seq(Replies) /\ Len(pend'[c]) <= 1
  <2>1. CASE s[k + 1].type = "call"
    <3>1. k + 1 \in Calls(s) /\ k + 1 \in Answered(s)
      BY <1>2, <1>5, <2>1 DEF Calls, Answered
    <3>2. /\ serial'[c] = serial[c] + 1
          /\ pend'[c] = <<Reply(s[k + 1], serial[c] + 1)>>
      BY <1>2, <2>1 DEF ReadMessage, Inv, Functions
    <3>3. serial[c] + 1 = Cardinality(Before(Calls(s), k + 1))
      BY <1>1, <1>2, <3>1, NextCount DEF Taken
    <3>4. AnswerTo(s, k + 1) = Reply(s[k + 1], serial[c] + 1)
      BY <1>2, <3>3 DEF AnswerTo, Reply, Before
    <3>5. Advances(c, k)
      BY <1>1, <1>3, <1>4, <1>5, <3>1, <3>2, <3>4 DEF Advances
    <3>6. serial'[c] \in Nat
      BY <1>1, <3>2 DEF Conn
    <3>7. pend'[c] \in Seq(Replies) /\ Len(pend'[c]) = 1
      BY <1>2, <3>2, <3>6, ReplyTypes, SingleReply
    <3> QED
      BY <1>1, <1>2, <1>5, <3>5, <3>6, <3>7, Advance
  <2>2. CASE s[k + 1].type # "call"
    <3>1. k + 1 \notin Calls(s) /\ k + 1 \notin Answered(s)
      BY <1>5, <2>2 DEF Calls, Answered
    <3>2. serial'[c] = serial[c] /\ pend'[c] = <<>>
      BY <1>1, <1>2, <2>2 DEF ReadMessage
    <3>3. serial[c] \in Nat
      BY <1>1 DEF Conn
    <3>4. Advances(c, k)
      BY <1>1, <1>3, <1>4, <1>5, <3>1, <3>2, <3>3 DEF Advances
    <3>5. pend'[c] \in Seq(Replies) /\ Len(pend'[c]) <= 1
      BY <3>2
    <3> QED
      BY <1>1, <1>2, <1>5, <3>2, <3>3, <3>4, <3>5, Advance
  <2> QED
    BY <2>1, <2>2
<1>7. Conn(c)'
  <2>1. k + 1 \in 0..Len(s)
    BY <1>1, <1>2, TakeItem
  <2>2. \E j \in 0..Len(script'[c]) : Taken(c, j)'
    BY <1>4, <1>6, <2>1
  <2>3. pos'[c] \in Nat /\ pos'[c] <= fetched'[c]
    BY <1>1, <1>2, <1>3, <1>4, SizeType DEF Conn
  <2> QED
    BY <1>1, <1>4, <1>6, <2>2, <2>3 DEF Conn
<1> QED
  BY <1>3, <1>4, <1>7, OneConn DEF Inv

LEMMA BadMessageStep ==
  ASSUME Inv, NEW c \in Conns, BadMessage(c)
  PROVE  Inv'
<1>1. Conn(c) /\ Ready(c) /\ conn[c] = "calls" /\ ~Framed(c)
  BY DEF Inv, BadMessage
<1>2. /\ pos'[c] = pos[c] + 4 /\ pos[c] + 4 <= fetched[c] /\ conn'[c] = "closed"
      /\ Functions' /\ \A d \in Conns \ {c} : Same(d)
  <2>1. Functions' /\ pos'[c] = pos[c] + 4 /\ conn'[c] = "closed"
    BY DEF BadMessage, Take, Inv, Functions, outVars, Header
  <2>2. \A d \in Conns \ {c} : Same(d)
    BY DEF BadMessage, Take, Inv, Functions, Same, outVars
  <2>3. pos[c] + 4 <= fetched[c]
    BY <1>1 DEF Ready, Needed, Conn, Header
  <2> QED
    BY <2>1, <2>2, <2>3
<1>3. UNCHANGED <<svc, script, gone, sent, fetched, serial, pend, out, got>>
  BY DEF BadMessage, outVars
<1>4. pos'[c] \in Nat /\ pos'[c] <= fetched'[c]
  BY <1>1, <1>2, <1>3 DEF Conn
<1>5. Conn(c)'
  BY <1>1, <1>2, <1>3, <1>4 DEF Conn, Serving
<1> QED
  BY <1>2, <1>3, <1>5, OneConn DEF Inv

LEMMA AppendPend ==
  ASSUME NEW c \in Conns, Conn(c), pend[c] # <<>>
  PROVE  /\ Len(pend[c]) = 1
         /\ out[c] \o pend[c] \in Seq(Replies)
         /\ Len(out[c] \o pend[c]) = Len(out[c]) + 1
<1>1. /\ pend[c] \in Seq(Replies) /\ out[c] \in Seq(Replies) /\ Len(pend[c]) <= 1
      /\ Len(pend[c]) \in Nat /\ Len(out[c]) \in Nat
  BY DEF Conn
<1>2. Len(pend[c]) # 0
  BY <1>1, EmptySeq
<1>3. Len(pend[c]) = 1
  <2>1. \A n \in Nat : n <= 1 /\ n # 0 => n = 1
    OBVIOUS
  <2> QED
    BY <1>1, <1>2, <2>1, Zenon
<1>4. /\ out[c] \o pend[c] \in Seq(Replies)
      /\ Len(out[c] \o pend[c]) = Len(out[c]) + Len(pend[c])
  BY <1>1, ConcatProperties
<1> QED
  BY <1>3, <1>4

LEMMA WriteReplyStep ==
  ASSUME Inv, NEW c \in Conns, WriteReply(c)
  PROVE  Inv'
<1>1. Conn(c) /\ conn[c] \in Serving /\ pend[c] # <<>>
  BY DEF Inv, WriteReply
<1>2. PICK k \in 0..Len(script[c]) : Taken(c, k)
  BY <1>1 DEF Conn
<1>3. pend'[c] = <<>> /\ Functions' /\ \A d \in Conns \ {c} : Same(d)
  <2>1. Functions' /\ pend'[c] = <<>>
    BY DEF WriteReply, Inv, Functions, inVars
  <2>2. \A d \in Conns \ {c} : Same(d)
    BY DEF WriteReply, Inv, Functions, Same, inVars
  <2> QED
    BY <2>1, <2>2
<1>4. UNCHANGED <<svc, script, gone, sent, fetched, pos, serial, got>>
  BY DEF WriteReply, inVars
<1>5. pend'[c] \in Seq(Replies) /\ Len(pend'[c]) = 0
  BY <1>3
<1>6. CASE c \notin gone /\ Len(out[c]) < OutCap
           /\ out' = [out EXCEPT ![c] = @ \o pend[c]] /\ UNCHANGED conn
  <2>1. out'[c] = out[c] \o pend[c]
    BY <1>6 DEF Inv, Functions
  <2>2. out'[c] \in Seq(Replies) /\ Len(out'[c]) = Len(out[c]) + 1 /\ Len(pend[c]) = 1
    BY <1>1, <2>1, AppendPend
  <2>3. Len(out[c]) \in Nat /\ Len(got[c]) \in Nat /\ Len(out'[c]) <= OutCap
    <3>1. out[c] \in Seq(Replies) /\ got[c] \in Seq(Replies)
      BY <1>1 DEF Conn
    <3>2. Len(out[c]) \in Nat /\ Len(got[c]) \in Nat
      BY <3>1
    <3>3. Len(out[c]) < OutCap /\ OutCap \in Nat
      BY <1>6, ScriptsAssumption
    <3> QED
      BY <2>2, <3>2, <3>3
  <2>4. Len(got[c]) + Len(out'[c]) + Len(pend'[c])
          = Len(got[c]) + Len(out[c]) + Len(pend[c])
    <3>1. Len(out'[c]) \in Nat /\ Len(pend'[c]) \in Nat /\ Len(pend[c]) \in Nat
      BY <1>5, <2>2, <2>3
    <3>2. \A a, b \in Nat : a + (b + 1) + 0 = a + b + 1
      OBVIOUS
    <3> QED
      BY <1>5, <2>2, <2>3, <3>1, <3>2
  <2>5. Taken(c, k)'
    BY <1>2, <1>3, <1>4, <1>6, <2>4 DEF Taken
  <2>6. Conn(c)'
    BY <1>1, <1>4, <1>5, <1>6, <2>2, <2>3, <2>5 DEF Conn, Serving
  <2> QED
    BY <1>3, <1>4, <2>6, OneConn DEF Inv
<1>7. CASE c \in gone /\ UNCHANGED out
           /\ conn' = [conn EXCEPT ![c] = IF @ = "calls" THEN "closed" ELSE @]
  <2>1. conn'[c] = IF conn[c] = "calls" THEN "closed" ELSE conn[c]
    BY <1>7 DEF Inv, Functions
  <2>2. ASSUME conn'[c] # "closed" PROVE Taken(c, k)'
    BY <1>2, <1>4, <1>7, <2>1, <2>2 DEF Taken
  <2>3. Conn(c)'
    BY <1>1, <1>4, <1>5, <1>7, <2>1, <2>2 DEF Conn, Serving
  <2> QED
    BY <1>3, <1>4, <2>3, OneConn DEF Inv
<1> QED
  BY <1>6, <1>7 DEF WriteReply

LEMMA ReaderStep ==
  ASSUME Inv, NEW c \in Conns, Fetch(c) \/ EndOfInput(c)
  PROVE  Inv'
<1>1. Conn(c)
  BY DEF Inv
<1>2. CASE Fetch(c)
  <2>1. Functions' /\ fetched'[c] = sent[c] /\ \A d \in Conns \ {c} : Same(d)
    BY <1>2 DEF Fetch, Inv, Functions, Same, outVars
  <2>2. UNCHANGED <<svc, script, conn, gone, sent, pos, serial, pend, out, got>>
    BY <1>2 DEF Fetch, outVars
  <2>3. pos[c] <= sent[c]
    BY <1>1 DEF Conn
  <2>4. conn[c] \in Serving => \E k \in 0..Len(script'[c]) : Taken(c, k)'
    BY <1>1, <2>2 DEF Conn, Taken
  <2>5. Conn(c)'
    BY <1>1, <2>1, <2>2, <2>3, <2>4 DEF Conn
  <2> QED
    BY <2>1, <2>2, <2>5, OneConn DEF Inv
<1>3. CASE EndOfInput(c)
  <2>1. Functions' /\ conn'[c] = "closed" /\ \A d \in Conns \ {c} : Same(d)
    BY <1>3 DEF EndOfInput, Inv, Functions, Same, inVars, outVars
  <2>2. UNCHANGED <<svc, script, gone, sent, fetched, pos, serial, pend, out, got>>
    BY <1>3 DEF EndOfInput, inVars, outVars
  <2>3. Conn(c)'
    BY <1>1, <2>1, <2>2 DEF Conn, Serving
  <2> QED
    BY <2>1, <2>2, <2>3, OneConn DEF Inv
<1> QED
  BY <1>2, <1>3

LEMMA AcceptStep ==
  ASSUME Inv, NEW c \in Conns, Accept(c)
  PROVE  Inv'
<1>1. Conn(c) /\ conn[c] = "queued" /\ svc = "listening"
  BY DEF Inv, Accept
<1>2. Functions' /\ conn'[c] = "nul" /\ \A d \in Conns \ {c} : Same(d)
  BY DEF Accept, Inv, Functions, Same, inVars, outVars
<1>3. UNCHANGED <<svc, script, gone, sent, fetched, pos, serial, pend, out, got>>
  BY DEF Accept, inVars, outVars
<1>4. Taken(c, 0)'
  <2>1. /\ Len(script[c]) \in Nat /\ Answered(script[c]) \in SUBSET (1..Len(script[c]))
        /\ Calls(script[c]) \in SUBSET (1..Len(script[c]))
    BY <1>1, ScriptForm, AnsweredRange
  <2>2. /\ Cardinality(Before(Calls(script[c]), 0)) = 0
        /\ Cardinality(Before(Answered(script[c]), 0)) = 0
    BY <2>1, BeforeNone
  <2>3. /\ pos[c] = 0 /\ serial[c] = 0 /\ pend[c] = <<>>
        /\ Len(got[c]) = 0 /\ Len(out[c]) = 0 /\ Len(pend[c]) = 0
    BY <1>1 DEF Conn
  <2> QED
    BY <1>2, <1>3, <2>2, <2>3 DEF Taken, End
<1>5. 0 \in 0..Len(script[c])
  BY <1>1, ScriptForm, EndStep
<1>6. Conn(c)'
  BY <1>1, <1>2, <1>3, <1>4, <1>5 DEF Conn, Serving
<1> QED
  BY <1>2, <1>3, <1>6, OneConn DEF Inv

LEMMA ListenerStep ==
  ASSUME Inv, Bind \/ Listen \/ AcceptFails
  PROVE  Inv'
<1>1. CASE Bind \/ Listen
  <2>1. /\ svc' \in {"bound", "down", "listening"} /\ svc # "listening"
        /\ UNCHANGED <<script, conn, gone, sent, fetched, pos, serial, pend, out, got>>
    BY <1>1 DEF Bind, Listen, inVars, outVars
  <2>2. ASSUME NEW d \in Conns PROVE Conn(d)'
    <3>1. Conn(d) /\ conn[d] \in {"none", "closed"}
      BY <2>1 DEF Inv, Conn
    <3> QED
      BY <2>1, <3>1 DEF Conn, Serving
  <2> QED
    BY <2>1, <2>2 DEF Inv, Functions
<1>2. CASE AcceptFails
  <2>1. /\ svc' = "down" /\ svc = "listening"
        /\ conn' = [c \in Conns |-> IF conn[c] = "none" THEN "none" ELSE "closed"]
        /\ UNCHANGED <<script, gone, sent, fetched, pos, serial, pend, out, got>>
    BY <1>2 DEF AcceptFails, inVars, outVars
  <2>2. ASSUME NEW d \in Conns PROVE Conn(d)'
    <3>1. /\ Conn(d) /\ conn'[d] \in {"none", "closed"}
          /\ conn'[d] = "none" => conn[d] = "none"
      BY <2>1 DEF Inv
    <3> QED
      BY <2>1, <3>1 DEF Conn, Serving
  <2>3. Functions'
    BY <2>1 DEF Inv, Functions
  <2> QED
    BY <2>1, <2>2, <2>3 DEF Inv
<1> QED
  BY <1>1, <1>2

-----------------------------------------------------------------------------
(* The steps of a client.                                                  *)

LEMMA DialLeaveStep ==
  ASSUME Inv, NEW c \in Conns, Dial(c) \/ Leave(c)
  PROVE  Inv'
<1>1. Conn(c)
  BY DEF Inv
<1>2. CASE Dial(c)
  <2>1. Functions' /\ conn'[c] = "queued" /\ \A d \in Conns \ {c} : Same(d)
    BY <1>2 DEF Dial, Inv, Functions, Same, inVars, outVars
  <2>2. /\ conn[c] = "none" /\ svc = "listening"
        /\ UNCHANGED <<svc, script, gone, sent, fetched, pos, serial, pend, out, got>>
    BY <1>2 DEF Dial, inVars, outVars
  <2>3. Conn(c)'
    BY <1>1, <2>1, <2>2 DEF Conn, Serving
  <2> QED
    BY <2>1, <2>2, <2>3, OneConn DEF Inv
<1>3. CASE Leave(c)
  <2>1. /\ UNCHANGED <<svc, script, conn, sent, fetched, pos, serial, pend, out, got>>
        /\ gone' = gone \cup {c}
    BY <1>3 DEF Leave, inVars, outVars
  <2>2. Functions' /\ gone' \subseteq Conns /\ \A d \in Conns \ {c} : Same(d)
    BY <2>1 DEF Inv, Functions, Same
  <2>3. Conn(c)'
    BY <1>1, <2>1 DEF Conn, Taken
  <2> QED
    BY <2>1, <2>2, <2>3, OneConn DEF Inv
<1> QED
  BY <1>2, <1>3

(* A client's writing stays within its script. *)
LEMMA CutsWithin ==
  ASSUME NEW s, WellFormed(s), NEW n \in Cuts(s)
  PROVE  n \in Nat /\ n <= End(s, Len(s))
<1>1. PICK i \in DOMAIN s :
        n \in {s[i].at - 1 + k : k \in {0, Size(s[i])} \cup
                                         {m \in Pieces : m < Size(s[i])}}
  BY DEF Cuts
<1>2. PICK k \in {0, Size(s[i])} \cup {m \in Pieces : m < Size(s[i])} :
        n = s[i].at - 1 + k
  BY <1>1
<1>3. /\ Len(s) \in Nat /\ i \in 1..Len(s) /\ i - 1 \in 0..(Len(s) - 1)
      /\ i - 1 + 1 = i /\ i - 1 \in 0..Len(s) /\ i \in 0..Len(s)
      /\ Len(s) \in 0..Len(s)
  BY EndStep
<1>4. s[i].at = End(s, i - 1) + 1 /\ End(s, i - 1) \in Nat
  BY <1>3, EndStep
<1>5. End(s, i) = End(s, i - 1) + Size(s[i])
  BY <1>3, EndStep
<1>6. Size(s[i]) \in Nat
  BY <1>3, EndStep, SizeType
<1>7. k \in Nat /\ k <= Size(s[i])
  BY <1>2, <1>6, ScriptsAssumption
<1>8. End(s, i) \in Nat /\ End(s, Len(s)) \in Nat /\ End(s, i) <= End(s, Len(s))
  <2>1. End(s, i) \in Nat /\ End(s, Len(s)) \in Nat
    BY <1>3, EndStep
  <2>2. i = Len(s) \/ i < Len(s)
    BY <1>3
  <2>3. ASSUME i < Len(s) PROVE End(s, i) < End(s, Len(s))
    BY <1>3, <2>3, EndGrows
  <2> QED
    BY <2>1, <2>2, <2>3
<1>9. n \in Nat /\ n <= End(s, i)
  BY <1>2, <1>4, <1>5, <1>6, <1>7
<1> QED
  BY <1>8, <1>9

LEMMA WriteStep ==
  ASSUME Inv, NEW c \in Conns, Write(c)
  PROVE  Inv'
<1>1. Conn(c) /\ WellFormed(script[c])
  BY ScriptForm DEF Inv
<1>2. PICK n \in Cuts(script[c]) : n > sent[c] /\ sent' = [sent EXCEPT ![c] = n]
  BY DEF Write
<1>3. Functions' /\ sent'[c] = n /\ \A d \in Conns \ {c} : Same(d)
  BY <1>2 DEF Write, Inv, Functions, Same, outVars
<1>4. UNCHANGED <<svc, script, conn, gone, fetched, pos, serial, pend, out, got>>
  BY DEF Write, outVars
<1>5. n \in Nat /\ n <= End(script[c], Len(script[c])) /\ fetched[c] <= n
  <2>1. n \in Nat /\ n <= End(script[c], Len(script[c]))
    BY <1>1, CutsWithin
  <2>2. fetched[c] \in Nat /\ sent[c] \in Nat /\ fetched[c] <= sent[c]
    BY <1>1 DEF Conn
  <2> QED
    BY <1>2, <2>1, <2>2
<1>6. Conn(c)'
  BY <1>1, <1>3, <1>4, <1>5 DEF Conn, Taken
<1> QED
  BY <1>3, <1>4, <1>6, OneConn DEF Inv

LEMMA MoveHead ==
  ASSUME NEW S, NEW a \in Seq(S), NEW b \in Seq(S), b # <<>>
  PROVE  Append(a, Head(b)) \o Tail(b) = a \o b
<1>1. /\ Head(b) \in S /\ Tail(b) \in Seq(S) /\ Len(Tail(b)) = Len(b) - 1
      /\ \A i \in 1..Len(Tail(b)) : Tail(b)[i] = b[i + 1]
  BY HeadTailProperties
<1>2. <<Head(b)>> \in Seq(S) /\ Len(<<Head(b)>>) = 1 /\ <<Head(b)>>[1] = Head(b)
  BY <1>1
<1>3. /\ Len(b) \in Nat /\ Len(b) # 0 /\ Head(b) = b[1]
  BY EmptySeq
<1>4. <<Head(b)>> \o Tail(b) = b
  <2> DEFINE d == <<Head(b)>> \o Tail(b)
  <2>1. /\ d \in Seq(S) /\ Len(d) = 1 + (Len(b) - 1)
        /\ \A i \in 1..(1 + Len(Tail(b))) :
             d[i] = IF i <= 1 THEN <<Head(b)>>[i] ELSE Tail(b)[i - 1]
    BY <1>1, <1>2, ConcatProperties
  <2>2. Len(d) = Len(b)
    BY <1>3, <2>1
  <2>3. ASSUME NEW i \in 1..Len(d) PROVE d[i] = b[i]
    <3>1. i \in 1..(1 + Len(Tail(b)))
      BY <1>1, <1>3, <2>1
    <3>2. CASE i = 1
      BY <1>2, <1>3, <2>1, <3>1, <3>2
    <3>3. CASE i # 1
      <4>1. i - 1 \in 1..Len(Tail(b)) /\ ~(i <= 1) /\ i - 1 + 1 = i
        BY <1>1, <1>3, <2>2, <3>3
      <4>2. d[i] = Tail(b)[i - 1] /\ Tail(b)[i - 1] = b[i]
        BY <1>1, <2>1, <3>1, <4>1
      <4> QED
        BY <4>2
    <3> QED
      BY <3>2, <3>3
  <2> HIDE DEF d
  <2> QED
    BY <2>1, <2>2, <2>3, SeqEqual
<1>5. Append(a, Head(b)) = a \o <<Head(b)>>
  BY <1>1, AppendIsConcat
<1>6. (a \o <<Head(b)>>) \o Tail(b) = a \o (<<Head(b)>> \o Tail(b))
  BY <1>1, <1>2, ConcatAssociative
<1> QED
  BY <1>4, <1>5, <1>6

(* What a client reads moves from one end of its answers to the other. *)
LEMMA ReadMoves ==
  ASSUME Inv, NEW c \in Conns, ReadReply(c)
  PROVE  /\ got'[c] \in Seq(Replies) /\ out'[c] \in Seq(Replies)
         /\ Len(got'[c]) = Len(got[c]) + 1 /\ Len(out'[c]) = Len(out[c]) - 1
         /\ Len(out[c]) > 0 /\ got'[c] \o out'[c] = got[c] \o out[c]
<1>1. /\ got[c] \in Seq(Replies) /\ out[c] \in Seq(Replies) /\ out[c] # <<>>
      /\ got'[c] = Append(got[c], Head(out[c])) /\ out'[c] = Tail(out[c])
  BY DEF Inv, Conn, Functions, ReadReply
<1>2. /\ Head(out[c]) \in Replies /\ Tail(out[c]) \in Seq(Replies)
      /\ Len(Tail(out[c])) = Len(out[c]) - 1
  BY <1>1, HeadTailProperties
<1>3. Len(out[c]) \in Nat /\ Len(got[c]) \in Nat /\ Len(out[c]) # 0
  BY <1>1, EmptySeq
<1>4. Append(got[c], Head(out[c])) \in Seq(Replies)
      /\ Len(Append(got[c], Head(out[c]))) = Len(got[c]) + 1
  BY <1>1, <1>2, AppendProperties
<1>5. Append(got[c], Head(out[c])) \o Tail(out[c]) = got[c] \o out[c]
  BY <1>1, MoveHead
<1>6. Len(out[c]) > 0
  BY <1>3
<1> QED
  BY <1>1, <1>2, <1>4, <1>5, <1>6

LEMMA Shift ==
  ASSUME NEW a \in Nat, NEW b \in Nat, NEW x, NEW y, x = a + 1, y = b - 1
  PROVE  x + y = a + b
OBVIOUS

LEMMA ReadReplyStep ==
  ASSUME Inv, NEW c \in Conns, ReadReply(c)
  PROVE  Inv'
<1>1. Conn(c)
  BY DEF Inv
<1>2. Functions' /\ \A d \in Conns \ {c} : Same(d)
  <2>1. Functions'
    BY DEF ReadReply, Inv, Functions, inVars
  <2>2. \A d \in Conns \ {c} : Same(d)
    BY DEF ReadReply, Inv, Functions, Same, inVars
  <2> QED
    BY <2>1, <2>2
<1>3. /\ UNCHANGED <<svc, script, conn, gone, sent, fetched, pos, serial, pend>>
      /\ out[c] # <<>>
  BY DEF ReadReply, inVars
<1>4. /\ got'[c] \in Seq(Replies) /\ out'[c] \in Seq(Replies)
      /\ Len(got'[c]) = Len(got[c]) + 1 /\ Len(out'[c]) = Len(out[c]) - 1
  BY ReadMoves
<1>5. /\ Len(got[c]) \in Nat /\ Len(out[c]) \in Nat /\ Len(pend[c]) \in Nat
      /\ Len(out[c]) <= OutCap
  BY <1>1 DEF Conn
<1>6. Len(got'[c]) + Len(out'[c]) + Len(pend[c]) = Len(got[c]) + Len(out[c]) + Len(pend[c])
  <2>1. Len(got'[c]) \in Nat /\ Len(out'[c]) \in Nat
    BY <1>4
  <2>2. Len(got'[c]) + Len(out'[c]) = Len(got[c]) + Len(out[c])
    <3>1. Len(got'[c]) = Len(got[c]) + 1 /\ Len(out'[c]) = Len(out[c]) - 1
      BY <1>4
    <3>2. Len(got[c]) \in Nat /\ Len(out[c]) \in Nat
      BY <1>5
    <3> DEFINE a == Len(got[c])
               b == Len(out[c])
               x == Len(got'[c])
               y == Len(out'[c])
    <3>3. a \in Nat /\ b \in Nat /\ x = a + 1 /\ y = b - 1
      BY <3>1, <3>2
    <3>4. x + y = a + b
      <4> HIDE DEF a, b, x, y
      <4> QED
        BY <3>3, Shift
    <3> QED
      BY <3>4
  <2> QED
    BY <1>5, <2>1, <2>2
<1>7. Len(out'[c]) <= OutCap
  BY <1>4, <1>5, ScriptsAssumption
<1>8. ASSUME NEW k \in 0..Len(script[c]), Taken(c, k) PROVE Taken(c, k)'
  BY <1>3, <1>6, <1>8 DEF Taken
<1>9. Conn(c)'
  BY <1>1, <1>3, <1>4, <1>7, <1>8 DEF Conn
<1> QED
  BY <1>2, <1>3, <1>9, OneConn DEF Inv

-----------------------------------------------------------------------------
LEMMA InitHolds == Init => Inv
<1> SUFFICES ASSUME Init PROVE Inv
  OBVIOUS
<1>1. Functions
  BY DEF Init, Functions
<1>2. ASSUME NEW c \in Conns PROVE Conn(c)
  <2>1. script[c] \in Scripts[c] /\ WellFormed(script[c])
    BY ScriptsAssumption DEF Init
  <2>2. End(script[c], Len(script[c])) \in Nat
    <3>1. Len(script[c]) \in 0..Len(script[c])
      BY <2>1, EndStep
    <3> QED
      BY <2>1, <3>1, EndStep
  <2>3. <<>> \in Seq(Replies) /\ Len(<<>>) = 0
    OBVIOUS
  <2> QED
    BY <2>1, <2>2, <2>3, ScriptsAssumption DEF Init, Conn, Serving
<1> QED
  BY <1>1, <1>2 DEF Init, Inv

LEMMA StepHolds == Inv /\ [Next]_vars => Inv'
<1> SUFFICES ASSUME Inv, [Next]_vars PROVE Inv'
  OBVIOUS
<1>1. CASE UNCHANGED vars
  <2>1. UNCHANGED <<svc, script, conn, gone, sent, fetched, pos, serial, pend, out, got>>
    BY <1>1 DEF vars, inVars, outVars
  <2>2. ASSUME NEW c \in Conns PROVE Conn(c)'
    BY <2>1, SameConn DEF Inv, Same
  <2> QED
    BY <2>1, <2>2 DEF Inv, Functions
<1>2. CASE Bind \/ Listen \/ AcceptFails
  BY <1>2, ListenerStep
<1>3. ASSUME NEW c \in Conns, Accept(c) \/ Serve(c) \/ Client(c) PROVE Inv'
  <2>1. CASE Accept(c)
    BY <2>1, AcceptStep
  <2>2. CASE Serve(c)
    BY <2>2, ReaderStep, NulStep, BeginStep, LineStep, MessageStep, BadMessageStep,
       WriteReplyStep DEF Serve
  <2>3. CASE Client(c)
    BY <2>3, DialLeaveStep, WriteStep, ReadReplyStep DEF Client
  <2> QED
    BY <1>3, <2>1, <2>2, <2>3
<1> QED
  BY <1>1, <1>2, <1>3 DEF Next

LEMMA Invariant == Spec => []Inv
<1> QED
  BY InitHolds, StepHolds, PTL DEF Spec

(* A connection's words are taken in order and never before they are sent, *)
(* at most one reply waits to be written, and nobody is served by a service *)
(* that is not there (secretsvc.go:57-106, 185-213).                        *)
THEOREM TypeCorrect == Spec => []TypeOK
<1>1. Inv => TypeOK
  BY DEF Inv, Conn, TypeOK
<1> QED
  BY <1>1, Invariant, PTL

-----------------------------------------------------------------------------
(* SecretService implements CallServer.                                    *)

LEMMA IntervalCard ==
  ASSUME NEW n \in Nat
  PROVE  IsFiniteSet(1..n) /\ Cardinality(1..n) = n
BY FS_Interval

LEMMA AskedCount ==
  ASSUME NEW c \in Conns, Conn(c)
  PROVE  /\ AskedInFull(c) \subseteq 1..Len(script[c]) /\ Len(script[c]) \in Nat
         /\ IsFiniteSet(AskedInFull(c)) /\ Cardinality(AskedInFull(c)) \in Nat
         /\ Cardinality(AskedInFull(c)) <= Len(script[c])
<1>1. Len(script[c]) \in Nat /\ DOMAIN script[c] = 1..Len(script[c])
  BY ScriptForm, EndStep
<1>2. AskedInFull(c) \subseteq 1..Len(script[c])
  BY <1>1 DEF AskedInFull
<1>3. /\ IsFiniteSet(1..Len(script[c]))
      /\ Cardinality(1..Len(script[c])) = Len(script[c])
  BY <1>1, FS_Interval
<1>4. /\ IsFiniteSet(AskedInFull(c))
      /\ Cardinality(AskedInFull(c)) <= Cardinality(1..Len(script[c]))
  BY <1>2, <1>3, FS_Subset
<1> QED
  BY <1>1, <1>2, <1>3, <1>4, FS_CardinalityType

(* What has been taken was asked. *)
LEMMA TakenAsked ==
  ASSUME NEW c \in Conns, Conn(c), NEW k \in 1..Len(script[c]), Taken(c, k)
  PROVE  k <= Cardinality(AskedInFull(c))
<1> DEFINE s == script[c]
<1>1. /\ WellFormed(s) /\ Len(s) \in Nat /\ DOMAIN s = 1..Len(s)
      /\ End(s, k) \in Nat /\ k \in 0..Len(s) /\ k \in Nat
  <2>1. WellFormed(s)
    BY ScriptForm
  <2>2. Len(s) \in Nat /\ DOMAIN s = 1..Len(s)
    BY <2>1, EndStep
  <2>3. k \in 0..Len(s) /\ k \in Nat
    BY <2>2
  <2> QED
    BY <2>1, <2>2, <2>3, EndStep
<1>2. End(s, k) <= sent[c] /\ sent[c] \in Nat
  BY DEF Conn, Taken
<1>3. ASSUME NEW i \in 1..k PROVE i \in AskedInFull(c)
  <2>1. i \in 1..Len(s) /\ i \in 0..Len(s) /\ i # 0 /\ (i = k \/ i < k)
    BY <1>1
  <2>2. End(s, i) \in Nat
    BY <1>1, <2>1, EndStep
  <2>3. ASSUME i < k PROVE End(s, i) < End(s, k)
    BY <1>1, <2>1, <2>3, EndGrows
  <2>4. End(s, i) <= sent[c]
    BY <1>1, <1>2, <2>1, <2>2, <2>3
  <2> QED
    BY <1>1, <2>1, <2>4 DEF End, AskedInFull
<1>4. Cardinality(1..k) = k
  BY <1>1, FS_Interval
<1>5. 1..k \subseteq AskedInFull(c)
  BY <1>3
<1>6. Cardinality(1..k) <= Cardinality(AskedInFull(c))
  BY <1>5, AskedCount, FS_Subset
<1> QED
  BY <1>4, <1>6

LEMMA Stutters ==
  ASSUME UNCHANGED <<script, sent>>,
         \A c \in Conns : got'[c] \o out'[c] = got[c] \o out[c]
  PROVE  UNCHANGED Promise!vars
BY DEF Promise!vars, asked, answers, AskedInFull

LEMMA InitMaps ==
  ASSUME Init
  PROVE  Promise!Init
<1>1. ASSUME NEW c \in Conns PROVE Cardinality(AskedInFull(c)) = 0
  <2>1. WellFormed(script[c]) /\ sent[c] = 0
    BY ScriptsAssumption DEF Init
  <2>2. ASSUME NEW i \in DOMAIN script[c]
        PROVE  ~(script[c][i].at - 1 + Size(script[c][i]) <= 0)
    <3>1. /\ Len(script[c]) \in Nat /\ i \in 1..Len(script[c])
          /\ i - 1 \in 0..(Len(script[c]) - 1) /\ i - 1 + 1 = i
          /\ i - 1 \in 0..Len(script[c])
      BY <2>1, EndStep
    <3>2. /\ script[c][i].at = End(script[c], i - 1) + 1
          /\ End(script[c], i - 1) \in Nat
      BY <2>1, <3>1, EndStep
    <3>3. Size(script[c][i]) \in Nat \ {0}
      BY <2>1, <3>1, EndStep, SizeType
    <3> QED
      BY <3>2, <3>3
  <2>3. AskedInFull(c) = {}
    BY <2>1, <2>2 DEF AskedInFull
  <2> QED
    BY <2>3, FS_EmptySet
<1>2. asked = [c \in Conns |-> 0]
  BY <1>1 DEF asked
<1>3. answers = [c \in Conns |-> <<>>]
  <2>1. <<>> \o <<>> = <<>>
    OBVIOUS
  <2> QED
    BY <2>1 DEF answers, Init
<1> QED
  BY <1>2, <1>3 DEF Promise!Init

LEMMA WriteAsks ==
  ASSUME Inv, Inv', NEW c \in Conns, Write(c)
  PROVE  Promise!Ask(c)
<1>1. PICK n \in Cuts(script[c]) : n > sent[c] /\ sent' = [sent EXCEPT ![c] = n]
  BY DEF Write
<1>2. /\ UNCHANGED <<script, out, got>> /\ sent'[c] > sent[c]
      /\ \A d \in Conns \ {c} : sent'[d] = sent[d]
  BY <1>1 DEF Write, Inv, Functions, outVars
<1>3. Conn(c) /\ Conn(c)'
  BY DEF Inv
<1>4. AskedInFull(c) \subseteq AskedInFull(c)'
  <2>1. /\ WellFormed(script[c]) /\ DOMAIN script[c] = 1..Len(script[c])
        /\ sent[c] \in Nat /\ sent'[c] \in Nat
    BY <1>3, ScriptForm, EndStep DEF Conn
  <2>2. ASSUME NEW i \in DOMAIN script[c]
        PROVE  script[c][i].at \in Nat /\ Size(script[c][i]) \in Nat
    BY <2>1, EndStep, SizeType
  <2>3. ASSUME NEW i \in DOMAIN script[c],
               script[c][i].at - 1 + Size(script[c][i]) <= sent[c]
        PROVE  script[c][i].at - 1 + Size(script[c][i]) <= sent'[c]
    BY <1>2, <2>1, <2>2, <2>3
  <2> QED
    BY <1>2, <2>3 DEF AskedInFull
<1>5. /\ IsFiniteSet(AskedInFull(c)') /\ Cardinality(AskedInFull(c)) \in Nat
      /\ Cardinality(AskedInFull(c)') \in Nat
      /\ Cardinality(AskedInFull(c)') <= Len(script[c]) /\ Len(script[c]) \in Nat
  <2>1. AskedInFull(c)' \subseteq 1..Len(script[c])
    BY <1>2, <1>3, ScriptForm, EndStep DEF AskedInFull
  <2>2. Len(script[c]) \in Nat /\ Cardinality(AskedInFull(c)) \in Nat
    BY <1>3, AskedCount
  <2>3. /\ IsFiniteSet(1..Len(script[c]))
        /\ Cardinality(1..Len(script[c])) = Len(script[c])
    BY <2>2, IntervalCard
  <2>4. /\ IsFiniteSet(AskedInFull(c)')
        /\ Cardinality(AskedInFull(c)') <= Cardinality(1..Len(script[c]))
    BY <2>1, <2>3, FS_Subset
  <2> QED
    BY <2>2, <2>3, <2>4, FS_CardinalityType
<1>6. Cardinality(AskedInFull(c)) <= Cardinality(AskedInFull(c)')
  BY <1>4, <1>5, FS_Subset
<1>7. /\ asked[c] = Cardinality(AskedInFull(c))
      /\ asked' = [asked EXCEPT ![c] = Cardinality(AskedInFull(c)')]
  <2>1. ASSUME NEW d \in Conns \ {c} PROVE AskedInFull(d)' = AskedInFull(d)
    BY <1>2 DEF AskedInFull
  <2> QED
    BY <2>1 DEF asked
<1>8. \E m \in asked[c]..Len(script[c]) : asked' = [asked EXCEPT ![c] = m]
  <2>1. Cardinality(AskedInFull(c)') \in asked[c]..Len(script[c])
    BY <1>5, <1>6, <1>7
  <2> QED
    BY <1>7, <2>1
<1>9. UNCHANGED <<script, answers>>
  BY <1>2 DEF answers
<1> QED
  BY <1>8, <1>9 DEF Promise!Ask

LEMMA MoveTail ==
  ASSUME NEW S, NEW a \in Seq(S), NEW b \in Seq(S), NEW x \in S
  PROVE  a \o (b \o <<x>>) = Append(a \o b, x)
<1>1. <<x>> \in Seq(S) /\ a \o b \in Seq(S)
  BY ConcatProperties
<1>2. (a \o b) \o <<x>> = a \o (b \o <<x>>)
  BY <1>1, ConcatAssociative
<1>3. Append(a \o b, x) = (a \o b) \o <<x>>
  BY <1>1, AppendIsConcat
<1> QED
  BY <1>2, <1>3

LEMMA WriteReplyAnswers ==
  ASSUME Inv, NEW c \in Conns, WriteReply(c), c \notin gone
  PROVE  Promise!Answer(c)
<1> DEFINE s == script[c]
<1>1. /\ Conn(c) /\ conn[c] \in Serving /\ pend[c] # <<>>
      /\ out' = [out EXCEPT ![c] = @ \o pend[c]]
      /\ UNCHANGED <<script, sent, got>>
  BY DEF Inv, WriteReply, inVars
<1>2. PICK k \in 0..Len(s) : Taken(c, k)
  BY <1>1 DEF Conn
<1>3. k \in Answered(s) /\ pend[c] = <<AnswerTo(s, k)>>
  BY <1>1, <1>2 DEF Taken
<1>4. /\ Answered(s) \in SUBSET (1..Len(s)) /\ Len(s) \in Nat /\ k \in 1..Len(s)
  BY <1>1, <1>3, ScriptForm, AnsweredRange
<1>5. k <= asked[c]
  BY <1>1, <1>2, <1>4, TakenAsked DEF asked
<1>6. /\ Len(got[c]) \in Nat /\ Len(out[c]) \in Nat /\ Len(pend[c]) = 1
      /\ got[c] \in Seq(Replies) /\ out[c] \in Seq(Replies) /\ pend[c] \in Seq(Replies)
  <2>1. got[c] \in Seq(Replies) /\ out[c] \in Seq(Replies) /\ pend[c] \in Seq(Replies)
    BY <1>1 DEF Conn
  <2>2. Len(pend[c]) = 1
    BY <1>1, AppendPend
  <2> QED
    BY <2>1, <2>2
<1>7. Promise!Turn(c, k) = Len(got[c]) + Len(out[c])
  <2>1. k - 1 \in Nat /\ k - 1 + 1 = k /\ \A j \in 1..Len(s) : j < k <=> j <= k - 1
    BY <1>4
  <2>2. {j \in Answered(s) : j < k} = Before(Answered(s), k - 1)
    <3>1. \A j \in Answered(s) : j < k <=> j <= k - 1
      BY <1>4, <2>1
    <3> QED
      BY <3>1, Zenon DEF Before
  <2>3. /\ Cardinality(Before(Answered(s), k - 1)) \in Nat
        /\ Cardinality(Before(Answered(s), k)) = Cardinality(Before(Answered(s), k - 1)) + 1
    BY <1>3, <1>4, BeforeLast
  <2>4. Len(got[c]) + Len(out[c]) + Len(pend[c]) = Cardinality(Before(Answered(s), k))
    BY <1>2 DEF Taken
  <2>5. Cardinality(Before(Answered(s), k - 1)) = Len(got[c]) + Len(out[c])
    <3> DEFINE a == Len(got[c])
               b == Len(out[c])
               p == Len(pend[c])
               x == Cardinality(Before(Answered(s), k - 1))
               y == Cardinality(Before(Answered(s), k))
    <3>1. /\ a \in Nat /\ b \in Nat /\ p = 1 /\ x \in Nat /\ y = x + 1
          /\ a + b + p = y
      BY <1>6, <2>3, <2>4
    <3>2. x = a + b
      <4> HIDE DEF a, b, p, x, y
      <4> QED
        BY <3>1
    <3> QED
      BY <3>2
  <2>6. Promise!Turn(c, k) = Cardinality({j \in Answered(s) : j < k})
    BY DEF Promise!Turn, Promise!Cardinality, Cardinality
  <2> QED
    BY <2>2, <2>5, <2>6
<1>8. Len(answers[c]) = Len(got[c]) + Len(out[c])
  BY <1>6, ConcatProperties DEF answers
<1>9. answers' = [answers EXCEPT ![c] = Append(@, AnswerTo(s, k))]
  <2>1. got'[c] \o out'[c] = Append(got[c] \o out[c], AnswerTo(s, k))
    <3>1. out'[c] = out[c] \o pend[c] /\ got'[c] = got[c]
      BY <1>1 DEF Inv, Functions
    <3>2. AnswerTo(s, k) \in Replies
      <4>1. AnswerTo(s, k) = pend[c][1]
        BY <1>3
      <4> QED
        BY <1>6, <4>1, ElementOfSeq
    <3>3. got[c] \o (out[c] \o <<AnswerTo(s, k)>>)
            = Append(got[c] \o out[c], AnswerTo(s, k))
      <4> DEFINE a == got[c]
                 b == out[c]
                 x == AnswerTo(s, k)
      <4>1. a \in Seq(Replies) /\ b \in Seq(Replies) /\ x \in Replies
        BY <1>6, <3>2
      <4>2. a \o (b \o <<x>>) = Append(a \o b, x)
        <5> HIDE DEF a, b, x
        <5> QED
          BY <4>1, MoveTail
      <4> QED
        BY <4>2
    <3> QED
      BY <1>3, <3>1, <3>3
  <2>2. \A d \in Conns \ {c} : got'[d] \o out'[d] = got[d] \o out[d]
    BY <1>1 DEF Inv, Functions
  <2> QED
    BY <2>1, <2>2 DEF answers
<1>10. UNCHANGED <<script, asked>>
  BY <1>1 DEF asked, AskedInFull
<1>11. /\ k \in Answered(script[c]) /\ k <= asked[c]
       /\ Promise!Turn(c, k) = Len(answers[c])
       /\ answers' = [answers EXCEPT ![c] = Append(@, AnswerTo(script[c], k))]
  BY <1>3, <1>5, <1>7, <1>8, <1>9
<1> QED
  BY <1>10, <1>11 DEF Promise!Answer

LEMMA StepMaps ==
  ASSUME Inv, Inv', [Next]_vars
  PROVE  [Promise!Next]_(Promise!vars)
<1>1. CASE UNCHANGED <<script, sent, out, got>>
  BY <1>1, Stutters
<1>2. ASSUME NEW c \in Conns, Write(c) PROVE Promise!Next
  BY <1>2, WriteAsks DEF Promise!Next
<1>3. ASSUME NEW c \in Conns, WriteReply(c), c \notin gone PROVE Promise!Next
  BY <1>3, WriteReplyAnswers DEF Promise!Next
<1>4. ASSUME NEW c \in Conns, ReadReply(c) PROVE UNCHANGED Promise!vars
  <2>1. \A d \in Conns \ {c} : got'[d] = got[d] /\ out'[d] = out[d]
    BY <1>4 DEF ReadReply, Inv, Functions
  <2>2. got'[c] \o out'[c] = got[c] \o out[c]
    BY <1>4, ReadMoves
  <2>3. UNCHANGED <<script, sent>>
    BY <1>4 DEF ReadReply, inVars
  <2> QED
    BY <2>1, <2>2, <2>3, Stutters
<1>5. ASSUME NEW c \in Conns, WriteReply(c), c \in gone
      PROVE  UNCHANGED <<script, sent, out, got>>
  BY <1>5 DEF WriteReply, inVars
<1>6. ASSUME Bind \/ Listen \/ AcceptFails PROVE UNCHANGED <<script, sent, out, got>>
  BY <1>6 DEF Bind, Listen, AcceptFails, inVars, outVars
<1>7. ASSUME NEW c \in Conns, Accept(c) \/ Dial(c) \/ Leave(c)
      PROVE  UNCHANGED <<script, sent, out, got>>
  BY <1>7 DEF Accept, Dial, Leave, inVars, outVars
<1>8. ASSUME NEW c \in Conns, Fetch(c) \/ EndOfInput(c) \/ ReadNul(c) \/ Begin(c)
      PROVE  UNCHANGED <<script, sent, out, got>>
  BY <1>8 DEF Fetch, EndOfInput, ReadNul, Begin, inVars, outVars
<1>9. ASSUME NEW c \in Conns, SaslLine(c) \/ ReadMessage(c) \/ BadMessage(c)
      PROVE  UNCHANGED <<script, sent, out, got>>
  BY <1>9 DEF SaslLine, ReadMessage, BadMessage, outVars
<1>10. ASSUME UNCHANGED vars PROVE UNCHANGED <<script, sent, out, got>>
  BY <1>10 DEF vars, inVars, outVars
<1>11. ASSUME NEW c \in Conns, Accept(c) \/ Serve(c) \/ Client(c)
       PROVE  [Promise!Next]_(Promise!vars)
  <2>1. CASE Write(c)
    BY <2>1, <1>2
  <2>2. CASE WriteReply(c)
    BY <2>2, <1>1, <1>3, <1>5
  <2>3. CASE ReadReply(c)
    BY <2>3, <1>4
  <2>4. CASE Accept(c) \/ Dial(c) \/ Leave(c)
    BY <2>4, <1>1, <1>7
  <2>5. CASE Fetch(c) \/ EndOfInput(c) \/ ReadNul(c) \/ Begin(c)
    BY <2>5, <1>1, <1>8
  <2>6. CASE SaslLine(c) \/ ReadMessage(c) \/ BadMessage(c)
    BY <2>6, <1>1, <1>9
  <2> QED
    BY <1>11, <2>1, <2>2, <2>3, <2>4, <2>5, <2>6 DEF Serve, Client
<1> QED
  BY <1>1, <1>6, <1>10, <1>11 DEF Next

(* Each question has its own answer, once and in order, with the serial of  *)
(* the call it answers, however the input was cut up and whatever other     *)
(* connections do (secretsvc.go:97-105, 185-213, 483).                      *)
THEOREM ServesCallsHolds == Spec => ServesCalls
<1>1. Init => Promise!Init
  BY InitMaps
<1>2. Inv /\ Inv' /\ [Next]_vars => [Promise!Next]_(Promise!vars)
  BY StepMaps
<1> QED
  BY <1>1, <1>2, Invariant, PTL DEF Spec, ServesCalls, Promise!Spec
=============================================================================
