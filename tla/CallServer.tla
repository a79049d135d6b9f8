----------------------------- MODULE CallServer -----------------------------
(***************************************************************************)
(* What a client of the secret service may rely on.  A client asks its     *)
(* questions in the order of its script (lines of the handshake, then      *)
(* calls); each one that has an answer is answered once, in that order,    *)
(* with the answer that belongs to it, whatever other clients do and       *)
(* however the questions are cut on their way.                             *)
(***************************************************************************)
EXTENDS Integers, Sequences, FiniteSets

CONSTANTS Conns,         \* connections
          Answered(_),   \* of a script: the places of the questions answered
          AnswerTo(_, _) \* of a script and a place: the answer

VARIABLES script,  \* per connection: its questions
          asked,   \* per connection: how many it has asked in full
          answers  \* per connection: the answers, in order

vars == <<script, asked, answers>>

(* The question whose turn it is: those before it have been answered. *)
Turn(c, i) == Cardinality({j \in Answered(script[c]) : j < i})

Init == /\ asked = [c \in Conns |-> 0]
        /\ answers = [c \in Conns |-> <<>>]

Ask(c) == /\ \E n \in asked[c]..Len(script[c]) :
                asked' = [asked EXCEPT ![c] = n]
          /\ UNCHANGED <<script, answers>>

Answer(c) ==
  /\ \E i \in Answered(script[c]) :
       /\ i <= asked[c]
       /\ Turn(c, i) = Len(answers[c])
       /\ answers' = [answers EXCEPT ![c] = Append(@, AnswerTo(script[c], i))]
  /\ UNCHANGED <<script, asked>>

Next == \E c \in Conns : Ask(c) \/ Answer(c)

Spec == Init /\ [][Next]_vars
=============================================================================
