-------------------------- MODULE MCSecretService --------------------------
(***************************************************************************)
(* SecretService for TLC: what go-keyring and other clients may send.      *)
(***************************************************************************)
EXTENDS SecretService, SequencesExt

Nul == [kind |-> "nul"]
Line(text) == [kind |-> "line", text |-> text]
Msg(type, method, serial_, fields, body) ==
  [kind |-> "msg", endian |-> "little", type |-> type, serial |-> serial_,
   method |-> method, fields |-> fields, body |-> body]
Call(method, n, fields, body) == Msg("call", method, n, fields, body)

(* Items with their places: each starts where the one before it ends. *)
Place(s, i) == 1 + FoldLeft(+, 0, [j \in 1..(i - 1) |-> Size(s[j])])
LayOut(s) == [i \in DOMAIN s |-> [at |-> Place(s, i)] @@ s[i]]

(* A client as go-keyring's; one that gets the handshake and the calls     *)
(* wrong but may go on; and three that the service has to leave.           *)
Usual == <<Nul, Line("AUTH EXTERNAL"), Line("BEGIN"),
           Call("Hello", 1, 3, 0), Call("GetSecret", 2, 4, 2)>>
Odd == <<Nul, Line("AUTH"), Line("BEGIN"), Msg("signal", "Hello", 7, 1, 1),
         Call("NoSuchMethod", 9, 3, 0), Call("Unlock", 8, 2, 1)>>
BigEndian == <<Nul, Line("BEGIN"), Call("Hello", 1, 1, 0),
               [Call("Hello", 2, 0, 0) EXCEPT !.endian = "big"]>>
NoNul == <<Line("AUTH EXTERNAL"), Line("BEGIN")>>
Silent == <<Nul>>

MCScripts == [c1 |-> {LayOut(s) : s \in {Usual, Odd, BigEndian, NoNul}},
              c2 |-> {LayOut(Silent)}]
=============================================================================
