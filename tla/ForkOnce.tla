----------------------------- MODULE ForkOnce -----------------------------
(***************************************************************************)
(* What the per-project session stores promise, without saying how: the    *)
(* sessions of a project are forked from the host once, and from then on   *)
(* only the sandboxed agent changes the fork.                              *)
(*                                                                         *)
(* A session is a pair of counts: the turns it has from the host and the   *)
(* turns that were added inside the sandbox.                               *)
(***************************************************************************)
EXTENDS Naturals

CONSTANTS Sessions, Stores,
          Belongs(_, _)   \* session c belongs in store s

VARIABLES host,    \* the host's sessions: number of turns, 0 is absent
          forked,  \* the stores that have been forked
          fork     \* per store and session: the turns in the fork

vars == <<host, forked, fork>>

Nothing == [host |-> 0, flar |-> 0]

Init == /\ host \in [Sessions -> Nat]
        /\ forked = {}
        /\ fork = [s \in Stores |-> [c \in Sessions |-> Nothing]]

(* Whatever happens to the host's sessions has no effect on a fork. *)
HostChanges == /\ host' \in [Sessions -> Nat]
               /\ UNCHANGED <<forked, fork>>

(* The fork holds sessions of its own project only, each as the host has,  *)
(* or had, it.                                                             *)
Fork(s) ==
  /\ s \notin forked
  /\ forked' = forked \cup {s}
  /\ \A c \in Sessions : /\ fork'[s][c].host <= host[c]
                         /\ fork'[s][c].flar = 0
                         /\ ~Belongs(c, s) => fork'[s][c] = Nothing
  /\ fork' = [fork EXCEPT ![s] = fork'[s]]
  /\ UNCHANGED host

(* The sandboxed agent adds a turn to a session of its fork. *)
FlarTurn(s, c) ==
  /\ s \in forked
  /\ Belongs(c, s)
  /\ fork' = [fork EXCEPT ![s][c].flar = @ + 1]
  /\ UNCHANGED <<host, forked>>

Next == \/ HostChanges
        \/ \E s \in Stores : Fork(s)
        \/ \E s \in Stores, c \in Sessions : FlarTurn(s, c)

Spec == Init /\ [][Next]_vars
=============================================================================
