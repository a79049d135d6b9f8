---------------------------- MODULE MCHttpProxy ----------------------------
(***************************************************************************)
(* HttpProxy for TLC: lookups that return at most two addresses, which     *)
(* differ, in any order.                                                   *)
(***************************************************************************)
EXTENDS HttpProxy, SequencesExt

MCAnswers == {ips \in BoundedSeq(Addresses, 2) : IsInjective(ips)}
=============================================================================
