---------------------------- MODULE MCSeedStore ----------------------------
(***************************************************************************)
(* Small instances of SeedStore: three projects, of which two have paths   *)
(* that claudeProjectSlug makes equal, three sessions, and two runs that   *)
(* may use any project.                                                    *)
(***************************************************************************)
EXTENDS SeedStore, TLC

CONSTANTS A, B, C, SA, SB, a1, a2, b1, r1, r2

ThreeProjects == {A, B, C}
ThreeSessions == {a1, a2, b1}
OwnerOf == a1 :> A @@ a2 :> A @@ b1 :> B

(* A and C are paths such as /p/a-b and /p/a/b. *)
SlugsOf == A :> SA @@ B :> SB @@ C :> SA

RunSymmetry == Permutations({r1, r2})
=============================================================================
