--------------------------- MODULE SeccompFilter ---------------------------
(***************************************************************************)
(* The seccomp program that refuses the TIOCSTI ioctl (container.go:       *)
(* 385-456), run as the kernel runs it.  A system call is a record with    *)
(* its architecture, its number, and the low and the high word of its      *)
(* second argument.                                                        *)
(***************************************************************************)
EXTENDS Integers, Sequences

TIOCSTI == 21522  \* 0x5412

Ld(field) == [op |-> "ld", field |-> field]
Jeq(jt, jf, k) == [op |-> "jeq", jt |-> jt, jf |-> jf, k |-> k]
Ret(verdict) == [op |-> "ret", verdict |-> verdict]

(* Instruction n of the code is Program[n + 1].  Offset 28 instead of 24   *)
(* would be the high word of the argument.                                 *)
ProgramHighWord ==
  <<Ld("arch"), Jeq(3, 0, "x86_64"), Jeq(0, 7, "aarch64"),
    Ld("nr"), Jeq(2, 5, 29), Ld("nr"), Jeq(0, 3, 16),
    Ld("high"), Jeq(0, 1, TIOCSTI), Ret("EPERM"), Ret("ALLOW")>>
Program ==
  <<Ld("arch"), Jeq(3, 0, "x86_64"), Jeq(0, 7, "aarch64"),
    Ld("nr"), Jeq(2, 5, 29), Ld("nr"), Jeq(0, 3, 16),
    Ld("low"), Jeq(0, 1, TIOCSTI), Ret("EPERM"), Ret("ALLOW")>>

(* One instruction (external: the kernel's BPF machine): the instruction   *)
(* to come and the word in the accumulator.                                *)
Step(call, s) ==
  LET i == Program[s.at]
  IN CASE i.op = "ld" -> [at |-> s.at + 1, acc |-> call[i.field]]
       [] i.op = "jeq" -> [s EXCEPT !.at = @ + 1 + (IF s.acc = i.k THEN i.jt
                                                                   ELSE i.jf)]
       [] i.op = "ret" -> s

Two(call, s) == Step(call, Step(call, s))
Four(call, s) == Two(call, Two(call, s))

(* The jumps go forward: no call needs more than eight instructions. *)
Reached(call) == Four(call, Four(call, [at |-> 1, acc |-> ""]))
Verdict(call) == Program[Reached(call).at].verdict

(* The calls it has to refuse, and no others. *)
MustDeny(call) ==
  /\ \/ call.arch = "x86_64" /\ call.nr = 16
     \/ call.arch = "aarch64" /\ call.nr = 29
  /\ call.low = TIOCSTI
=============================================================================
