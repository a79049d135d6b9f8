---------------------------- MODULE MountsProofs ----------------------------
(***************************************************************************)
(* Lemmas about paths and lists of mounts: which mount decides what is     *)
(* seen at a path, and which mounts of RunSandbox leave a path alone.      *)
(***************************************************************************)
EXTENDS SandboxMounts, SequenceTheorems, TLAPS

(* The parts of a path: strings, those that this model names among them.   *)
FileNames ==
  {"settings.json", "settings.local.json", "CLAUDE.md", ".credentials.json",
   "plugins", "skills", "commands", "account", "auth.json", "shell_snapshots",
   "state_5.sqlite", "logs_2.sqlite", "config.json", "hosts.yml",
   "session-store.db", "config.toml", "session_index.jsonl", "user-history",
   "workspaces.json", "logs", "settings.yaml", "trajectories", "usage", "log",
   "snapshot", "other"}
Literals ==
  FileNames \cup
  {"home", "u", "tmp", "flar-config", "flar-net", "usr", "opt", "run", "etc",
   "containers", "podman", "storage.conf", "etc-containers", ".gitconfig",
   ".config", ".local", ".cache", "state", "share", "lib", "flar", ".flar",
   "own", "projects", "memory", ".claude", ".claude.json", ".codex", ".gemini",
   "antigravity-cli", "conversations", "brain", "implicit", "history.jsonl",
   "cache", "last_conversations.json", "agy-secret", ".agy-secret", ".copilot",
   "session-state", "gh", ".reasonix", ".kimi-code", "credentials", "oauth",
   "sessions", "poolside", ".qwen", "qwen-code", "mimocode-config", "mimocode",
   "mimocode.db", "claude", "codex", "agy", "copilot", "reasonix", "kimi",
   "pool", "qwen", "mimo"}
Part == STRING \cup Literals
Path == Seq(Part)
Mount == [op : {"bind", "tmpfs"}, src : Path, dst : Path]

-----------------------------------------------------------------------------
(* Paths.                                                                  *)

(* A path is below another one when it begins with it. *)
LEMMA BelowFacts ==
  ASSUME NEW d \in Path, NEW p \in Path
  PROVE  Below(d, p) <=> /\ Len(d) <= Len(p)
                         /\ \A i \in 1..Len(d) : d[i] = p[i]
<1>1. Len(d) \in Nat /\ Len(p) \in Nat
  BY DEF Path
<1>2. SubSeq(d, 1, Len(d)) = d
  BY SubSeqFull DEF Path
<1>3. CASE Len(d) <= Len(p)
  <2>1. \A i \in 1..Len(d) : p[i] \in Part
    BY <1>1, <1>3, ElementOfSeq DEF Path
  <2>2. /\ SubSeq(p, 1, Len(d)) \in Path
        /\ Len(SubSeq(p, 1, Len(d))) = Len(d)
        /\ \A i \in 1..Len(d) : SubSeq(p, 1, Len(d))[i] = p[i]
    BY <1>1, <2>1, SubSeqProperties DEF Path
  <2>3. d = SubSeq(p, 1, Len(d)) <=> \A i \in 1..Len(d) : d[i] = p[i]
    BY <2>2, SeqEqual DEF Path
  <2> QED BY <1>2, <1>3, <2>3 DEF Below, IsPrefix
<1> QED BY <1>1, <1>3 DEF Below, IsPrefix

(* The rest of a path, by its parts. *)
LEMMA FromFacts ==
  ASSUME NEW d \in Path, NEW p \in Path, Below(d, p)
  PROVE  /\ From(d, p) \in Path
         /\ Len(From(d, p)) = Len(p) - Len(d)
         /\ \A i \in 1..(Len(p) - Len(d)) : From(d, p)[i] = p[i + Len(d)]
<1>1. Len(d) \in Nat /\ Len(p) \in Nat /\ Len(d) <= Len(p)
  BY BelowFacts DEF Path
<1>2. \A i \in (Len(d) + 1)..Len(p) : p[i] \in Part
  BY <1>1, ElementOfSeq DEF Path
<1> DEFINE f == SubSeq(p, Len(d) + 1, Len(p))
<1>3. /\ f \in Seq(Part)
      /\ Len(f) = IF Len(d) + 1 <= Len(p) THEN Len(p) - (Len(d) + 1) + 1 ELSE 0
      /\ \A i \in 1..(Len(p) - (Len(d) + 1) + 1) : f[i] = p[Len(d) + 1 + i - 1]
  BY <1>1, <1>2, SubSeqProperties
<1>4. \A i \in 1..(Len(p) - Len(d)) : f[i] = p[i + Len(d)]
  BY <1>1, <1>3
<1>5. Len(f) = Len(p) - Len(d)
  BY <1>1, <1>3
<1> QED BY <1>3, <1>4, <1>5 DEF From, Path

(* What is below a path is the path and the rest. *)
LEMMA FromBack ==
  ASSUME NEW d \in Path, NEW p \in Path, Below(d, p)
  PROVE  d \o From(d, p) = p
<1>1. /\ From(d, p) \in Path /\ Len(From(d, p)) = Len(p) - Len(d)
      /\ \A i \in 1..(Len(p) - Len(d)) : From(d, p)[i] = p[i + Len(d)]
  BY FromFacts
<1>2. /\ Len(d) \in Nat /\ Len(p) \in Nat /\ Len(d) <= Len(p)
      /\ \A i \in 1..Len(d) : d[i] = p[i]
  BY BelowFacts DEF Path
<1> DEFINE q == d \o From(d, p)
<1>3. /\ q \in Path /\ Len(q) = Len(p)
      /\ \A i \in 1..Len(p) : q[i] = IF i <= Len(d) THEN d[i]
                                     ELSE From(d, p)[i - Len(d)]
  BY <1>1, <1>2, ConcatProperties DEF Path
<1>4. \A i \in 1..Len(p) : q[i] = p[i]
  <2> SUFFICES ASSUME NEW i \in 1..Len(p) PROVE q[i] = p[i]
    OBVIOUS
  <2>1. CASE i <= Len(d)
    BY <1>2, <1>3, <2>1
  <2>2. CASE ~(i <= Len(d))
    <3>1. i - Len(d) \in 1..(Len(p) - Len(d))
      BY <1>2, <2>2
    <3> QED BY <1>1, <1>2, <1>3, <2>2, <3>1
  <2> QED BY <2>1, <2>2
<1> QED BY <1>3, <1>4, SeqEqual DEF Path

(* Below is reflexive, *)
LEMMA BelowSelf ==
  ASSUME NEW p \in Path
  PROVE  Below(p, p) /\ From(p, p) = <<>>
<1>1. Len(p) \in Nat
  BY DEF Path
<1>2. Below(p, p)
  BY <1>1, BelowFacts
<1> QED BY <1>1, <1>2, SubSeqEmpty DEF From

(* and transitive. *)
LEMMA BelowTransitive ==
  ASSUME NEW c \in Path, NEW d \in Path, NEW p \in Path,
         Below(c, d), Below(d, p)
  PROVE  Below(c, p)
<1>1. Len(c) \in Nat /\ Len(d) \in Nat /\ Len(p) \in Nat
  BY DEF Path
<1> QED BY <1>1, BelowFacts

(* Paths of the home directory. *)
LEMMA HomeFacts ==
  ASSUME NEW a \in Path
  PROVE  /\ H(a) \in Path /\ Len(H(a)) = Len(a) + 2
         /\ H(a)[1] = "home" /\ H(a)[2] = "u"
         /\ \A i \in 1..Len(a) : H(a)[i + 2] = a[i]
<1>1. "home" \in Part /\ "u" \in Part
  BY DEF Part, Literals
<1>2. Home \in Path /\ Len(Home) = 2 /\ Home[1] = "home" /\ Home[2] = "u"
  BY <1>1 DEF Home, Path
<1>3. Len(a) \in Nat
  BY DEF Path
<1> DEFINE p == Home \o a
<1>4. p \in Path /\ Len(p) = Len(Home) + Len(a)
  BY <1>2, ConcatProperties DEF Path
<1>5. \A i \in 1..(Len(Home) + Len(a)) :
        p[i] = IF i <= Len(Home) THEN Home[i] ELSE a[i - Len(Home)]
  BY <1>2, ConcatProperties DEF Path
<1>6. Len(p) = Len(a) + 2 /\ p[1] = "home" /\ p[2] = "u"
  BY <1>2, <1>3, <1>4, <1>5
<1>7. \A i \in 1..Len(a) : p[i + 2] = a[i]
  <2> SUFFICES ASSUME NEW i \in 1..Len(a) PROVE p[i + 2] = a[i]
    OBVIOUS
  <2>1. i + 2 \in 1..(Len(Home) + Len(a)) /\ ~(i + 2 <= 2) /\ (i + 2) - 2 = i
    BY <1>2, <1>3
  <2> QED BY <1>2, <1>5, <2>1
<1> QED BY <1>4, <1>6, <1>7 DEF H

(* In the home directory paths are below one another as they are without it. *)
LEMMA HomeBelow ==
  ASSUME NEW a \in Path, NEW b \in Path
  PROVE  /\ Below(H(a), H(b)) <=> Below(a, b)
         /\ Below(a, b) => From(H(a), H(b)) = From(a, b)
<1> DEFINE p == H(a)
           q == H(b)
<1>1. /\ p \in Path /\ Len(p) = Len(a) + 2 /\ Len(a) \in Nat
      /\ p[1] = "home" /\ p[2] = "u" /\ \A i \in 1..Len(a) : p[i + 2] = a[i]
  BY HomeFacts DEF Path
<1>2. /\ q \in Path /\ Len(q) = Len(b) + 2 /\ Len(b) \in Nat
      /\ q[1] = "home" /\ q[2] = "u" /\ \A i \in 1..Len(b) : q[i + 2] = b[i]
  BY HomeFacts DEF Path
<1> HIDE DEF p, q
<1>3. ASSUME Below(p, q) PROVE Below(a, b)
  <2>1. Len(p) <= Len(q) /\ \A i \in 1..Len(p) : p[i] = q[i]
    BY <1>1, <1>2, <1>3, BelowFacts
  <2>2. \A i \in 1..Len(a) : i + 2 \in 1..Len(p)
    BY <1>1
  <2>3. Len(a) <= Len(b) /\ \A i \in 1..Len(a) : a[i] = b[i]
    BY <1>1, <1>2, <2>1, <2>2
  <2> QED BY <2>3, BelowFacts
<1>4. ASSUME Below(a, b) PROVE Below(p, q)
  <2>1. Len(a) <= Len(b) /\ \A i \in 1..Len(a) : a[i] = b[i]
    BY <1>4, BelowFacts
  <2>2. \A i \in 1..Len(p) : p[i] = q[i]
    <3> SUFFICES ASSUME NEW i \in 1..Len(p) PROVE p[i] = q[i]
      OBVIOUS
    <3>1. CASE i <= 2
      <4>1. i = 1 \/ i = 2
        BY <1>1, <3>1
      <4> QED BY <1>1, <1>2, <4>1
    <3>2. CASE ~(i <= 2)
      <4>1. i - 2 \in 1..Len(a) /\ i - 2 \in 1..Len(b) /\ (i - 2) + 2 = i
        BY <1>1, <1>2, <2>1, <3>2
      <4>2. p[i] = a[i - 2] /\ q[i] = b[i - 2]
        BY <1>1, <1>2, <4>1
      <4> QED BY <2>1, <4>1, <4>2
    <3> QED BY <3>1, <3>2
  <2> QED BY <1>1, <1>2, <2>1, <2>2, BelowFacts
<1>5. ASSUME Below(a, b) PROVE From(p, q) = From(a, b)
  <2>1. Below(p, q)
    BY <1>4, <1>5
  <2>2. /\ From(a, b) \in Path /\ Len(From(a, b)) = Len(b) - Len(a)
        /\ \A i \in 1..(Len(b) - Len(a)) : From(a, b)[i] = b[i + Len(a)]
    BY <1>5, FromFacts
  <2>3. /\ From(p, q) \in Path
        /\ Len(From(p, q)) = Len(q) - Len(p)
        /\ \A i \in 1..(Len(q) - Len(p)) : From(p, q)[i] = q[i + Len(p)]
    BY <1>1, <1>2, <2>1, FromFacts
  <2>4. Len(q) - Len(p) = Len(b) - Len(a)
    BY <1>1, <1>2
  <2>5. \A i \in 1..Len(From(a, b)) : From(p, q)[i] = From(a, b)[i]
    <3> SUFFICES ASSUME NEW i \in 1..(Len(b) - Len(a))
                 PROVE  From(p, q)[i] = From(a, b)[i]
      BY <2>2
    <3>1. i + Len(a) \in 1..Len(b) /\ (i + Len(a)) + 2 = i + Len(p)
      BY <1>1, <1>2
    <3>2. q[i + Len(p)] = b[i + Len(a)]
      BY <1>2, <3>1
    <3> QED BY <2>2, <2>3, <2>4, <3>2
  <2> QED BY <2>2, <2>3, <2>4, <2>5, SeqEqual DEF Path
<1> QED BY <1>3, <1>4, <1>5 DEF p, q

-----------------------------------------------------------------------------
(* Lists of mounts.  Shows(ops, p, v): some mount of ops is at or above p, *)
(* none that comes later is, and it shows v there.                         *)
Lists == Seq(Mount)

Shown(op, p) == IF op.op = "tmpfs" THEN Fresh ELSE op.src \o From(op.dst, p)

Shows(ops, p, v) ==
  \E k \in 1..Len(ops) :
    /\ Below(ops[k].dst, p)
    /\ \A j \in 1..Len(ops) : j > k => ~Below(ops[j].dst, p)
    /\ v = Shown(ops[k], p)

Misses(ops, p) == \A k \in 1..Len(ops) : ~Below(ops[k].dst, p)

(* What a list shows at a path is what is seen there. *)
LEMMA ShowsView ==
  ASSUME NEW ops \in Lists, NEW p, NEW v, Shows(ops, p, v)
  PROVE  View(ops, p) = v
<1>1. DOMAIN ops = 1..Len(ops) /\ Len(ops) \in Nat
  BY DEF Lists
<1>2. PICK k \in 1..Len(ops) :
        /\ Below(ops[k].dst, p)
        /\ \A j \in 1..Len(ops) : j > k => ~Below(ops[j].dst, p)
        /\ v = Shown(ops[k], p)
  BY DEF Shows
<1>3. \A i \in DOMAIN ops :
        (/\ Below(ops[i].dst, p)
         /\ \A j \in DOMAIN ops : Below(ops[j].dst, p) => j <= i)
        <=> i = k
  BY <1>1, <1>2
<1>4. Cover(ops, p) = k
  BY <1>1, <1>3 DEF Cover
<1> QED BY <1>2, <1>4 DEF View, Shown

(* The elements of a concatenation. *)
LEMMA ListConcat ==
  ASSUME NEW a \in Lists, NEW b \in Lists
  PROVE  /\ a \o b \in Lists /\ Len(a) \in Nat /\ Len(b) \in Nat
         /\ Len(a \o b) = Len(a) + Len(b)
         /\ \A i \in 1..Len(a) : (a \o b)[i] = a[i]
         /\ \A i \in 1..Len(b) : (a \o b)[i + Len(a)] = b[i]
         /\ \A i \in 1..(Len(a) + Len(b)) :
              \/ i \in 1..Len(a)
              \/ i - Len(a) \in 1..Len(b) /\ (i - Len(a)) + Len(a) = i
<1> DEFINE c == a \o b
<1>1. Len(a) \in Nat /\ Len(b) \in Nat
  BY DEF Lists
<1>2. c \in Lists /\ Len(c) = Len(a) + Len(b)
  BY ConcatProperties DEF Lists
<1>3. \A i \in 1..(Len(a) + Len(b)) :
        c[i] = IF i <= Len(a) THEN a[i] ELSE b[i - Len(a)]
  BY ConcatProperties DEF Lists
<1>4. \A i \in 1..Len(a) : c[i] = a[i]
  BY <1>1, <1>3
<1>5. \A i \in 1..Len(b) : c[i + Len(a)] = b[i]
  <2> SUFFICES ASSUME NEW i \in 1..Len(b) PROVE c[i + Len(a)] = b[i]
    OBVIOUS
  <2>1. /\ i + Len(a) \in 1..(Len(a) + Len(b)) /\ ~(i + Len(a) <= Len(a))
        /\ (i + Len(a)) - Len(a) = i
    BY <1>1
  <2> QED BY <1>3, <2>1
<1>6. \A i \in 1..(Len(a) + Len(b)) :
        \/ i \in 1..Len(a)
        \/ i - Len(a) \in 1..Len(b) /\ (i - Len(a)) + Len(a) = i
  BY <1>1
<1> QED BY <1>1, <1>2, <1>4, <1>5, <1>6

(* Two lists that miss a path miss it together. *)
LEMMA MissConcat ==
  ASSUME NEW a \in Lists, NEW b \in Lists, NEW p, Misses(a, p), Misses(b, p)
  PROVE  a \o b \in Lists /\ Misses(a \o b, p)
<1>1. ASSUME NEW i \in 1..Len(a \o b) PROVE ~Below((a \o b)[i].dst, p)
  <2>1. CASE i \in 1..Len(a)
    <3>1. (a \o b)[i] = a[i]
      BY <2>1, ListConcat
    <3> QED BY <2>1, <3>1 DEF Misses
  <2>2. CASE i \notin 1..Len(a)
    <3>1. i - Len(a) \in 1..Len(b) /\ (i - Len(a)) + Len(a) = i
      BY <1>1, <2>2, ListConcat
    <3>2. \A n \in 1..Len(b) : (a \o b)[n + Len(a)] = b[n]
      BY ListConcat
    <3>3. (a \o b)[i] = b[i - Len(a)]
      BY <3>1, <3>2
    <3> QED BY <3>1, <3>3 DEF Misses
  <2> QED BY <2>1, <2>2
<1> QED BY <1>1, ListConcat DEF Misses

(* What the second list shows, both show. *)
LEMMA ShowsRight ==
  ASSUME NEW a \in Lists, NEW b \in Lists, NEW p, NEW v, Shows(b, p, v)
  PROVE  a \o b \in Lists /\ Shows(a \o b, p, v)
<1>1. PICK k \in 1..Len(b) :
        /\ Below(b[k].dst, p)
        /\ \A j \in 1..Len(b) : j > k => ~Below(b[j].dst, p)
        /\ v = Shown(b[k], p)
  BY DEF Shows
<1>2. Len(a) \in Nat /\ Len(b) \in Nat /\ Len(a \o b) = Len(a) + Len(b)
  BY ListConcat
<1>3. k + Len(a) \in 1..Len(a \o b) /\ (a \o b)[k + Len(a)] = b[k]
  <2>1. \A n \in 1..Len(b) : (a \o b)[n + Len(a)] = b[n]
    BY ListConcat
  <2> QED BY <1>2, <2>1
<1>4. ASSUME NEW i \in 1..Len(a \o b), i > k + Len(a)
      PROVE  ~Below((a \o b)[i].dst, p)
  <2>1. i - Len(a) \in 1..Len(b) /\ (i - Len(a)) + Len(a) = i /\ i - Len(a) > k
    BY <1>2, <1>4
  <2>2. (a \o b)[i] = b[i - Len(a)]
    BY <2>1, ListConcat
  <2> QED BY <1>1, <2>1, <2>2
<1> QED BY <1>1, <1>3, <1>4, ListConcat DEF Shows

(* What the first shows, both show, if the second misses the path. *)
LEMMA ShowsLeft ==
  ASSUME NEW a \in Lists, NEW b \in Lists, NEW p, NEW v,
         Shows(a, p, v), Misses(b, p)
  PROVE  a \o b \in Lists /\ Shows(a \o b, p, v)
<1>1. PICK k \in 1..Len(a) :
        /\ Below(a[k].dst, p)
        /\ \A j \in 1..Len(a) : j > k => ~Below(a[j].dst, p)
        /\ v = Shown(a[k], p)
  BY DEF Shows
<1>2. Len(a) \in Nat /\ Len(b) \in Nat /\ Len(a \o b) = Len(a) + Len(b)
  BY ListConcat
<1>3. k \in 1..Len(a \o b) /\ (a \o b)[k] = a[k]
  BY <1>2, ListConcat
<1>4. ASSUME NEW i \in 1..Len(a \o b), i > k PROVE ~Below((a \o b)[i].dst, p)
  <2>1. CASE i \in 1..Len(a)
    BY <1>1, <1>4, <2>1, ListConcat
  <2>2. CASE i \notin 1..Len(a)
    <3>1. i - Len(a) \in 1..Len(b) /\ (a \o b)[i] = b[i - Len(a)]
      BY <1>2, <2>2, ListConcat
    <3> QED BY <3>1 DEF Misses
  <2> QED BY <2>1, <2>2
<1> QED BY <1>1, <1>3, <1>4, ListConcat DEF Shows

(* Lists of no mount and of one. *)
(* No mount, one mount, one empty directory. *)
LEMMA NoMount == <<>> \in Lists /\ \A p : Misses(<<>>, p)
BY EmptySeq DEF Lists, Misses

LEMMA OneMount ==
  ASSUME NEW src \in Path, NEW dst \in Path
  PROVE  /\ Bind(src, dst) \in Lists
         /\ \A p : ~Below(dst, p) => Misses(Bind(src, dst), p)
         /\ \A p : Below(dst, p) => Shows(Bind(src, dst), p, src \o From(dst, p))
<1> DEFINE m == [op |-> "bind", src |-> src, dst |-> dst]
<1>1. m \in Mount /\ m.dst = dst /\ m.src = src /\ m.op # "tmpfs"
  BY DEF Mount
<1> HIDE DEF m
<1>2. <<m>> \in Lists /\ Len(<<m>>) = 1 /\ <<m>>[1] = m
  BY <1>1 DEF Lists
<1>3. \A k \in 1..Len(<<m>>) : k = 1
  BY <1>2
<1>4. Bind(src, dst) = <<m>>
  BY DEF Bind, m
<1>5. \A p : ~Below(dst, p) => Misses(<<m>>, p)
  BY <1>1, <1>2, <1>3 DEF Misses
<1>6. \A p : Below(dst, p) => Shows(<<m>>, p, src \o From(dst, p))
  <2> SUFFICES ASSUME NEW p, Below(dst, p)
               PROVE  Shows(<<m>>, p, src \o From(dst, p))
    OBVIOUS
  <2>1. Shown(m, p) = src \o From(dst, p)
    BY <1>1 DEF Shown
  <2>2. \A j \in 1..Len(<<m>>) : ~(j > 1)
    BY <1>3
  <2> QED BY <1>1, <1>2, <2>1, <2>2 DEF Shows
<1> QED BY <1>2, <1>4, <1>5, <1>6

LEMMA OneTmpfs ==
  ASSUME NEW dst \in Path
  PROVE  /\ Tmpfs(dst) \in Lists
         /\ \A p : ~Below(dst, p) => Misses(Tmpfs(dst), p)
<1> DEFINE m == [op |-> "tmpfs", src |-> <<>>, dst |-> dst]
<1>1. m \in Mount /\ m.dst = dst
  BY EmptySeq DEF Mount, Path
<1> HIDE DEF m
<1>2. <<m>> \in Lists /\ Len(<<m>>) = 1 /\ <<m>>[1] = m
  BY <1>1 DEF Lists
<1>3. \A k \in 1..Len(<<m>>) : k = 1
  BY <1>2
<1>4. Tmpfs(dst) = <<m>>
  BY DEF Tmpfs, m
<1>5. \A p : ~Below(dst, p) => Misses(<<m>>, p)
  BY <1>1, <1>2, <1>3 DEF Misses
<1> QED BY <1>2, <1>4, <1>5

(* What is mounted where it is on the host shows itself. *)
LEMMA ShowsItself ==
  ASSUME NEW q \in Path, NEW p \in Path, Below(q, p)
  PROVE  Shows(Bind(q, q), p, p)
<1>1. q \o From(q, p) = p
  BY FromBack
<1>2. Shows(Bind(q, q), p, q \o From(q, p))
  BY OneMount
<1> QED BY <1>1, <1>2

(* A mount shows its source at its own place. *)
LEMMA ShowsHere ==
  ASSUME NEW src \in Path, NEW dst \in Path
  PROVE  Shows(Bind(src, dst), dst, src)
<1>1. Below(dst, dst) /\ From(dst, dst) = <<>>
  BY BelowSelf
<1>2. src \o <<>> = src
  BY ConcatEmptySeq DEF Path
<1>3. Shows(Bind(src, dst), dst, src \o From(dst, dst))
  BY <1>1, OneMount
<1> QED BY <1>1, <1>2, <1>3

(* After a mount of a path as it is on the host, what was seen before is   *)
(* seen, or the path itself.                                               *)
LEMMA KeepsItself ==
  ASSUME NEW a \in Lists, NEW q \in Path, NEW p \in Path, Shows(a, p, p)
  PROVE  a \o Bind(q, q) \in Lists /\ Shows(a \o Bind(q, q), p, p)
<1>1. Bind(q, q) \in Lists
  BY OneMount
<1>2. CASE Below(q, p)
  <2>1. Shows(Bind(q, q), p, p)
    BY <1>2, ShowsItself
  <2> QED BY <1>1, <2>1, ShowsRight
<1>3. CASE ~Below(q, p)
  <2>1. Misses(Bind(q, q), p)
    BY <1>3, OneMount
  <2> QED BY <1>1, <2>1, ShowsLeft
<1> QED BY <1>2, <1>3

-----------------------------------------------------------------------------
(* The paths and mounts of RunSandbox.                                     *)

LEMMA TuplePaths ==
  ASSUME NEW a \in Part, NEW b \in Part, NEW c \in Part, NEW d \in Part,
         NEW e \in Part, NEW f \in Part
  PROVE  /\ <<a>> \in Path /\ <<a, b>> \in Path /\ <<a, b, c>> \in Path
         /\ <<a, b, c, d>> \in Path /\ <<a, b, c, d, e, f>> \in Path
BY DEF Path

(* Paths one after the other. *)
LEMMA ConcatParts ==
  ASSUME NEW a \in Path, NEW b \in Path
  PROVE  /\ a \o b \in Path /\ Len(a \o b) = Len(a) + Len(b)
         /\ Len(a) \in Nat /\ Len(b) \in Nat
         /\ \A i \in 1..(Len(a) + Len(b)) :
              (a \o b)[i] = IF i <= Len(a) THEN a[i] ELSE b[i - Len(a)]
<1>1. a \in Seq(Part) /\ b \in Seq(Part)
  BY DEF Path
<1>2. /\ a \o b \in Seq(Part) /\ Len(a \o b) = Len(a) + Len(b)
      /\ \A i \in 1..(Len(a) + Len(b)) :
           (a \o b)[i] = IF i <= Len(a) THEN a[i] ELSE b[i - Len(a)]
  BY <1>1, ConcatProperties
<1> QED BY <1>1, <1>2 DEF Path

LEMMA ConcatPath ==
  ASSUME NEW a \in Path, NEW b \in Path
  PROVE  a \o b \in Path
BY ConcatParts

(* The nine agents. *)
LEMMA AgentNames ==
  Agents = {"claude", "codex", "agy", "copilot", "reasonix", "kimi", "pool",
            "qwen", "mimo"}
<1>1. DOMAIN Order = 1..9
  BY DEF Order
<1>2. /\ Order[1] = "claude" /\ Order[2] = "codex" /\ Order[3] = "agy"
      /\ Order[4] = "copilot" /\ Order[5] = "reasonix" /\ Order[6] = "kimi"
      /\ Order[7] = "pool" /\ Order[8] = "qwen" /\ Order[9] = "mimo"
  BY DEF Order
<1>3. \A k : k \in 1..9 <=> \/ k = 1 \/ k = 2 \/ k = 3 \/ k = 4 \/ k = 5
                            \/ k = 6 \/ k = 7 \/ k = 8 \/ k = 9
  OBVIOUS
<1> QED BY <1>1, <1>2, <1>3 DEF Agents

(* The paths that the model fixes. *)
LEMMA FixedPaths ==
  /\ TempConfig \in Path /\ TempNetDir \in Path /\ AgyDir \in Path
  /\ FlarState \in Path /\ CacheDir \in Path /\ Own \in Part
  /\ <<"usr">> \in Path /\ <<"opt">> \in Path /\ <<"tmp">> \in Path
  /\ <<"run">> \in Path /\ <<>> \in Path /\ <<"etc", "containers">> \in Path
  /\ <<"run", "flar-net">> \in Path /\ <<"podman", "storage.conf">> \in Path
  /\ <<"podman", "etc-containers">> \in Path
  /\ <<".config", "containers", "storage.conf">> \in Path
<1>1. Literals \subseteq Part
  BY DEF Part
<1>2. /\ "tmp" \in Literals /\ "flar-config" \in Literals
      /\ "flar-net" \in Literals /\ ".gemini" \in Literals
      /\ "antigravity-cli" \in Literals /\ ".local" \in Literals
      /\ "state" \in Literals /\ "flar" \in Literals /\ ".cache" \in Literals
      /\ "containers" \in Literals /\ "own" \in Literals
      /\ "usr" \in Literals /\ "opt" \in Literals /\ "run" \in Literals
      /\ "etc" \in Literals /\ "podman" \in Literals
      /\ "storage.conf" \in Literals /\ "etc-containers" \in Literals
      /\ ".config" \in Literals
  BY DEF Literals
<1> QED BY <1>1, <1>2, EmptySeq DEF TempConfig, TempNetDir, AgyDir, FlarState,
           CacheDir, Own, Path

(* Mounts of one copy, one directory of the host, or one store. *)
LEMMA HomeMounts ==
  ASSUME NEW dst \in Path
  PROVE  /\ Live(dst) \in Lists
         /\ \A name \in Part : Copy(name, dst) \in Lists
         /\ \A src \in Path : Bind(src, H(dst)) \in Lists
         /\ \A p : ~Below(H(dst), p) =>
              /\ Misses(Live(dst), p)
              /\ \A name \in Part : Misses(Copy(name, dst), p)
              /\ \A src \in Path : Misses(Bind(src, H(dst)), p)
<1>1. H(dst) \in Path
  BY HomeFacts
<1>2. \A name \in Part : TempConfig \o <<name>> \in Path
  BY FixedPaths, ConcatPath, TuplePaths
<1> QED BY <1>1, <1>2, OneMount DEF Live, Copy

(* A list that depends on a condition. *)
LEMMA WhenMounts ==
  ASSUME NEW ops \in Lists, NEW c \in BOOLEAN
  PROVE  /\ When(c, ops) \in Lists
         /\ \A p : Misses(ops, p) => Misses(When(c, ops), p)
         /\ \A p, v : c /\ Shows(ops, p, v) => Shows(When(c, ops), p, v)
BY NoMount DEF When

(* What is below a directory that is not above p is not above p. *)
LEMMA DeeperMisses ==
  ASSUME NEW d \in Path, NEW e \in Path, NEW p \in Path,
         Below(d, e), ~Below(H(d), p)
  PROVE  ~Below(H(e), p)
<1>1. H(d) \in Path /\ H(e) \in Path /\ Below(H(d), H(e))
  BY HomeFacts, HomeBelow
<1> QED BY <1>1, BelowTransitive

(* Where a store is. *)
LEMMA StorePath ==
  ASSUME NEW agent \in Agents
  PROVE  Store(agent) \in Path
<1>1. Literals \subseteq Part
  BY DEF Part
<1>2. /\ ".flar" \in Literals /\ ".copilot" \in Literals /\ "own" \in Literals
      /\ "codex" \in Literals /\ "kimi" \in Literals /\ "pool" \in Literals
      /\ "mimo" \in Literals /\ "claude" \in Literals
      /\ "reasonix" \in Literals /\ "qwen" \in Literals
  BY DEF Literals
<1>3. agent = "agy" \/ agent = "copilot" \/ agent \in Part
  BY <1>1, <1>2, AgentNames
<1>4. H(AgyDir \o <<".flar", Own>>) \in Path
  BY <1>1, <1>2, FixedPaths, TuplePaths, ConcatPath, HomeFacts
<1>5. H(<<".copilot", ".flar", Own>>) \in Path
  BY <1>1, <1>2, FixedPaths, TuplePaths, HomeFacts
<1>6. agent \in Part => H(FlarState \o <<agent, Own>>) \in Path
  BY <1>1, <1>2, FixedPaths, TuplePaths, ConcatPath, HomeFacts
<1> QED BY <1>3, <1>4, <1>5, <1>6, AgentNames DEF Store

(* A path is above what continues it. *)
LEMMA BelowConcat ==
  ASSUME NEW a \in Path, NEW b \in Path
  PROVE  Below(a, a \o b)
<1> DEFINE q == a \o b
<1>1. /\ q \in Path /\ Len(q) = Len(a) + Len(b)
      /\ Len(a) \in Nat /\ Len(b) \in Nat
  BY ConcatProperties DEF Path
<1>2. \A i \in 1..(Len(a) + Len(b)) :
        q[i] = IF i <= Len(a) THEN a[i] ELSE b[i - Len(a)]
  BY ConcatProperties DEF Path
<1> HIDE DEF q
<1>3. Len(a) <= Len(q) /\ \A i \in 1..Len(a) : a[i] = q[i]
  BY <1>1, <1>2
<1>4. Below(a, q)
  BY <1>1, <1>3, BelowFacts
<1> QED BY <1>4 DEF q

(* The names of the model, one by one. *)
LEMMA LiteralNames ==
  /\ Own \in Literals
  /\ "home" \in Literals /\ "u" \in Literals
  /\ "tmp" \in Literals /\ "flar-config" \in Literals
  /\ "flar-net" \in Literals /\ "usr" \in Literals
  /\ "opt" \in Literals /\ "run" \in Literals
  /\ "etc" \in Literals /\ "containers" \in Literals
  /\ "podman" \in Literals /\ "storage.conf" \in Literals
  /\ "etc-containers" \in Literals /\ ".gitconfig" \in Literals
  /\ ".config" \in Literals /\ ".local" \in Literals
  /\ ".cache" \in Literals /\ "state" \in Literals
  /\ "share" \in Literals /\ "lib" \in Literals
  /\ "flar" \in Literals /\ ".flar" \in Literals
  /\ "own" \in Literals /\ "projects" \in Literals
  /\ "memory" \in Literals /\ ".claude" \in Literals
  /\ ".claude.json" \in Literals /\ ".codex" \in Literals
  /\ ".gemini" \in Literals /\ "antigravity-cli" \in Literals
  /\ "conversations" \in Literals /\ "brain" \in Literals
  /\ "implicit" \in Literals /\ "history.jsonl" \in Literals
  /\ "cache" \in Literals /\ "last_conversations.json" \in Literals
  /\ "agy-secret" \in Literals /\ ".agy-secret" \in Literals
  /\ ".copilot" \in Literals /\ "session-state" \in Literals
  /\ "gh" \in Literals /\ ".reasonix" \in Literals
  /\ ".kimi-code" \in Literals /\ "credentials" \in Literals
  /\ "oauth" \in Literals /\ "sessions" \in Literals
  /\ "poolside" \in Literals /\ ".qwen" \in Literals
  /\ "qwen-code" \in Literals /\ "mimocode-config" \in Literals
  /\ "mimocode" \in Literals /\ "mimocode.db" \in Literals
  /\ "claude" \in Literals /\ "codex" \in Literals
  /\ "agy" \in Literals /\ "copilot" \in Literals
  /\ "reasonix" \in Literals /\ "kimi" \in Literals
  /\ "pool" \in Literals /\ "qwen" \in Literals
  /\ "mimo" \in Literals
BY DEF Literals, Own

(* The paths that the agents' own mounts use. *)
LEMMA AgentPaths ==
  /\ \A x \in Literals : x \in Part /\ <<x>> \in Path
  /\ \A x \in Literals, y \in Literals :
       <<x, y>> \in Path /\ Below(<<x>>, <<x, y>>)
  /\ \A x \in Literals, y \in Literals, z \in Literals :
       <<x, y, z>> \in Path /\ Below(<<x>>, <<x, y, z>>)
  /\ <<".local", "state", "poolside">> \in Path
  /\ <<".local", "share", "mimocode">> \in Path
  /\ Below(<<".gemini">>, AgyDir)
<1>1. Literals \subseteq Part
  BY DEF Part
<1>2. \A x \in Part : <<x>> \in Path
  BY TuplePaths
<1>3. \A x, y \in Part : <<x, y>> \in Path /\ Below(<<x>>, <<x, y>>)
  <2> SUFFICES ASSUME NEW x \in Part, NEW y \in Part
               PROVE  <<x, y>> \in Path /\ Below(<<x>>, <<x, y>>)
    OBVIOUS
  <2>1. <<x>> \in Path /\ <<x, y>> \in Path
    BY TuplePaths
  <2> QED BY <2>1, BelowFacts
<1>4. \A x, y, z \in Part : <<x, y, z>> \in Path /\ Below(<<x>>, <<x, y, z>>)
  <2> SUFFICES ASSUME NEW x \in Part, NEW y \in Part, NEW z \in Part
               PROVE  <<x, y, z>> \in Path /\ Below(<<x>>, <<x, y, z>>)
    OBVIOUS
  <2>1. <<x>> \in Path /\ <<x, y, z>> \in Path
    BY TuplePaths
  <2> QED BY <2>1, BelowFacts
<1>5. /\ ".local" \in Part /\ "state" \in Part /\ "poolside" \in Part
      /\ "share" \in Part /\ "mimocode" \in Part /\ ".gemini" \in Part
  BY <1>1, FixedPaths DEF Literals
<1>6. /\ <<".local", "state", "poolside">> \in Path
      /\ <<".local", "share", "mimocode">> \in Path
  BY <1>5, TuplePaths
<1>7. Below(<<".gemini">>, AgyDir)
  <2>1. AgyDir = <<".gemini", "antigravity-cli">> /\ "antigravity-cli" \in Part
    BY <1>1 DEF AgyDir, Literals
  <2> QED BY <1>3, <1>5, <2>1
<1> QED BY <1>1, <1>2, <1>3, <1>4, <1>6, <1>7

(* The memory of mimo is in its directory, whatever project it is of. *)
LEMMA MemoryPaths ==
  ASSUME NEW id \in Slugs
  PROVE  /\ MemoryDir(id) \in Path /\ Len(MemoryDir(id)) = 6
         /\ Below(<<".local", "share", "mimocode">>, MemoryDir(id))
<1> DEFINE d == <<".local", "share", "mimocode">>
           p == <<".local", "share", "mimocode", "memory", "projects", id>>
<1>1. id \in Part
  BY DEF Slugs, Own, Part, Literals, FileNames
<1>2. d \in Path /\ p \in Path
  BY <1>1, AgentPaths, LiteralNames, TuplePaths
<1>3. Len(d) = 3 /\ Len(p) = 6 /\ d[1] = p[1] /\ d[2] = p[2] /\ d[3] = p[3]
  OBVIOUS
<1> HIDE DEF d, p
<1>4. Len(d) <= Len(p) /\ \A i \in 1..Len(d) : d[i] = p[i]
  BY <1>3
<1>5. Below(d, p)
  BY <1>2, <1>4, BelowFacts
<1> QED BY <1>2, <1>3, <1>5 DEF MemoryDir, d, p

(* A path outside the directories that are mounted over. *)
Clear(p) == \A dir \in MountedOver : ~Below(H(dir), p)

(* A copy, a store, and what is mounted live miss what is elsewhere. *)
LEMMA CopyMisses ==
  ASSUME NEW name \in Literals, NEW dst \in Path
  PROVE  /\ Copy(name, dst) \in Lists
         /\ \A p : ~Below(H(dst), p) => Misses(Copy(name, dst), p)
BY AgentPaths, HomeMounts

LEMMA StoreMisses ==
  ASSUME NEW agent \in Agents, NEW dst \in Path
  PROVE  /\ StoreAs(agent, dst) \in Lists
         /\ \A p : ~Below(H(dst), p) => Misses(StoreAs(agent, dst), p)
BY StorePath, HomeMounts DEF StoreAs

LEMMA LiveMisses ==
  ASSUME NEW dir \in Path, NEW dst \in Path, Below(dir, dst)
  PROVE  /\ Live(dst) \in Lists
         /\ \A p \in Path : ~Below(H(dir), p) => Misses(Live(dst), p)
BY HomeMounts, DeeperMisses

(* The same for the lists of the agents. *)
LEMMA LiveInCopyMisses ==
  ASSUME NEW dir \in Literals, NEW h
  PROVE  /\ CopyThenLive(dir, h) \in Lists
         /\ \A p \in Path : ~Below(H(<<dir>>), p) => Misses(CopyThenLive(dir, h), p)
<1> DEFINE live == When(h.live = "yes", Live(<<dir, "projects", Own>>))
<1>1. /\ <<dir>> \in Path /\ <<dir, "projects", Own>> \in Path
      /\ Below(<<dir>>, <<dir, "projects", Own>>)
  BY AgentPaths, LiteralNames
<1>2. Copy(dir, <<dir>>) \in Lists /\ live \in Lists
  BY <1>1, CopyMisses, LiveMisses, WhenMounts
<1>3. \A p \in Path : ~Below(H(<<dir>>), p) =>
        /\ Misses(Copy(dir, <<dir>>), p)
        /\ Misses(live, p)
  BY <1>1, CopyMisses, LiveMisses, WhenMounts
<1> QED BY <1>2, <1>3, MissConcat, ListConcat DEF CopyThenLive

LEMMA AgyPartMisses ==
  ASSUME NEW path \in Path
  PROVE  /\ AgyPart(path) \in Lists
         /\ \A p \in Path : ~Below(H(<<".gemini">>), p) => Misses(AgyPart(path), p)
<1>1. "agy" \in Agents
  BY AgentNames
<1>2. AgyDir \o path \in Path /\ Store("agy") \o path \in Path
  BY <1>1, FixedPaths, StorePath, ConcatPath
<1>3. <<".gemini">> \in Path
  BY AgentPaths, LiteralNames
<1>4. Below(<<".gemini">>, AgyDir \o path)
  BY <1>2, <1>3, FixedPaths, AgentPaths, BelowConcat, BelowTransitive
<1> QED BY <1>2, <1>3, <1>4, HomeMounts, DeeperMisses DEF AgyPart

(* agy's mounts over the copy of its configuration. *)
LEMMA AgyStoreMisses ==
  LET parts == AgyPart(<<"conversations">>) \o AgyPart(<<"brain">>)
                 \o AgyPart(<<"implicit">>) \o AgyPart(<<"history.jsonl">>)
                 \o AgyPart(<<"cache", "last_conversations.json">>)
  IN /\ parts \in Lists
     /\ \A p \in Path : ~Below(H(<<".gemini">>), p) => Misses(parts, p)
<1> DEFINE a == AgyPart(<<"conversations">>)
           b == AgyPart(<<"brain">>)
           c == AgyPart(<<"implicit">>)
           d == AgyPart(<<"history.jsonl">>)
           e == AgyPart(<<"cache", "last_conversations.json">>)
<1>1. /\ <<"conversations">> \in Path /\ <<"brain">> \in Path
      /\ <<"implicit">> \in Path /\ <<"history.jsonl">> \in Path
      /\ <<"cache", "last_conversations.json">> \in Path
  BY AgentPaths, LiteralNames
<1>2. a \in Lists /\ b \in Lists /\ c \in Lists /\ d \in Lists /\ e \in Lists
  BY <1>1, AgyPartMisses
<1>3. \A p \in Path : ~Below(H(<<".gemini">>), p) =>
        Misses(a, p) /\ Misses(b, p) /\ Misses(c, p) /\ Misses(d, p) /\ Misses(e, p)
  BY <1>1, AgyPartMisses
<1> HIDE DEF a, b, c, d, e
<1>4. a \o b \in Lists /\ a \o b \o c \in Lists /\ a \o b \o c \o d \in Lists
      /\ a \o b \o c \o d \o e \in Lists
  BY <1>2, ListConcat
<1>5. \A p \in Path : ~Below(H(<<".gemini">>), p) =>
        Misses(a \o b \o c \o d \o e, p)
  BY <1>2, <1>3, <1>4, MissConcat
<1> QED BY <1>4, <1>5 DEF a, b, c, d, e

(* No mount of an agent is above a path that is outside the directories    *)
(* that are mounted over (container.go:696-890).                           *)
LEMMA AgentMountsMiss ==
  ASSUME NEW agent \in Agents, NEW h \in Hosts
  PROVE  /\ AgentMounts(agent, h) \in Lists
         /\ \A p \in Path : Clear(p) => Misses(AgentMounts(agent, h), p)
<1>1. \A p : Clear(p) =>
        /\ ~Below(H(<<".claude">>), p) /\ ~Below(H(<<".claude.json">>), p)
        /\ ~Below(H(<<".codex">>), p) /\ ~Below(H(<<".gemini">>), p)
        /\ ~Below(H(<<".agy-secret">>), p) /\ ~Below(H(<<".copilot">>), p)
        /\ ~Below(H(<<".config", "gh">>), p) /\ ~Below(H(<<".reasonix">>), p)
        /\ ~Below(H(<<".kimi-code">>), p) /\ ~Below(H(<<".qwen">>), p)
        /\ ~Below(H(<<".config", "poolside">>), p)
        /\ ~Below(H(<<".local", "state", "poolside">>), p)
        /\ ~Below(H(<<".config", "mimocode">>), p)
        /\ ~Below(H(<<".local", "share", "mimocode">>), p)
  BY DEF Clear, MountedOver
<1> DEFINE has == h.has = "yes"
           ops == AgentMounts(agent, h)
           Fine(l) == l \in Lists /\ \A p \in Path : Clear(p) => Misses(l, p)
<1>2. ASSUME NEW a, NEW b, Fine(a), Fine(b) PROVE Fine(a \o b)
  BY <1>2, MissConcat, ListConcat
<1>3. ASSUME NEW a, NEW c \in BOOLEAN, Fine(a) PROVE Fine(When(c, a))
  BY <1>3, WhenMounts
<1>4. CASE agent = "claude"
  <2>1. Fine(CopyThenLive(".claude", h))
    BY <1>1, LiveInCopyMisses, LiteralNames
  <2>2. Fine(Copy(".claude.json", <<".claude.json">>))
    BY <1>1, AgentPaths, LiteralNames, CopyMisses
  <2> DEFINE list == CopyThenLive(".claude", h) \o Copy(".claude.json", <<".claude.json">>)
  <2>3. Fine(list)
    BY <1>2, <2>1, <2>2
  <2>4. ops = When(has, list)
    BY <1>4 DEF AgentMounts
  <2> QED BY <1>3, <2>3, <2>4
<1>5. CASE agent = "codex"
  <2>1. Fine(StoreAs(agent, <<".codex">>))
    BY <1>1, AgentPaths, LiteralNames, StoreMisses
  <2>2. ops = When(has, StoreAs(agent, <<".codex">>))
    BY <1>5 DEF AgentMounts
  <2> QED BY <1>3, <2>1, <2>2
<1>6. CASE agent = "agy"
  <2> DEFINE parts ==
        AgyPart(<<"conversations">>) \o AgyPart(<<"brain">>)
          \o AgyPart(<<"implicit">>) \o AgyPart(<<"history.jsonl">>)
          \o AgyPart(<<"cache", "last_conversations.json">>)
             a == When(has, Copy(".gemini", <<".gemini">>))
             b == When(has /\ h.stored = "yes", parts)
             c == When(h.token = "yes", Copy("agy-secret", <<".agy-secret">>))
  <2>1. Fine(Copy(".gemini", <<".gemini">>))
    BY <1>1, AgentPaths, LiteralNames, CopyMisses
  <2>2. Fine(parts)
    BY <1>1, AgyStoreMisses
  <2>3. Fine(Copy("agy-secret", <<".agy-secret">>))
    BY <1>1, AgentPaths, LiteralNames, CopyMisses
  <2>4. Fine(a) /\ Fine(b) /\ Fine(c)
    BY <1>3, <2>1, <2>2, <2>3
  <2>5. ops = a \o b \o c
    BY <1>6 DEF AgentMounts
  <2> HIDE DEF a, b, c
  <2> QED BY <1>2, <2>4, <2>5
<1>7. CASE agent = "copilot"
  <2>1. Fine(StoreAs(agent, <<".copilot">>))
    BY <1>1, AgentPaths, LiteralNames, StoreMisses
  <2>2. Fine(Copy("gh", <<".config", "gh">>))
    BY <1>1, AgentPaths, LiteralNames, CopyMisses
  <2> DEFINE list == StoreAs(agent, <<".copilot">>) \o Copy("gh", <<".config", "gh">>)
  <2>3. Fine(list)
    BY <1>2, <2>1, <2>2
  <2>4. ops = When(has, list)
    BY <1>7 DEF AgentMounts
  <2> QED BY <1>3, <2>3, <2>4
<1>8. CASE agent = "reasonix"
  <2>1. Fine(CopyThenLive(".reasonix", h))
    BY <1>1, LiveInCopyMisses, LiteralNames
  <2>2. ops = When(has, CopyThenLive(".reasonix", h))
    BY <1>8 DEF AgentMounts
  <2> QED BY <1>3, <2>1, <2>2
<1>9. CASE agent = "kimi"
  <2> DEFINE a == StoreAs(agent, <<".kimi-code">>)
             b == Live(<<".kimi-code", "credentials">>)
             c == Live(<<".kimi-code", "oauth">>)
             d == When(h.live = "yes", b \o c)
  <2>1. Fine(a)
    BY <1>1, AgentPaths, LiteralNames, StoreMisses
  <2>2. Fine(b) /\ Fine(c)
    <3>1. /\ <<".kimi-code">> \in Path
          /\ <<".kimi-code", "credentials">> \in Path
          /\ Below(<<".kimi-code">>, <<".kimi-code", "credentials">>)
          /\ <<".kimi-code", "oauth">> \in Path
          /\ Below(<<".kimi-code">>, <<".kimi-code", "oauth">>)
      BY AgentPaths, LiteralNames
    <3> QED BY <1>1, <3>1, LiveMisses
  <2>3. ops = When(has, a \o d)
    BY <1>9 DEF AgentMounts
  <2> HIDE DEF a, b, c
  <2>4. Fine(d)
    BY <1>2, <1>3, <2>2
  <2> HIDE DEF d
  <2>5. Fine(a \o d)
    BY <1>2, <2>1, <2>4
  <2> QED BY <1>3, <2>3, <2>5
<1>10. CASE agent = "pool"
  <2> DEFINE a == When(has, Copy("poolside", <<".config", "poolside">>))
             b == StoreAs(agent, <<".local", "state", "poolside">>)
  <2>1. Fine(Copy("poolside", <<".config", "poolside">>))
    BY <1>1, AgentPaths, LiteralNames, CopyMisses
  <2>2. Fine(a)
    BY <1>3, <2>1
  <2>3. Fine(b)
    BY <1>1, AgentPaths, LiteralNames, StoreMisses
  <2>4. ops = a \o b
    BY <1>10 DEF AgentMounts
  <2> HIDE DEF a, b
  <2> QED BY <1>2, <2>2, <2>3, <2>4
<1>11. CASE agent = "qwen"
  <2>1. Fine(CopyThenLive(".qwen", h))
    BY <1>1, LiveInCopyMisses, LiteralNames
  <2>2. ops = When(has, CopyThenLive(".qwen", h))
    BY <1>11 DEF AgentMounts
  <2> QED BY <1>3, <2>1, <2>2
<1>12. CASE agent = "mimo"
  <2> DEFINE memory == MemoryDir(h.memory)
             a == When(has, Copy("mimocode-config", <<".config", "mimocode">>))
             b == StoreAs(agent, <<".local", "share", "mimocode">>)
             c == When(h.memory # "no" /\ h.live = "yes", Live(memory))
  <2>1. Fine(Copy("mimocode-config", <<".config", "mimocode">>))
    BY <1>1, AgentPaths, LiteralNames, CopyMisses
  <2>2. Fine(b)
    BY <1>1, AgentPaths, LiteralNames, StoreMisses
  <2>3. Fine(c)
    <3>1. CASE h.memory = "no"
      BY <3>1, NoMount DEF When
    <3>2. CASE h.memory # "no"
      <4>1. h.memory \in Slugs
        BY <3>2 DEF Hosts
      <4>2. /\ memory \in Path /\ <<".local", "share", "mimocode">> \in Path
            /\ Below(<<".local", "share", "mimocode">>, memory)
        BY <4>1, AgentPaths, MemoryPaths
      <4> HIDE DEF memory
      <4>3. Fine(Live(memory))
        BY <1>1, <4>2, LiveMisses
      <4> QED BY <1>3, <4>3
    <3> QED BY <3>1, <3>2
  <2>4. Fine(a) /\ Fine(c)
    BY <1>3, <2>1, <2>3
  <2>5. ops = a \o b \o c
    BY <1>12 DEF AgentMounts
  <2> HIDE DEF a, b, c
  <2> QED BY <1>2, <2>2, <2>4, <2>5
<1> QED BY <1>4, <1>5, <1>6, <1>7, <1>8, <1>9, <1>10, <1>11, <1>12, AgentNames

(* Paths that differ, or end too early, are not below one another. *)
LEMMA HomeApart ==
  ASSUME NEW d \in Path, NEW x \in Path,
         \/ Len(d) > Len(x)
         \/ \E i \in 1..Len(d) : i \in 1..Len(x) /\ d[i] # x[i]
  PROVE  ~Below(H(d), H(x))
BY HomeBelow, BelowFacts

(* What continues a path is its rest. *)
LEMMA FromConcat ==
  ASSUME NEW a \in Path, NEW b \in Path
  PROVE  From(a, a \o b) = b
<1> DEFINE q == a \o b
<1>1. /\ q \in Path /\ Len(q) = Len(a) + Len(b)
      /\ Len(a) \in Nat /\ Len(b) \in Nat
  BY ConcatProperties DEF Path
<1>2. \A i \in 1..(Len(a) + Len(b)) :
        q[i] = IF i <= Len(a) THEN a[i] ELSE b[i - Len(a)]
  BY ConcatProperties DEF Path
<1>3. Below(a, q)
  BY BelowConcat
<1> HIDE DEF q
<1>4. /\ From(a, q) \in Path /\ Len(From(a, q)) = Len(b)
      /\ \A i \in 1..Len(b) : From(a, q)[i] = q[i + Len(a)]
  <2>1. Len(q) - Len(a) = Len(b)
    BY <1>1
  <2> QED BY <1>1, <1>3, <2>1, FromFacts
<1>5. \A i \in 1..Len(b) : From(a, q)[i] = b[i]
  <2> SUFFICES ASSUME NEW i \in 1..Len(b) PROVE From(a, q)[i] = b[i]
    OBVIOUS
  <2>1. /\ i + Len(a) \in 1..(Len(a) + Len(b)) /\ ~(i + Len(a) <= Len(a))
        /\ (i + Len(a)) - Len(a) = i
    BY <1>1
  <2> QED BY <1>2, <1>4, <2>1
<1>6. From(a, q) = b
  BY <1>4, <1>5, SeqEqual DEF Path
<1> QED BY <1>6 DEF q

(* The place x in the home directory is not where the git configuration is *)
(* mounted, nor in qwen's library.                                         *)
Spot(x) ==
  /\ x \in Path /\ Len(x) >= 1 /\ x[1] # ".gitconfig"
  /\ Len(x) >= 2 => x[2] # "lib"

(* A name in a directory. *)
LEMMA NameIn ==
  ASSUME NEW dir \in Path, NEW n \in Literals
  PROVE  LET x == dir \o <<n>>
         IN  /\ x \in Path /\ Len(x) = Len(dir) + 1 /\ Len(dir) \in Nat
             /\ \A i \in 1..Len(dir) : x[i] = dir[i]
             /\ x[Len(dir) + 1] = n
<1> DEFINE e == <<n>>
           x == dir \o e
<1>1. e \in Path /\ Len(e) = 1 /\ e[1] = n /\ Len(dir) \in Nat
  BY AgentPaths DEF Path
<1>2. x \in Path /\ Len(x) = Len(dir) + Len(e)
  BY <1>1, ConcatProperties DEF Path
<1>3. \A i \in 1..(Len(dir) + Len(e)) :
        x[i] = IF i <= Len(dir) THEN dir[i] ELSE e[i - Len(dir)]
  BY <1>1, ConcatProperties DEF Path
<1> HIDE DEF e
<1>4. \A i \in 1..Len(dir) : x[i] = dir[i]
  BY <1>1, <1>3
<1>5. x[Len(dir) + 1] = e[1]
  <2>1. /\ Len(dir) + 1 \in 1..(Len(dir) + Len(e))
        /\ ~(Len(dir) + 1 <= Len(dir)) /\ (Len(dir) + 1) - Len(dir) = 1
    BY <1>1
  <2> QED BY <1>3, <2>1
<1> QED BY <1>1, <1>2, <1>4, <1>5 DEF e

(* A name in agy's directory. *)
LEMMA AgySpots ==
  ASSUME NEW n \in Literals
  PROVE  LET x == AgyDir \o <<n>>
         IN  /\ x \in Path /\ Len(x) = 3 /\ x[1] = ".gemini" /\ x[3] = n
             /\ Spot(x)
<1> DEFINE x == AgyDir \o <<n>>
<1>1. /\ AgyDir \in Path /\ Len(AgyDir) = 2
      /\ AgyDir[1] = ".gemini" /\ AgyDir[2] = "antigravity-cli"
  BY FixedPaths DEF AgyDir
<1>2. /\ x \in Path /\ Len(x) = Len(AgyDir) + 1
      /\ \A i \in 1..Len(AgyDir) : x[i] = AgyDir[i]
      /\ x[Len(AgyDir) + 1] = n
  BY <1>1, NameIn
<1> HIDE DEF x
<1>3. /\ x \in Path /\ Len(x) = 3 /\ x[1] = ".gemini"
      /\ x[2] = "antigravity-cli" /\ x[3] = n
  BY <1>1, <1>2
<1>4. Spot(x)
  BY <1>3 DEF Spot
<1> QED BY <1>3, <1>4 DEF x

(* A store shows what is in it. *)
LEMMA StoreShows ==
  ASSUME NEW agent \in Agents, NEW dst \in Path, NEW name \in Literals
  PROVE  LET s == InStore(agent, dst, name)
         IN  /\ StoreAs(agent, dst) \in Lists
             /\ Shows(StoreAs(agent, dst), s.at, s.is)
             /\ s.at = H(dst \o <<name>>)
<1> DEFINE x == dst \o <<name>>
<1>1. /\ <<name>> \in Path /\ Store(agent) \in Path /\ H(dst) \in Path
      /\ StoreAs(agent, dst) \in Lists
  BY AgentPaths, StorePath, HomeFacts, StoreMisses
<1>2. x \in Path /\ Below(dst, x) /\ From(dst, x) = <<name>>
  BY <1>1, ConcatPath, BelowConcat, FromConcat
<1> HIDE DEF x
<1>3. H(x) \in Path /\ Below(H(dst), H(x)) /\ From(H(dst), H(x)) = <<name>>
  BY <1>2, HomeFacts, HomeBelow
<1>4. Shows(StoreAs(agent, dst), H(x), Store(agent) \o From(H(dst), H(x)))
  BY <1>1, <1>3, OneMount DEF StoreAs
<1> QED BY <1>1, <1>3, <1>4 DEF InStore, At, x

(* What is mounted live, after the copy of its directory. *)
LEMMA LiveInCopyShows ==
  ASSUME NEW dir \in Literals, dir # ".gitconfig", NEW h, h.live = "yes"
  PROVE  LET s == Here(<<dir, "projects", Own>>)
         IN  /\ CopyThenLive(dir, h) \in Lists
             /\ Shows(CopyThenLive(dir, h), s.at, s.is)
             /\ s.at = H(<<dir, "projects", Own>>)
             /\ Spot(<<dir, "projects", Own>>)
<1> DEFINE x == <<dir, "projects", Own>>
<1>1. /\ <<dir>> \in Path /\ x \in Path /\ Len(x) = 3 /\ x[1] = dir
      /\ x[2] = "projects"
  BY AgentPaths, LiteralNames
<1> HIDE DEF x
<1>2. H(x) \in Path
  BY <1>1, HomeFacts
<1>3. Live(x) \in Lists /\ Shows(Live(x), H(x), H(x))
  BY <1>2, OneMount, ShowsHere DEF Live
<1>4. Copy(dir, <<dir>>) \in Lists
  BY <1>1, CopyMisses
<1>5. /\ Copy(dir, <<dir>>) \o Live(x) \in Lists
      /\ Shows(Copy(dir, <<dir>>) \o Live(x), H(x), H(x))
  BY <1>3, <1>4, ShowsRight
<1>6. Spot(x)
  BY <1>1 DEF Spot
<1>7. CopyThenLive(dir, h) = Copy(dir, <<dir>>) \o Live(x)
  BY DEF CopyThenLive, When, x
<1> QED BY <1>5, <1>6, <1>7 DEF Here, At, x

(* A part of agy's store shows itself and misses the others. *)
LEMMA AgyPartShows ==
  ASSUME NEW n \in Literals
  PROVE  LET s == InStore("agy", AgyDir, n)
         IN  /\ AgyPart(<<n>>) \in Lists
             /\ Shows(AgyPart(<<n>>), s.at, s.is)
             /\ s.at = H(AgyDir \o <<n>>)
             /\ \A m \in Literals : m # n => Misses(AgyPart(<<m>>), s.at)
             /\ Misses(AgyPart(<<"cache", "last_conversations.json">>), s.at)
<1> DEFINE x == AgyDir \o <<n>>
           last == AgyDir \o <<"cache", "last_conversations.json">>
<1>1. /\ "agy" \in Agents /\ <<n>> \in Path
      /\ <<"cache", "last_conversations.json">> \in Path
  BY AgentNames, AgentPaths, LiteralNames
<1>2. \A m \in Literals :
        /\ AgyDir \o <<m>> \in Path /\ Store("agy") \o <<m>> \in Path
        /\ H(AgyDir \o <<m>>) \in Path
  BY <1>1, AgentPaths, FixedPaths, StorePath, ConcatPath, HomeFacts
<1>3. AgyPart(<<n>>) \in Lists /\ Shows(AgyPart(<<n>>), H(x), Store("agy") \o <<n>>)
  BY <1>2, OneMount, ShowsHere DEF AgyPart
<1>4. ASSUME NEW m \in Literals, m # n PROVE Misses(AgyPart(<<m>>), H(x))
  <2> DEFINE y == AgyDir \o <<m>>
  <2>1. /\ x \in Path /\ Len(x) = 3 /\ x[3] = n
        /\ y \in Path /\ Len(y) = 3 /\ y[3] = m
    BY AgySpots
  <2> HIDE DEF x, y
  <2>2. ~Below(H(y), H(x))
    BY <1>4, <2>1, HomeApart
  <2> QED BY <1>2, <1>4, <2>2, OneMount DEF AgyPart, y
<1>5. Misses(AgyPart(<<"cache", "last_conversations.json">>), H(x))
  <2>1. last \in Path /\ Store("agy") \o <<"cache", "last_conversations.json">> \in Path
    BY <1>1, FixedPaths, StorePath, ConcatPath
  <2>2. Len(last) = 4
    <3> DEFINE rest == <<"cache", "last_conversations.json">>
    <3>1. /\ AgyDir \in Path /\ Len(AgyDir) = 2 /\ rest \in Path /\ Len(rest) = 2
      BY <1>1, FixedPaths DEF AgyDir
    <3> HIDE DEF rest
    <3>2. Len(AgyDir \o rest) = Len(AgyDir) + Len(rest)
      BY <3>1, ConcatProperties DEF Path
    <3>3. Len(AgyDir \o rest) = 4
      BY <3>1, <3>2
    <3> QED BY <3>3 DEF rest
  <2>3. x \in Path /\ Len(x) = 3
    BY AgySpots
  <2> HIDE DEF x, last
  <2>4. H(last) \in Path
    BY <2>1, HomeFacts
  <2>5. Len(last) > Len(x)
    BY <2>2, <2>3
  <2>6. ~Below(H(last), H(x))
    BY <2>1, <2>3, <2>5, HomeApart
  <2> QED BY <2>1, <2>4, <2>6, OneMount DEF AgyPart, last
<1> QED BY <1>3, <1>4, <1>5 DEF InStore, At

(* Each agent finds its sessions where they are kept (container.go:        *)
(* 696-890): no mount of the agent hides them.                             *)
LEMMA SessionsShown ==
  ASSUME NEW agent \in Agents, NEW h \in Hosts,
         h.has = "yes", h.stored = "yes", h.live = "yes", NEW s \in Sessions(agent)
  PROVE  /\ Shows(AgentMounts(agent, h), s.at, s.is)
         /\ \E x : Spot(x) /\ s.at = H(x)
<1> DEFINE ops == AgentMounts(agent, h)
<1>1. ops \in Lists
  BY AgentMountsMiss
<1>2. ASSUME NEW x \in Path, NEW d \in Literals, x[1] # d, Len(x) >= 1
      PROVE  Misses(Copy(d, <<d>>), H(x)) /\ ~Below(H(<<d>>), H(x))
  <2>1. <<d>> \in Path /\ Len(<<d>>) = 1 /\ <<d>>[1] = d /\ Len(x) \in Nat
    BY AgentPaths DEF Path
  <2>2. ~Below(H(<<d>>), H(x))
    BY <1>2, <2>1, HomeApart
  <2> QED BY <2>1, <2>2, CopyMisses
<1>4. CASE agent = "claude"
  <2> DEFINE a == CopyThenLive(".claude", h)
             b == Copy(".claude.json", <<".claude.json">>)
             x == <<".claude", "projects", Own>>
  <2>1. s = Here(x)
    BY <1>4 DEF Sessions
  <2>2. /\ a \in Lists /\ Shows(a, s.at, s.is) /\ s.at = H(x) /\ Spot(x)
    BY <2>1, LiteralNames, LiveInCopyShows
  <2>3. b \in Lists
    BY LiteralNames, AgentPaths, CopyMisses
  <2>4. x[1] # ".claude.json"
    OBVIOUS
  <2>5. ops = a \o b
    BY <1>4 DEF AgentMounts, When
  <2> HIDE DEF a, x
  <2>6. Misses(b, s.at)
    BY <1>2, <2>2, <2>4, LiteralNames DEF Spot
  <2> HIDE DEF b
  <2> QED BY <2>2, <2>3, <2>5, <2>6, ShowsLeft
<1>5. CASE agent = "codex"
  <2>1. s = InStore(agent, <<".codex">>, "sessions")
    BY <1>5 DEF Sessions
  <2>2. <<".codex">> \in Path
    BY LiteralNames, AgentPaths
  <2>3. Shows(StoreAs(agent, <<".codex">>), s.at, s.is)
    BY <2>1, <2>2, LiteralNames, StoreShows
  <2>4. ops = StoreAs(agent, <<".codex">>)
    BY <1>5 DEF AgentMounts, When
  <2> DEFINE x == <<".codex">> \o <<"sessions">>
  <2>5. s.at = H(x)
    BY <2>1, <2>2, LiteralNames, StoreShows
  <2>6. x \in Path /\ Len(x) = 2 /\ x[1] = ".codex" /\ x[2] = "sessions"
    BY <2>2, LiteralNames, NameIn
  <2> HIDE DEF x
  <2>7. Spot(x)
    BY <2>6 DEF Spot
  <2> QED BY <2>3, <2>4, <2>5, <2>7
<1>7. CASE agent = "copilot"
  <2> DEFINE a == StoreAs(agent, <<".copilot">>)
             b == Copy("gh", <<".config", "gh">>)
             dst == <<".copilot">>
             x == dst \o <<"session-state">>
  <2>1. s = InStore(agent, <<".copilot">>, "session-state")
    BY <1>7 DEF Sessions
  <2>2. /\ dst \in Path /\ Len(dst) = 1 /\ dst[1] = ".copilot"
        /\ <<".config", "gh">> \in Path
    BY LiteralNames, AgentPaths
  <2>3. a \in Lists /\ Shows(a, s.at, s.is) /\ s.at = H(x)
    BY <2>1, <2>2, LiteralNames, StoreShows
  <2>4. ops = a \o b
    BY <1>7 DEF AgentMounts, When
  <2> HIDE DEF dst
  <2>5. x \in Path /\ Len(x) = 2 /\ x[1] = ".copilot" /\ x[2] = "session-state"
    <3>1. /\ x \in Path /\ Len(x) = Len(dst) + 1
          /\ \A i \in 1..Len(dst) : x[i] = dst[i]
          /\ x[Len(dst) + 1] = "session-state"
      <4>1. "session-state" \in Literals
        BY LiteralNames
      <4> QED BY <2>2, <4>1, NameIn
    <3> HIDE DEF x
    <3> QED BY <2>2, <3>1
  <2> HIDE DEF x
  <2>6. Spot(x)
    BY <2>5 DEF Spot
  <2>7. ~Below(H(<<".config", "gh">>), H(x))
    <3> DEFINE g == <<".config", "gh">>
    <3>1. g \in Path /\ 1 \in 1..Len(g) /\ 1 \in 1..Len(x) /\ g[1] # x[1]
      BY <2>2, <2>5
    <3> HIDE DEF g
    <3>2. ~Below(H(g), H(x))
      BY <2>5, <3>1, HomeApart
    <3> QED BY <3>2 DEF g
  <2>8. b \in Lists /\ Misses(b, s.at)
    BY <2>2, <2>3, <2>7, LiteralNames, CopyMisses
  <2> HIDE DEF a, b
  <2> QED BY <2>3, <2>4, <2>6, <2>8, ShowsLeft
<1>8. CASE agent = "reasonix" \/ agent = "qwen"
  <2> DEFINE dir == IF agent = "qwen" THEN ".qwen" ELSE ".reasonix"
  <2>1. ops = CopyThenLive(dir, h)
    BY <1>8 DEF AgentMounts, When
  <2>2. s = Here(<<dir, "projects", Own>>)
    BY <1>8 DEF Sessions
  <2>3. dir \in Literals /\ dir # ".gitconfig"
    BY LiteralNames
  <2> HIDE DEF dir
  <2> QED BY <2>1, <2>2, <2>3, LiveInCopyShows
<1>10. CASE agent = "pool"
  <2> DEFINE dst == <<".local", "state", "poolside">>
             a == Copy("poolside", <<".config", "poolside">>)
             x == dst \o <<"sessions">>
  <2>1. s = InStore(agent, dst, "sessions")
    BY <1>10 DEF Sessions
  <2>2. /\ dst \in Path /\ Len(dst) = 3 /\ dst[1] = ".local" /\ dst[2] = "state"
        /\ <<".config", "poolside">> \in Path
    BY LiteralNames, AgentPaths
  <2>3. /\ StoreAs(agent, dst) \in Lists /\ Shows(StoreAs(agent, dst), s.at, s.is)
        /\ s.at = H(x)
    BY <2>1, <2>2, LiteralNames, StoreShows
  <2>4. a \in Lists
    BY <2>2, LiteralNames, CopyMisses
  <2>5. ops = a \o StoreAs(agent, dst)
    BY <1>10 DEF AgentMounts, When
  <2> HIDE DEF dst
  <2>6. x \in Path /\ Len(x) = 4 /\ x[1] = ".local" /\ x[2] = "state"
    <3>1. /\ x \in Path /\ Len(x) = Len(dst) + 1
          /\ \A i \in 1..Len(dst) : x[i] = dst[i]
          /\ x[Len(dst) + 1] = "sessions"
      <4>1. "sessions" \in Literals
        BY LiteralNames
      <4> QED BY <2>2, <4>1, NameIn
    <3> HIDE DEF x
    <3> QED BY <2>2, <3>1
  <2> HIDE DEF a, x
  <2>7. Spot(x)
    BY <2>6 DEF Spot
  <2> QED BY <2>3, <2>4, <2>5, <2>7, ShowsRight
<1>6. CASE agent = "agy"
  <2> DEFINE a == Copy(".gemini", <<".gemini">>)
             b1 == AgyPart(<<"conversations">>)
             b2 == AgyPart(<<"brain">>)
             b3 == AgyPart(<<"implicit">>)
             b4 == AgyPart(<<"history.jsonl">>)
             b5 == AgyPart(<<"cache", "last_conversations.json">>)
             c == When(h.token = "yes", Copy("agy-secret", <<".agy-secret">>))
  <2>1. PICK n \in AgyStoreNames : s = InStore("agy", AgyDir, n)
    BY <1>6 DEF Sessions
  <2>2. n \in Literals /\ s.at = H(AgyDir \o <<n>>)
    BY <2>1, LiteralNames DEF AgyStoreNames, InStore, At
  <2>3. /\ AgyDir \o <<n>> \in Path /\ Spot(AgyDir \o <<n>>)
        /\ (AgyDir \o <<n>>)[1] = ".gemini"
    BY <2>2, AgySpots
  <2>4. ops = a \o (b1 \o b2 \o b3 \o b4 \o b5) \o c
    BY <1>6 DEF AgentMounts, When
  <2>5. /\ a \in Lists /\ c \in Lists /\ Misses(c, s.at)
    <3>1. /\ <<".gemini">> \in Path /\ <<".agy-secret">> \in Path
      BY LiteralNames, AgentPaths
    <3>2. Misses(Copy("agy-secret", <<".agy-secret">>), s.at)
      <4>1. ~Below(H(<<".agy-secret">>), s.at)
        BY <1>2, <2>2, <2>3, LiteralNames DEF Spot
      <4> QED BY <3>1, <4>1, LiteralNames, CopyMisses
    <3> QED BY <3>1, <3>2, LiteralNames, CopyMisses, WhenMounts
  <2>6. /\ b1 \in Lists /\ b2 \in Lists /\ b3 \in Lists /\ b4 \in Lists
        /\ b5 \in Lists
    <3>1. /\ <<"conversations">> \in Path /\ <<"brain">> \in Path
          /\ <<"implicit">> \in Path /\ <<"history.jsonl">> \in Path
          /\ <<"cache", "last_conversations.json">> \in Path
      BY LiteralNames, AgentPaths
    <3> QED BY <3>1, AgyPartMisses
  <2>7. /\ IF n = "conversations" THEN Shows(b1, s.at, s.is) ELSE Misses(b1, s.at)
        /\ IF n = "brain" THEN Shows(b2, s.at, s.is) ELSE Misses(b2, s.at)
        /\ IF n = "implicit" THEN Shows(b3, s.at, s.is) ELSE Misses(b3, s.at)
        /\ IF n = "history.jsonl" THEN Shows(b4, s.at, s.is) ELSE Misses(b4, s.at)
        /\ Misses(b5, s.at)
    BY <2>1, <2>2, LiteralNames, AgyPartShows
  <2> HIDE DEF a, b1, b2, b3, b4, b5, c
  <2>8. /\ b1 \o b2 \in Lists /\ b1 \o b2 \o b3 \in Lists
        /\ b1 \o b2 \o b3 \o b4 \in Lists /\ b1 \o b2 \o b3 \o b4 \o b5 \in Lists
        /\ a \o (b1 \o b2 \o b3 \o b4 \o b5) \in Lists
    BY <2>5, <2>6, ListConcat
  <2>9. Shows(b1 \o b2 \o b3 \o b4 \o b5, s.at, s.is)
    <3>1. CASE n = "conversations"
      BY <2>6, <2>7, <2>8, <3>1, ShowsLeft
    <3>2. CASE n = "brain"
      BY <2>6, <2>7, <2>8, <3>2, ShowsLeft, ShowsRight
    <3>3. CASE n = "implicit"
      BY <2>6, <2>7, <2>8, <3>3, ShowsLeft, ShowsRight
    <3>4. CASE n = "history.jsonl"
      BY <2>6, <2>7, <2>8, <3>4, ShowsLeft, ShowsRight
    <3> QED BY <3>1, <3>2, <3>3, <3>4 DEF AgyStoreNames
  <2>10. Shows(ops, s.at, s.is)
    BY <2>4, <2>5, <2>8, <2>9, ShowsRight, ShowsLeft
  <2> QED BY <2>2, <2>3, <2>10
<1>9. CASE agent = "kimi"
  <2> DEFINE dst == <<".kimi-code">>
             a == StoreAs(agent, dst)
             x == dst \o <<"sessions">>
             y == <<".kimi-code", "credentials">>
             z == <<".kimi-code", "oauth">>
  <2>1. /\ dst \in Path /\ Len(dst) = 1 /\ dst[1] = ".kimi-code"
        /\ y \in Path /\ Len(y) = 2 /\ y[1] = ".kimi-code" /\ y[2] = "credentials"
        /\ z \in Path /\ Len(z) = 2 /\ z[2] = "oauth"
    BY LiteralNames, AgentPaths
  <2>2. ops = a \o (Live(y) \o Live(z))
    BY <1>9 DEF AgentMounts, When
  <2>3. s = InStore(agent, dst, "sessions") \/ s = Here(y)
    BY <1>9 DEF Sessions
  <2>4. /\ a \in Lists
        /\ s = InStore(agent, dst, "sessions") =>
             Shows(a, s.at, s.is) /\ s.at = H(x)
    BY <2>1, LiteralNames, StoreShows
  <2>5. s = Here(y) => s.at = H(y) /\ s.is = H(y)
    BY DEF Here, At
  <2> HIDE DEF dst, a, y, z
  <2>6. x \in Path /\ Len(x) = 2 /\ x[1] = ".kimi-code" /\ x[2] = "sessions"
    <3>1. /\ x \in Path /\ Len(x) = Len(dst) + 1
          /\ \A i \in 1..Len(dst) : x[i] = dst[i]
          /\ x[Len(dst) + 1] = "sessions"
      <4>1. "sessions" \in Literals
        BY LiteralNames
      <4> QED BY <2>1, <4>1, NameIn
    <3> HIDE DEF x
    <3> QED BY <2>1, <3>1
  <2> HIDE DEF x
  <2>7. Spot(x) /\ Spot(y)
    BY <2>1, <2>6 DEF Spot
  <2>8. Live(y) \in Lists /\ Live(z) \in Lists /\ Live(y) \o Live(z) \in Lists
    BY <2>1, <2>4, HomeMounts, ListConcat
  <2>9. CASE s = InStore(agent, dst, "sessions")
    <3>1. ~Below(H(y), H(x)) /\ ~Below(H(z), H(x))
      <4>1. /\ 2 \in 1..Len(x) /\ 2 \in 1..Len(y) /\ 2 \in 1..Len(z)
            /\ y[2] # x[2] /\ z[2] # x[2]
        BY <2>1, <2>6
      <4> QED BY <2>1, <2>6, <4>1, HomeApart
    <3>2. Misses(Live(y) \o Live(z), H(x))
      BY <2>1, <2>8, <3>1, HomeMounts, MissConcat
    <3> QED BY <2>2, <2>4, <2>7, <2>8, <2>9, <3>2, ShowsLeft
  <2>10. CASE s = Here(y)
    <3>1. ~Below(H(z), H(y))
      <4>1. 2 \in 1..Len(y) /\ 2 \in 1..Len(z) /\ z[2] # y[2]
        BY <2>1
      <4> QED BY <2>1, <4>1, HomeApart
    <3>2. Misses(Live(z), H(y))
      BY <2>1, <3>1, HomeMounts
    <3>3. H(y) \in Path
      BY <2>1, HomeFacts
    <3>4. Shows(Live(y), H(y), H(y))
      BY <3>3, ShowsHere DEF Live
    <3> QED BY <2>2, <2>4, <2>5, <2>7, <2>8, <2>10, <3>2, <3>4, ShowsLeft, ShowsRight
  <2> QED BY <2>3, <2>9, <2>10
<1>11. CASE agent = "mimo"
  <2> DEFINE dst == <<".local", "share", "mimocode">>
             memory == MemoryDir(h.memory)
             a == When(h.has = "yes", Copy("mimocode-config", <<".config",
                 "mimocode">>))
             b == StoreAs(agent, dst)
             c == When(h.memory # "no" /\ h.live = "yes", Live(memory))
             x == dst \o <<"mimocode.db">>
  <2>1. /\ dst \in Path /\ Len(dst) = 3 /\ dst[1] = ".local" /\ dst[2] = "share"
        /\ <<".config", "mimocode">> \in Path
        /\ h.memory # "no" => memory \in Path /\ Len(memory) = 6
    BY LiteralNames, AgentPaths, MemoryPaths DEF Hosts
  <2>2. s = InStore(agent, dst, "mimocode.db")
    BY <1>11 DEF Sessions
  <2>3. b \in Lists /\ Shows(b, s.at, s.is) /\ s.at = H(x)
    BY <2>1, <2>2, LiteralNames, StoreShows
  <2>4. a \in Lists
    BY <2>1, LiteralNames, CopyMisses, WhenMounts
  <2>5. ops = a \o b \o c
    BY <1>11 DEF AgentMounts
  <2> HIDE DEF dst, memory
  <2>6. x \in Path /\ Len(x) = 4 /\ x[1] = ".local" /\ x[2] = "share"
    <3>1. /\ x \in Path /\ Len(x) = Len(dst) + 1
          /\ \A i \in 1..Len(dst) : x[i] = dst[i]
          /\ x[Len(dst) + 1] = "mimocode.db"
      <4>1. "mimocode.db" \in Literals
        BY LiteralNames
      <4> QED BY <2>1, <4>1, NameIn
    <3> HIDE DEF x
    <3> QED BY <2>1, <3>1
  <2> HIDE DEF x
  <2>7. Spot(x)
    BY <2>6 DEF Spot
  <2>8. c \in Lists /\ Misses(c, H(x))
    <3>1. CASE h.memory = "no"
      BY <3>1, NoMount DEF When
    <3>2. CASE h.memory # "no"
      <4>1. memory \in Path /\ Len(memory) = 6
        BY <2>1, <3>2
      <4>2. Len(memory) > Len(x)
        BY <2>6, <4>1
      <4>3. ~Below(H(memory), H(x))
        BY <2>6, <4>1, <4>2, HomeApart
      <4>4. Live(memory) \in Lists /\ Misses(Live(memory), H(x))
        BY <4>1, <4>3, HomeMounts
      <4> QED BY <4>4, WhenMounts
    <3> QED BY <3>1, <3>2
  <2> HIDE DEF a, b, c
  <2>9. a \o b \in Lists /\ Shows(a \o b, s.at, s.is)
    BY <2>3, <2>4, ShowsRight
  <2> QED BY <2>3, <2>5, <2>7, <2>8, <2>9, ShowsLeft
<1> QED BY <1>4, <1>5, <1>6, <1>7, <1>8, <1>9, <1>10, <1>11, AgentNames

-----------------------------------------------------------------------------
(* The whole list.                                                         *)

(* Lists that keep what is seen at p when it is p itself. *)
Keeps(b, p) ==
  b \in Lists /\ \A a \in Lists : Shows(a, p, p) => Shows(a \o b, p, p)

(* What leaves a path as it is: what misses it, and what binds a place to
   itself. *)
LEMMA KeepsFacts ==
  ASSUME NEW p \in Path
  PROVE  /\ \A b \in Lists : Misses(b, p) => Keeps(b, p)
         /\ \A q \in Path : Keeps(Bind(q, q), p)
         /\ \A b, c : Keeps(b, p) /\ Keeps(c, p) => Keeps(b \o c, p)
         /\ \A b, c : Keeps(b, p) /\ c \in BOOLEAN => Keeps(When(c, b), p)
<1>1. \A b \in Lists : Misses(b, p) => Keeps(b, p)
  BY ShowsLeft DEF Keeps
<1>2. \A q \in Path : Keeps(Bind(q, q), p)
  BY KeepsItself, OneMount DEF Keeps
<1>3. ASSUME NEW b, NEW c, Keeps(b, p), Keeps(c, p) PROVE Keeps(b \o c, p)
  <2>1. b \in Lists /\ c \in Lists /\ b \o c \in Lists
    BY <1>3, ListConcat DEF Keeps
  <2>2. ASSUME NEW a \in Lists, Shows(a, p, p) PROVE Shows(a \o (b \o c), p, p)
    <3>1. a \o b \in Lists /\ Shows(a \o b, p, p)
      BY <1>3, <2>1, <2>2, ListConcat DEF Keeps
    <3>2. Shows((a \o b) \o c, p, p)
      BY <1>3, <3>1 DEF Keeps
    <3>3. (a \o b) \o c = a \o (b \o c)
      BY <2>1, ConcatAssociative DEF Lists
    <3> QED BY <3>2, <3>3
  <2> QED BY <2>1, <2>2 DEF Keeps
<1>4. \A b, c : Keeps(b, p) /\ c \in BOOLEAN => Keeps(When(c, b), p)
  BY <1>1, NoMount DEF When
<1> QED BY <1>1, <1>2, <1>3, <1>4

(* The paths of the host. *)
LEMMA HostPaths ==
  ASSUME NEW h \in Hosts
  PROVE  /\ h.project \in Path /\ h.agent \in Path /\ h.agentReal \in Path
         /\ h.flar \in Path
<1>1. STRING \subseteq Part
  BY DEF Part
<1>2. \A x : x \in Seq(STRING) => x \in Path
  BY <1>1, SeqMonotonic DEF Path
<1>3. /\ h.project \in Seq(STRING) /\ h.agent \in Seq(STRING)
      /\ h.agentReal \in Seq(STRING) /\ h.flar \in Seq(STRING)
  BY DEF Hosts
<1> QED BY <1>2, <1>3

GitConfig == Copy(".gitconfig", <<".gitconfig">>)
Library == <<".local", "lib", "qwen-code">>
Net(r) == When(r.network = "isolated", Bind(TempNetDir, <<"run", "flar-net">>))
Inner(r, h) == AgentMounts(r.agent, h) \o GitConfig

(* Paths outside the home directory. *)
LEMMA NotHome ==
  ASSUME NEW p \in Path, Len(p) < 1 \/ p[1] # "home", NEW d \in Path
  PROVE  ~Below(H(d), p)
<1>1. /\ H(d) \in Path /\ Len(H(d)) = Len(d) + 2 /\ H(d)[1] = "home"
      /\ Len(d) \in Nat /\ Len(p) \in Nat
  <2>1. Len(d) \in Nat /\ Len(p) \in Nat
    BY DEF Path
  <2> QED BY <2>1, HomeFacts
<1>2. 1 \in 1..Len(H(d)) /\ Len(H(d)) >= 1
  BY <1>1
<1>3. ASSUME Below(H(d), p) PROVE FALSE
  <2>1. Len(H(d)) <= Len(p) /\ \A i \in 1..Len(H(d)) : H(d)[i] = p[i]
    BY <1>1, <1>3, BelowFacts
  <2>2. H(d)[1] = p[1]
    BY <1>2, <2>1
  <2> QED BY <1>1, <1>2, <2>1, <2>2
<1> QED BY <1>3

(* The places that are mounted over. *)
LEMMA MountedOverPaths == MountedOver \subseteq Path
<1> SUFFICES ASSUME NEW d \in MountedOver PROVE d \in Path
  OBVIOUS
<1>1. \/ d \in {<<x>> : x \in Literals}
      \/ d \in {<<".config", "gh">>, <<".config", "poolside">>,
                <<".config", "mimocode">>}
      \/ d \in {<<".local", "state", "poolside">>, <<".local", "share", "mimocode">>}
  BY LiteralNames DEF MountedOver
<1>2. /\ \A x \in Literals : <<x>> \in Path
      /\ <<".local", "state", "poolside">> \in Path
      /\ <<".local", "share", "mimocode">> \in Path
  BY AgentPaths
<1>3. /\ <<".config", "gh">> \in Path /\ <<".config", "poolside">> \in Path
      /\ <<".config", "mimocode">> \in Path
  BY LiteralNames, AgentPaths
<1> QED BY <1>1, <1>2, <1>3

(* What comes after the project's mount is in place, for paths that are    *)
(* not in a directory that is mounted over.                                *)
LEMMA InnerMisses ==
  ASSUME NEW r, r.agent \in Agents, NEW h \in Hosts
  PROVE  /\ Inner(r, h) \in Lists
         /\ \A p \in Path : Clear(p) => Misses(Inner(r, h), p)
<1>1. /\ GitConfig \in Lists
      /\ \A p : ~Below(H(<<".gitconfig">>), p) => Misses(GitConfig, p)
  <2>1. <<".gitconfig">> \in Path
    BY AgentPaths, LiteralNames
  <2> QED BY <2>1, LiteralNames, CopyMisses DEF GitConfig
<1>2. \A p : Clear(p) => ~Below(H(<<".gitconfig">>), p)
  BY DEF Clear, MountedOver
<1>3. AgentMounts(r.agent, h) \in Lists
  BY AgentMountsMiss
<1>4. \A p \in Path : Clear(p) =>
        Misses(AgentMounts(r.agent, h), p) /\ Misses(GitConfig, p)
  BY <1>1, <1>2, AgentMountsMiss
<1> QED BY <1>1, <1>3, <1>4, MissConcat, ListConcat DEF Inner

(* flar's sockets miss what is not in their directory. *)
LEMMA NetMisses ==
  ASSUME NEW r
  PROVE  /\ Net(r) \in Lists
         /\ \A p : ~Below(<<"run", "flar-net">>, p) => Misses(Net(r), p)
BY FixedPaths, OneMount, WhenMounts DEF Net

(* qwen's library. *)
LEMMA LibraryPath == Library \in Path /\ H(Library) \in Path
<1>1. Library \in Path
  BY AgentPaths, LiteralNames DEF Library
<1> QED BY <1>1, HomeFacts

(* The programs. *)
LEMMA BinariesFacts ==
  ASSUME NEW r, NEW h \in Hosts, NEW p \in Path
  PROVE  /\ Binaries(r, h) \in Lists
         /\ ~Below(h.flar, p) /\ ~Below(h.agent, p) => Keeps(Binaries(r, h), p)
         /\ ~Below(h.agent, p) \/ Below(<<"usr">>, h.agentReal)
              => Keeps(Binaries(r, h), p)
         /\ ~Below(h.flar, p) /\ ~Below(h.agent, p) /\ ~Below(H(Library), p)
              => Misses(Binaries(r, h), p)
<1> DEFINE a == Bind(h.flar, h.flar)
           m == Bind(h.agentReal, h.agent)
           b == When(~Below(<<"usr">>, h.agentReal), m)
           l == Live(Library)
           c == When(r.agent = "qwen" /\ h.library = "yes", l)
<1>1. /\ h.flar \in Path /\ h.agent \in Path /\ h.agentReal \in Path
  BY HostPaths
<1>2. /\ a \in Lists /\ Keeps(a, p) /\ (~Below(h.flar, p) => Misses(a, p))
  BY <1>1, OneMount, KeepsFacts
<1>3. m \in Lists /\ (~Below(h.agent, p) => Misses(m, p))
  BY <1>1, OneMount
<1>4. l \in Lists /\ Keeps(l, p) /\ (~Below(H(Library), p) => Misses(l, p))
  BY LibraryPath, OneMount, KeepsFacts DEF Live
<1>5. Below(<<"usr">>, h.agentReal) \in BOOLEAN
  BY DEF Below, IsPrefix
<1> HIDE DEF a, m, l
<1>6. /\ b \in Lists /\ (~Below(h.agent, p) => Misses(b, p))
      /\ Below(<<"usr">>, h.agentReal) => b = <<>>
  BY <1>3, <1>5, WhenMounts DEF When
<1>7. c \in Lists /\ Keeps(c, p) /\ (~Below(H(Library), p) => Misses(c, p))
  BY <1>4, WhenMounts, KeepsFacts
<1>8. Binaries(r, h) = a \o b \o c
  BY DEF Binaries, a, m, l, Library
<1> HIDE DEF b, c
<1>9. a \o b \in Lists /\ a \o b \o c \in Lists
  BY <1>2, <1>6, <1>7, ListConcat
<1>10. ~Below(h.agent, p) \/ Below(<<"usr">>, h.agentReal) => Keeps(b, p)
  BY <1>6, NoMount, KeepsFacts
<1>11. ~Below(h.agent, p) \/ Below(<<"usr">>, h.agentReal) => Keeps(a \o b \o c, p)
  BY <1>2, <1>7, <1>10, KeepsFacts
<1>12. ~Below(h.flar, p) /\ ~Below(h.agent, p) /\ ~Below(H(Library), p)
         => Misses(a \o b \o c, p)
  BY <1>2, <1>6, <1>7, <1>9, MissConcat
<1> QED BY <1>8, <1>9, <1>11, <1>12

(* What is in /usr begins so, *)
LEMMA InUsr ==
  ASSUME NEW p \in Path, Below(<<"usr">>, p)
  PROVE  Len(p) \in Nat /\ Len(p) >= 1 /\ p[1] = "usr"
<1> DEFINE u == <<"usr">>
<1>1. u \in Path /\ Len(u) = 1 /\ u[1] = "usr" /\ 1 \in 1..Len(u)
  BY FixedPaths
<1>2. Len(p) \in Nat
  BY DEF Path
<1> HIDE DEF u
<1>3. Below(u, p)
  BY DEF u
<1>4. Len(u) <= Len(p) /\ \A i \in 1..Len(u) : u[i] = p[i]
  BY <1>1, <1>3, BelowFacts
<1> QED BY <1>1, <1>2, <1>4

(* and the system shows it. *)
LEMMA SystemFacts ==
  /\ System \in Lists
  /\ \A p \in Path : Below(<<"usr">>, p) => Shows(System, p, p)
<1> DEFINE a == Tmpfs(<<>>)
           b == Bind(<<"usr">>, <<"usr">>)
           c == Bind(<<"opt">>, <<"opt">>)
           d == Tmpfs(<<"tmp">>)
           e == Tmpfs(<<"run">>)
<1>1. a \in Lists /\ b \in Lists /\ c \in Lists /\ d \in Lists /\ e \in Lists
  BY FixedPaths, OneMount, OneTmpfs
<1>2. ASSUME NEW p \in Path, Below(<<"usr">>, p)
      PROVE  /\ Shows(b, p, p) /\ Misses(c, p) /\ Misses(d, p) /\ Misses(e, p)
  <2>1. Len(p) >= 1 /\ p[1] = "usr" /\ Len(p) \in Nat
    BY <1>2, InUsr
  <2>2. ASSUME NEW u \in Path, Len(u) = 1, u[1] # "usr" PROVE ~Below(u, p)
    <3>1. 1 \in 1..Len(u)
      BY <2>2
    <3> QED BY <2>1, <2>2, <3>1, BelowFacts
  <2>3. ~Below(<<"opt">>, p) /\ ~Below(<<"tmp">>, p) /\ ~Below(<<"run">>, p)
    BY <2>2, FixedPaths
  <2>4. Misses(c, p) /\ Misses(d, p) /\ Misses(e, p)
    BY <2>3, FixedPaths, OneMount, OneTmpfs
  <2>5. Shows(b, p, p)
    BY <1>2, FixedPaths, ShowsItself
  <2> QED BY <2>4, <2>5
<1> HIDE DEF a, b, c, d, e
<1>3. /\ a \o b \in Lists /\ a \o b \o c \in Lists
      /\ a \o b \o c \o d \in Lists /\ a \o b \o c \o d \o e \in Lists
  BY <1>1, ListConcat
<1>4. ASSUME NEW p \in Path, Below(<<"usr">>, p)
      PROVE  Shows(a \o b \o c \o d \o e, p, p)
  <2>1. Shows(a \o b, p, p)
    BY <1>1, <1>2, <1>4, ShowsRight
  <2>2. Shows(a \o b \o c, p, p)
    BY <1>1, <1>2, <1>3, <1>4, <2>1, ShowsLeft
  <2>3. Shows(a \o b \o c \o d, p, p)
    BY <1>1, <1>2, <1>3, <1>4, <2>2, ShowsLeft
  <2> QED BY <1>1, <1>2, <1>3, <1>4, <2>3, ShowsLeft
<1> QED BY <1>3, <1>4 DEF System, a, b, c, d, e

(* What there is for containers leaves /usr alone and shows the cache. *)
LEMMA ContainerFacts ==
  ASSUME NEW r
  PROVE  /\ ContainerSupport(r) \in Lists
         /\ \A p \in Path : Below(<<"usr">>, p) => Keeps(ContainerSupport(r), p)
         /\ r.cache = "yes" =>
              Shows(ContainerSupport(r), H(CacheDir), H(CacheDir))
<1> DEFINE storage == <<".config", "containers", "storage.conf">>
           a == When(r.cache = "yes", Live(CacheDir))
           b == Bind(Podman("storage.conf"), H(storage))
           c == Bind(Podman("etc-containers"), <<"etc", "containers">>)
<1>1. /\ H(CacheDir) \in Path /\ H(storage) \in Path
      /\ <<"etc", "containers">> \in Path
      /\ Podman("storage.conf") \in Path /\ Podman("etc-containers") \in Path
  BY FixedPaths, HomeFacts, ConcatPath DEF Podman
<1>2. a \in Lists /\ b \in Lists /\ c \in Lists
  BY <1>1, FixedPaths, HomeMounts, WhenMounts, OneMount
<1>3. ASSUME NEW p \in Path, Below(<<"usr">>, p)
      PROVE  Keeps(a, p) /\ Keeps(b, p) /\ Keeps(c, p)
  <2>1. Len(p) >= 1 /\ p[1] = "usr"
    BY <1>3, InUsr
  <2>2. ~Below(H(storage), p)
    BY <2>1, FixedPaths, NotHome
  <2>3. ~Below(<<"etc", "containers">>, p)
    <3> DEFINE u == <<"etc", "containers">>
    <3>1. u \in Path /\ u[1] = "etc" /\ 1 \in 1..Len(u)
      BY FixedPaths
    <3> HIDE DEF u
    <3>2. ~Below(u, p)
      BY <2>1, <3>1, BelowFacts
    <3> QED BY <3>2 DEF u
  <2>4. Keeps(a, p)
    BY <1>1, KeepsFacts DEF Live
  <2> QED BY <1>1, <1>2, <2>2, <2>3, <2>4, OneMount, KeepsFacts
<1>4. ASSUME r.cache = "yes"
      PROVE  /\ Shows(a, H(CacheDir), H(CacheDir))
             /\ Misses(b, H(CacheDir)) /\ Misses(c, H(CacheDir))
  <2>1. a = Bind(H(CacheDir), H(CacheDir))
    BY <1>4 DEF When, Live
  <2>2. Shows(a, H(CacheDir), H(CacheDir))
    BY <1>1, <2>1, ShowsHere
  <2>3. ~Below(H(storage), H(CacheDir))
    <3>1. /\ storage \in Path /\ CacheDir \in Path /\ 1 \in 1..Len(storage)
          /\ 1 \in 1..Len(CacheDir) /\ storage[1] # CacheDir[1]
      BY FixedPaths DEF CacheDir
    <3> HIDE DEF storage
    <3> QED BY <3>1, HomeApart
  <2>4. ~Below(<<"etc", "containers">>, H(CacheDir))
    <3> DEFINE u == <<"etc", "containers">>
    <3>1. u \in Path /\ u[1] = "etc" /\ 1 \in 1..Len(u)
      BY FixedPaths
    <3>2. H(CacheDir)[1] = "home"
      BY FixedPaths, HomeFacts
    <3> HIDE DEF u
    <3>3. ~Below(u, H(CacheDir))
      BY <1>1, <3>1, <3>2, BelowFacts
    <3> QED BY <3>3 DEF u
  <2> QED BY <1>1, <2>2, <2>3, <2>4, OneMount
<1>5. ContainerSupport(r) = a \o b \o c
  BY DEF ContainerSupport
<1> HIDE DEF a, b, c
<1>6. a \o b \in Lists /\ a \o b \o c \in Lists
  BY <1>2, ListConcat
<1>7. \A p \in Path : Below(<<"usr">>, p) => Keeps(a \o b \o c, p)
  BY <1>3, KeepsFacts
<1>8. r.cache = "yes" => Shows(a \o b \o c, H(CacheDir), H(CacheDir))
  BY <1>2, <1>4, <1>6, ShowsLeft
<1> QED BY <1>5, <1>6, <1>7, <1>8

(* The list of all mounts, by its six parts. *)
LEMMA MountsParts ==
  ASSUME NEW r, r.agent \in Agents, NEW h \in Hosts, NEW prepared \in BOOLEAN
  PROVE  LET a == System
             b == When(prepared, ContainerSupport(r))
             c == Project(h)
             d == When(prepared, Inner(r, h))
             e == Binaries(r, h)
             f == Net(r)
         IN  /\ Mounts(r, h, prepared) = a \o b \o c \o d \o e \o f
             /\ a \in Lists /\ b \in Lists /\ c \in Lists /\ d \in Lists
             /\ e \in Lists /\ f \in Lists
             /\ a \o b \in Lists /\ a \o b \o c \in Lists
             /\ a \o b \o c \o d \in Lists /\ a \o b \o c \o d \o e \in Lists
             /\ a \o b \o c \o d \o e \o f \in Lists
<1> DEFINE a == System
           b == When(prepared, ContainerSupport(r))
           c == Project(h)
           d == When(prepared, Inner(r, h))
           e == Binaries(r, h)
           f == Net(r)
<1>1. Mounts(r, h, prepared) = a \o b \o c \o d \o e \o f
  BY DEF Mounts, Inner, GitConfig, Net
<1>2. a \in Lists /\ b \in Lists
  BY SystemFacts, ContainerFacts, WhenMounts
<1>3. c \in Lists
  BY HostPaths, OneMount DEF Project
<1>4. d \in Lists /\ f \in Lists
  BY InnerMisses, NetMisses, WhenMounts
<1>5. e \in Lists
  BY FixedPaths, BinariesFacts
<1> HIDE DEF a, b, c, d, e, f
<1>6. /\ a \o b \in Lists /\ a \o b \o c \in Lists
      /\ a \o b \o c \o d \in Lists /\ a \o b \o c \o d \o e \in Lists
      /\ a \o b \o c \o d \o e \o f \in Lists
  BY <1>2, <1>3, <1>4, <1>5, ListConcat
<1> QED BY <1>1, <1>2, <1>3, <1>4, <1>5, <1>6 DEF a, b, c, d, e, f

(* Once the project, or what is inside the sandbox's home, shows itself,   *)
(* the programs and flar's sockets leave it alone.                         *)
LEMMA TailKeeps ==
  ASSUME NEW r, NEW h \in Hosts, NEW p \in Path, NEW a \in Lists,
         Shows(a, p, p), ~Below(<<"run", "flar-net">>, p),
         ~Below(h.agent, p) \/ Below(<<"usr">>, h.agentReal)
  PROVE  /\ a \o Binaries(r, h) \o Net(r) \in Lists
         /\ Shows(a \o Binaries(r, h) \o Net(r), p, p)
<1>1. Keeps(Binaries(r, h), p)
  BY BinariesFacts
<1>2. a \o Binaries(r, h) \in Lists /\ Shows(a \o Binaries(r, h), p, p)
  BY <1>1, ListConcat DEF Keeps
<1> QED BY <1>2, NetMisses, ShowsLeft, ListConcat

(* The same for any list, if the programs are not above the path. *)
LEMMA TailMisses ==
  ASSUME NEW r, NEW h \in Hosts, NEW p \in Path, NEW v, NEW a \in Lists,
         Shows(a, p, v), ~Below(<<"run", "flar-net">>, p), ~Below(h.agent, p),
         ~Below(h.flar, p), ~Below(H(Library), p)
  PROVE  /\ a \o Binaries(r, h) \o Net(r) \in Lists
         /\ Shows(a \o Binaries(r, h) \o Net(r), p, v)
<1>1. Binaries(r, h) \in Lists /\ Misses(Binaries(r, h), p)
  BY BinariesFacts
<1>2. a \o Binaries(r, h) \in Lists /\ Shows(a \o Binaries(r, h), p, v)
  BY <1>1, ShowsLeft
<1> QED BY <1>2, NetMisses, ShowsLeft, ListConcat

(* The project is seen where it is on the host (container.go:686-687), if  *)
(* it is not inside what is mounted later.                                 *)
LEMMA ProjectInPlace ==
  ASSUME NEW r, r.agent \in Agents, NEW h \in Hosts, NEW prepared \in BOOLEAN,
         Apart(h), h.agent # <<>>
  PROVE  View(Mounts(r, h, prepared), h.project) = h.project
<1> DEFINE p == h.project
           x == System \o When(prepared, ContainerSupport(r))
           c == Project(h)
           d == When(prepared, Inner(r, h))
<1>1. /\ p \in Path /\ Clear(p) /\ ~Below(<<"run", "flar-net">>, p)
      /\ ~Below(h.agent, p)
  BY HostPaths DEF Apart, Clear
<1>2. /\ Mounts(r, h, prepared) = x \o c \o d \o Binaries(r, h) \o Net(r)
      /\ x \in Lists /\ c \in Lists /\ d \in Lists
      /\ x \o c \in Lists /\ x \o c \o d \in Lists
  BY MountsParts
<1>3. Shows(c, p, p)
  BY <1>1, ShowsHere DEF Project
<1>4. Misses(d, p)
  BY <1>1, InnerMisses, WhenMounts
<1> HIDE DEF p, x, c, d
<1>5. Shows(x \o c \o d, p, p)
  BY <1>2, <1>3, <1>4, ShowsRight, ShowsLeft
<1>6. /\ Mounts(r, h, prepared) \in Lists
      /\ Shows(Mounts(r, h, prepared), p, p)
  BY <1>1, <1>2, <1>5, TailKeeps
<1>7. View(Mounts(r, h, prepared), p) = p
  BY <1>6, ShowsView
<1> QED BY <1>7 DEF p

(* flar's own program, which the script runs (container.go:899-919).       *)
LEMMA FlarInPlace ==
  ASSUME NEW r, r.agent \in Agents, NEW h \in Hosts, NEW prepared \in BOOLEAN,
         Apart(h), h.agent # <<>>
  PROVE  View(Mounts(r, h, prepared), h.flar) = h.flar
<1> DEFINE p == h.flar
           x == System \o When(prepared, ContainerSupport(r)) \o Project(h)
                  \o When(prepared, Inner(r, h))
           a == Bind(p, p)
           b == When(~Below(<<"usr">>, h.agentReal), Bind(h.agentReal, h.agent))
           l == When(r.agent = "qwen" /\ h.library = "yes", Live(Library))
<1>1. /\ p \in Path /\ h.agent \in Path /\ h.agentReal \in Path
      /\ ~Below(<<"run", "flar-net">>, p) /\ ~Below(h.agent, p)
  BY HostPaths DEF Apart
<1>2. /\ Mounts(r, h, prepared) = x \o Binaries(r, h) \o Net(r)
      /\ x \in Lists /\ Binaries(r, h) \in Lists
      /\ x \o Binaries(r, h) \in Lists
      /\ x \o Binaries(r, h) \o Net(r) \in Lists /\ Net(r) \in Lists
  BY MountsParts
<1>3. a \in Lists /\ Shows(a, p, p)
  BY <1>1, OneMount, ShowsHere
<1>4. b \in Lists /\ Misses(b, p)
  <2>1. Bind(h.agentReal, h.agent) \in Lists /\ Misses(Bind(h.agentReal, h.agent), p)
    BY <1>1, OneMount
  <2>2. b = Bind(h.agentReal, h.agent) \/ b = <<>>
    BY DEF When
  <2> HIDE DEF b
  <2> QED BY <2>1, <2>2, NoMount
<1>5. Keeps(l, p)
  BY <1>1, LibraryPath, KeepsFacts DEF Live
<1>6. Binaries(r, h) = a \o b \o l
  BY DEF Binaries, Library
<1> HIDE DEF p, x, a, b, l
<1>7. a \o b \in Lists /\ Shows(a \o b, p, p)
  BY <1>3, <1>4, ShowsLeft
<1>8. Shows(Binaries(r, h), p, p)
  BY <1>5, <1>6, <1>7 DEF Keeps
<1>9. Shows(x \o Binaries(r, h) \o Net(r), p, p)
  BY <1>1, <1>2, <1>8, NetMisses, ShowsRight, ShowsLeft
<1>10. View(Mounts(r, h, prepared), p) = p
  BY <1>2, <1>9, ShowsView
<1> QED BY <1>10 DEF p

(* The agent's program, where the host has it or by its real path          *)
(* (container.go:921-931), but for a link from elsewhere into /usr.        *)
LEMMA AgentInPlace ==
  ASSUME NEW r, r.agent \in Agents, NEW h \in Hosts, NEW prepared \in BOOLEAN,
         Apart(h), Below(<<"usr">>, h.agentReal) => Below(<<"usr">>, h.agent)
  PROVE  View(Mounts(r, h, prepared), h.agent) \in {h.agent, h.agentReal}
<1> DEFINE p == h.agent
           s == System
           n == When(prepared, ContainerSupport(r))
           c == Project(h)
           d == When(prepared, Inner(r, h))
           x == s \o n \o c \o d
<1>1. /\ p \in Path /\ h.agentReal \in Path /\ h.project \in Path /\ h.flar \in Path
      /\ ~Below(<<"run", "flar-net">>, p)
  BY HostPaths DEF Apart
<1>2. /\ Mounts(r, h, prepared) = x \o Binaries(r, h) \o Net(r)
      /\ s \in Lists /\ n \in Lists /\ c \in Lists /\ d \in Lists
      /\ s \o n \in Lists /\ s \o n \o c \in Lists
      /\ x \in Lists /\ Binaries(r, h) \in Lists
      /\ x \o Binaries(r, h) \in Lists
      /\ x \o Binaries(r, h) \o Net(r) \in Lists /\ Net(r) \in Lists
  BY MountsParts
<1>3. CASE Below(<<"usr">>, h.agentReal)
  <2>1. Below(<<"usr">>, p)
    BY <1>3
  <2>2. Shows(s, p, p)
    BY <1>1, <2>1, SystemFacts
  <2>3. Keeps(n, p)
    BY <1>1, <2>1, ContainerFacts, KeepsFacts
  <2>4. Keeps(c, p)
    BY <1>1, KeepsFacts DEF Project
  <2>5. Misses(d, p)
    <3>1. p[1] # "home"
      BY <1>1, <2>1, InUsr
    <3>2. Clear(p)
      BY <1>1, <3>1, NotHome, MountedOverPaths DEF Clear
    <3> QED BY <1>1, <3>2, InnerMisses, WhenMounts
  <2> HIDE DEF p, s, n, c, d
  <2>6. Shows(s \o n, p, p)
    BY <1>2, <2>2, <2>3 DEF Keeps
  <2>7. Shows(s \o n \o c, p, p)
    BY <1>2, <2>4, <2>6 DEF Keeps
  <2>8. Shows(x, p, p)
    BY <1>2, <2>5, <2>7, ShowsLeft
  <2> HIDE DEF x
  <2>9. Shows(x \o Binaries(r, h) \o Net(r), p, p)
    BY <1>1, <1>2, <1>3, <2>8, TailKeeps
  <2>10. View(Mounts(r, h, prepared), p) = p
    BY <1>2, <2>9, ShowsView
  <2> QED BY <2>10 DEF p
<1>4. CASE ~Below(<<"usr">>, h.agentReal)
  <2> DEFINE a == Bind(h.flar, h.flar)
             b == Bind(h.agentReal, p)
             l == When(r.agent = "qwen" /\ h.library = "yes", Live(Library))
  <2>1. a \in Lists /\ b \in Lists /\ Shows(b, p, h.agentReal)
    BY <1>1, OneMount, ShowsHere
  <2>2. Live(Library) = Bind(H(Library), H(Library)) /\ H(Library) \in Path
    BY LibraryPath DEF Live
  <2>3. l \in Lists /\ (Shows(l, p, p) \/ Misses(l, p))
    <3>1. Live(Library) \in Lists
      BY <2>2, OneMount
    <3>2. Shows(Live(Library), p, p) \/ Misses(Live(Library), p)
      BY <1>1, <2>2, ShowsItself, OneMount
    <3> QED BY <3>1, <3>2, NoMount DEF When
  <2>4. Binaries(r, h) = a \o b \o l
    BY <1>4 DEF Binaries, When, Library
  <2> HIDE DEF p, x, a, b, l
  <2>5. a \o b \in Lists /\ Shows(a \o b, p, h.agentReal)
    BY <2>1, ShowsRight
  <2>6. \E v \in {p, h.agentReal} : Shows(Binaries(r, h), p, v)
    <3>1. CASE Shows(l, p, p)
      BY <2>3, <2>4, <2>5, <3>1, ShowsRight
    <3>2. CASE Misses(l, p)
      BY <2>3, <2>4, <2>5, <3>2, ShowsLeft
    <3> QED BY <2>3, <3>1, <3>2
  <2>7. PICK v \in {p, h.agentReal} : Shows(Binaries(r, h), p, v)
    BY <2>6
  <2>8. Shows(x \o Binaries(r, h) \o Net(r), p, v)
    BY <1>1, <1>2, <2>7, NetMisses, ShowsRight, ShowsLeft
  <2>9. View(Mounts(r, h, prepared), p) = v
    BY <1>2, <2>8, ShowsView
  <2> QED BY <2>9 DEF p
<1> QED BY <1>3, <1>4

(* What is mounted for an agent, at a place that is to be kept, is seen    *)
(* there in the end.                                                       *)
LEMMA SpotFacts ==
  ASSUME NEW x, Spot(x)
  PROVE  /\ H(x) \in Path /\ Misses(GitConfig, H(x)) /\ GitConfig \in Lists
         /\ ~Below(<<"run", "flar-net">>, H(x)) /\ ~Below(H(Library), H(x))
<1>1. x \in Path /\ H(x) \in Path /\ H(x)[1] = "home"
  BY HomeFacts DEF Spot
<1>2. GitConfig \in Lists /\ Misses(GitConfig, H(x))
  <2> DEFINE g == <<".gitconfig">>
  <2>1. g \in Path /\ 1 \in 1..Len(g) /\ g[1] = ".gitconfig"
    BY AgentPaths, LiteralNames
  <2>2. 1 \in 1..Len(x) /\ x[1] # ".gitconfig"
    BY <1>1 DEF Spot, Path
  <2> HIDE DEF g
  <2>3. ~Below(H(g), H(x))
    BY <1>1, <2>1, <2>2, HomeApart
  <2>4. ".gitconfig" \in Literals
    BY LiteralNames
  <2> QED BY <2>1, <2>3, <2>4, CopyMisses DEF GitConfig, g
<1>3. ~Below(<<"run", "flar-net">>, H(x))
  <2> DEFINE u == <<"run", "flar-net">>
  <2>1. u \in Path /\ 1 \in 1..Len(u) /\ u[1] = "run"
    BY FixedPaths
  <2> HIDE DEF u
  <2>2. ~Below(u, H(x))
    BY <1>1, <2>1, BelowFacts
  <2> QED BY <2>2 DEF u
<1>4. ~Below(H(Library), H(x))
  <2>1. Library \in Path /\ Len(Library) = 3 /\ Library[2] = "lib"
    BY LibraryPath DEF Library
  <2>2. Len(x) \in Nat
    BY <1>1 DEF Path
  <2>3. CASE Len(x) >= 2
    <3>1. /\ 2 \in 1..Len(Library) /\ 2 \in 1..Len(x) /\ Library[2] # x[2]
      BY <2>1, <2>2, <2>3 DEF Spot
    <3> QED BY <1>1, <2>1, <3>1, HomeApart
  <2>4. CASE ~(Len(x) >= 2)
    <3>1. Len(Library) > Len(x)
      BY <2>1, <2>2, <2>4
    <3> QED BY <1>1, <2>1, <3>1, HomeApart
  <2> QED BY <2>3, <2>4
<1> QED BY <1>1, <1>2, <1>3, <1>4

(* The cache and the token are to be kept. *)
LEMMA KeptAlways == H(CacheDir) \in Kept /\ H(<<".agy-secret">>) \in Kept
<1> DEFINE s == UNION {{t.at : t \in Sessions(a)} : a \in Agents}
<1>1. Kept = {H(CacheDir), H(<<".agy-secret">>)} \cup s
  BY DEF Kept
<1> HIDE DEF s
<1> QED BY <1>1

(* What the agent's mounts show at such a place is seen in the end. *)
LEMMA KeptInPlace ==
  ASSUME NEW r, r.agent \in Agents, NEW h \in Hosts, Apart(h), h.agent # <<>>,
         NEW x, Spot(x), H(x) \in Kept, NEW v,
         Shows(AgentMounts(r.agent, h), H(x), v)
  PROVE  View(Mounts(r, h, TRUE), H(x)) = v
<1> DEFINE y == System \o When(TRUE, ContainerSupport(r)) \o Project(h)
           d == When(TRUE, Inner(r, h))
<1>1. /\ Mounts(r, h, TRUE) = y \o d \o Binaries(r, h) \o Net(r)
      /\ y \in Lists /\ d \in Lists /\ y \o d \in Lists
  BY MountsParts
<1>2. d = Inner(r, h)
  BY DEF When
<1>3. Shows(Inner(r, h), H(x), v)
  BY SpotFacts, AgentMountsMiss, ShowsLeft DEF Inner
<1> HIDE DEF y, d
<1>4. Shows(y \o d, H(x), v)
  BY <1>1, <1>2, <1>3, ShowsRight
<1>5. ~Below(h.agent, H(x)) /\ ~Below(h.flar, H(x))
  BY DEF Apart
<1>6. /\ Mounts(r, h, TRUE) \in Lists
      /\ Shows(Mounts(r, h, TRUE), H(x), v)
  BY <1>1, <1>4, <1>5, SpotFacts, TailMisses
<1> QED BY <1>6, ShowsView

(* Where an agent looks for its sessions, the sandbox has what is kept of  *)
(* them on the host.                                                       *)
LEMMA SessionsInPlace ==
  ASSUME NEW r, r.agent \in Agents, NEW h \in Hosts, Apart(h), h.agent # <<>>,
         h.has = "yes", h.stored = "yes", h.live = "yes",
         NEW s \in Sessions(r.agent)
  PROVE  View(Mounts(r, h, TRUE), s.at) = s.is
<1>1. PICK x : Spot(x) /\ s.at = H(x)
  BY SessionsShown
<1>2. Shows(AgentMounts(r.agent, h), H(x), s.is)
  BY <1>1, SessionsShown
<1>3. H(x) \in Kept
  <2>1. H(x) \in {t.at : t \in Sessions(r.agent)}
    BY <1>1
  <2> QED BY <2>1 DEF Kept
<1> QED BY <1>1, <1>2, <1>3, KeptInPlace

(* agy's token, which the secret service reads (container.go:752-756).     *)
LEMMA SecretInPlace ==
  ASSUME NEW r, r.agent = "agy", NEW h \in Hosts, Apart(h), h.agent # <<>>,
         h.token = "yes"
  PROVE  View(Mounts(r, h, TRUE), H(<<".agy-secret">>)) = TempConfig \o <<"agy-secret">>
<1> DEFINE x == <<".agy-secret">>
           v == TempConfig \o <<"agy-secret">>
           has == h.has = "yes"
           parts == AgyPart(<<"conversations">>) \o AgyPart(<<"brain">>)
                      \o AgyPart(<<"implicit">>) \o AgyPart(<<"history.jsonl">>)
                      \o AgyPart(<<"cache", "last_conversations.json">>)
           a == When(has, Copy(".gemini", <<".gemini">>))
           b == When(has /\ h.stored = "yes", parts)
           c == Copy("agy-secret", x)
<1>1. "agy" \in Agents
  BY AgentNames
<1>2. x \in Path /\ Len(x) = 1 /\ x[1] # ".gitconfig"
  BY AgentPaths, LiteralNames
<1>3. Spot(x) /\ H(x) \in Kept
  <2>1. H(x) \in Kept
    BY KeptAlways
  <2> HIDE DEF x
  <2>2. Spot(x)
    BY <1>2 DEF Spot
  <2> QED BY <2>1, <2>2
<1>4. a \in Lists /\ b \in Lists
  <2>1. <<".gemini">> \in Path
    BY AgentPaths, LiteralNames
  <2>2. Copy(".gemini", <<".gemini">>) \in Lists /\ parts \in Lists
    BY <2>1, LiteralNames, CopyMisses, AgyStoreMisses
  <2> QED BY <2>2, WhenMounts
<1>5. c \in Lists /\ Shows(c, H(x), v)
  <2>1. v \in Path /\ H(x) \in Path
    BY <1>2, AgentPaths, LiteralNames, FixedPaths, ConcatPath, HomeFacts
  <2> QED BY <2>1, OneMount, ShowsHere DEF Copy
<1>6. AgentMounts("agy", h) = a \o b \o c
  BY DEF AgentMounts, When
<1> HIDE DEF x, v, a, b, c
<1>7. Shows(AgentMounts("agy", h), H(x), v)
  <2>1. a \o b \in Lists
    BY <1>4, ListConcat
  <2>2. Shows((a \o b) \o c, H(x), v)
    BY <1>5, <2>1, ShowsRight
  <2> QED BY <1>6, <2>2
<1>8. View(Mounts(r, h, TRUE), H(x)) = v
  BY <1>1, <1>3, <1>7, KeptInPlace
<1> QED BY <1>8 DEF x, v

(* The cache for container images (container.go:317-330).                  *)
LEMMA CacheInPlace ==
  ASSUME NEW r, r.agent \in Agents, NEW h \in Hosts, Apart(h), h.agent # <<>>,
         r.cache = "yes"
  PROVE  View(Mounts(r, h, TRUE), H(CacheDir)) = H(CacheDir)
<1> DEFINE p == H(CacheDir)
           s == System
           n == When(TRUE, ContainerSupport(r))
           c == Project(h)
           d == When(TRUE, Inner(r, h))
<1>1. /\ Mounts(r, h, TRUE) = s \o n \o c \o d \o Binaries(r, h) \o Net(r)
      /\ s \in Lists /\ n \in Lists /\ c \in Lists /\ d \in Lists
      /\ s \o n \in Lists /\ s \o n \o c \in Lists /\ s \o n \o c \o d \in Lists
  BY MountsParts
<1>2. CacheDir \in Path /\ Len(CacheDir) = 3 /\ CacheDir[1] = ".cache"
      /\ CacheDir[2] = "flar"
  BY FixedPaths DEF CacheDir
<1>3. Spot(CacheDir) /\ p \in Kept /\ p \in Path
  <2>1. Spot(CacheDir)
    BY <1>2 DEF Spot
  <2>2. p \in Kept
    BY KeptAlways
  <2> QED BY <1>2, <2>1, <2>2, HomeFacts
<1>4. Shows(n, p, p)
  BY ContainerFacts DEF When
<1>5. Keeps(c, p)
  BY <1>3, HostPaths, KeepsFacts DEF Project
<1>6. Misses(d, p)
  <2>1. ASSUME NEW dir \in MountedOver PROVE ~Below(H(dir), p)
    <3>1. Len(dir) \in 1..3 /\ dir[1] # ".cache"
      BY <2>1 DEF MountedOver
    <3>2. dir \in Path
      BY <2>1, MountedOverPaths
    <3>3. 1 \in 1..Len(CacheDir) /\ 1 \in 1..Len(dir)
      BY <1>2, <3>1
    <3> QED BY <1>2, <3>1, <3>2, <3>3, HomeApart
  <2>2. Clear(p)
    BY <2>1 DEF Clear
  <2> QED BY <1>3, <2>2, InnerMisses, WhenMounts
<1> HIDE DEF p, s, n, c, d
<1>7. Shows(s \o n, p, p)
  BY <1>1, <1>4, ShowsRight
<1>8. Shows(s \o n \o c, p, p)
  BY <1>1, <1>5, <1>7 DEF Keeps
<1>9. Shows(s \o n \o c \o d, p, p)
  BY <1>1, <1>6, <1>8, ShowsLeft
<1>10. ~Below(h.agent, p) /\ ~Below(<<"run", "flar-net">>, p)
  BY <1>3, SpotFacts DEF Apart, p
<1>11. /\ Mounts(r, h, TRUE) \in Lists
       /\ Shows(Mounts(r, h, TRUE), p, p)
  BY <1>1, <1>3, <1>9, <1>10, TailKeeps
<1>12. View(Mounts(r, h, TRUE), p) = p
  BY <1>11, ShowsView
<1> QED BY <1>12 DEF p

(* The directory with the proxies' sockets (container.go:945-948).         *)
LEMMA NetInPlace ==
  ASSUME NEW r, r.agent \in Agents, NEW h \in Hosts, NEW prepared \in BOOLEAN,
         r.network = "isolated"
  PROVE  View(Mounts(r, h, prepared), <<"run", "flar-net">>) = TempNetDir
<1> DEFINE x == System \o When(prepared, ContainerSupport(r)) \o Project(h)
                  \o When(prepared, Inner(r, h)) \o Binaries(r, h)
<1>1. /\ Mounts(r, h, prepared) = x \o Net(r)
      /\ x \in Lists /\ Net(r) \in Lists /\ x \o Net(r) \in Lists
  BY MountsParts
<1>2. Shows(Net(r), <<"run", "flar-net">>, TempNetDir)
  BY FixedPaths, ShowsHere DEF Net, When
<1> HIDE DEF x
<1> QED BY <1>1, <1>2, ShowsRight, ShowsView
=============================================================================
