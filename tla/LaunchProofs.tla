---------------------------- MODULE LaunchProofs ----------------------------
(***************************************************************************)
(* Proofs about Launch, for all inputs and system calls: what flar is told *)
(* and finds, what the sandbox may call, what is seen in place and which   *)
(* of the agents' files are seen at all.                                   *)
(***************************************************************************)
EXTENDS Launch, MountsProofs, TLAPS

(* The state of the BPF machine before instruction p. *)
S(p, a) == [at |-> p, acc |-> a]

(* One step of each instruction of the program. *)
LEMMA StepLoad ==
  ASSUME NEW call, NEW a
  PROVE  /\ Step(call, S(1, a)) = S(2, call.arch)
         /\ Step(call, S(4, a)) = S(5, call.nr)
         /\ Step(call, S(6, a)) = S(7, call.nr)
         /\ Step(call, S(8, a)) = S(9, call.low)
<1>1. /\ Program[1] = Ld("arch") /\ Program[4] = Ld("nr")
      /\ Program[6] = Ld("nr") /\ Program[8] = Ld("low")
  BY DEF Program
<1> QED
  BY <1>1 DEF Step, S, Ld

(* The comparisons: where each goes on. *)
LEMMA StepJump ==
  ASSUME NEW call, NEW a
  PROVE  /\ Step(call, S(2, a)) = S(IF a = "x86_64" THEN 6 ELSE 3, a)
         /\ Step(call, S(3, a)) = S(IF a = "aarch64" THEN 4 ELSE 11, a)
         /\ Step(call, S(5, a)) = S(IF a = 29 THEN 8 ELSE 11, a)
         /\ Step(call, S(7, a)) = S(IF a = 16 THEN 8 ELSE 11, a)
         /\ Step(call, S(9, a)) = S(IF a = TIOCSTI THEN 10 ELSE 11, a)
<1>1. /\ Program[2] = Jeq(3, 0, "x86_64") /\ Program[3] = Jeq(0, 7, "aarch64")
      /\ Program[5] = Jeq(2, 5, 29) /\ Program[7] = Jeq(0, 3, 16)
      /\ Program[9] = Jeq(0, 1, TIOCSTI)
  BY DEF Program
<1> QED
  BY <1>1 DEF Step, S, Jeq

(* The two returns stay where they are. *)
LEMMA StepReturn ==
  ASSUME NEW call, NEW a
  PROVE  /\ Step(call, S(10, a)) = S(10, a) /\ Program[10].verdict = "EPERM"
         /\ Step(call, S(11, a)) = S(11, a) /\ Program[11].verdict = "ALLOW"
<1>1. Program[10] = Ret("EPERM") /\ Program[11] = Ret("ALLOW")
  BY DEF Program
<1> QED
  BY <1>1 DEF Step, S, Ret

(* Every call ends at one of the two returns within eight instructions. *)
LEMMA ReachesReturn ==
  ASSUME NEW call
  PROVE  \E a : Reached(call) = S(IF MustDeny(call) THEN 10 ELSE 11, a)
<1> DEFINE T(s) == Step(call, s)
<1>1. Reached(call) = T(T(T(T(T(T(T(T(S(1, "")))))))))
  BY DEF Reached, Four, Two, S
<1>2. T(S(1, "")) = S(2, call.arch)
  BY StepLoad
<1>3. CASE call.arch = "x86_64"
  <2>1. T(S(2, call.arch)) = S(6, call.arch)
    BY <1>3, StepJump
  <2>2. T(S(6, call.arch)) = S(7, call.nr)
    BY StepLoad
  <2>3. CASE call.nr = 16
    <3>1. T(S(7, call.nr)) = S(8, call.nr) /\ T(S(8, call.nr)) = S(9, call.low)
      BY <2>3, StepJump, StepLoad
    <3>2. /\ T(S(9, call.low)) = S(IF call.low = TIOCSTI THEN 10 ELSE 11, call.low)
          /\ T(S(10, call.low)) = S(10, call.low)
          /\ T(S(11, call.low)) = S(11, call.low)
      BY StepJump, StepReturn
    <3>3. MustDeny(call) <=> call.low = TIOCSTI
      BY <1>3, <2>3 DEF MustDeny
    <3> QED
      BY <1>1, <1>2, <2>1, <2>2, <3>1, <3>2, <3>3
  <2>4. CASE call.nr # 16
    <3>1. T(S(7, call.nr)) = S(11, call.nr) /\ T(S(11, call.nr)) = S(11, call.nr)
      BY <2>4, StepJump, StepReturn
    <3>2. ~MustDeny(call)
      BY <1>3, <2>4 DEF MustDeny
    <3> QED
      BY <1>1, <1>2, <2>1, <2>2, <3>1, <3>2
  <2> QED
    BY <2>3, <2>4
<1>4. CASE call.arch = "aarch64"
  <2>1. T(S(2, call.arch)) = S(3, call.arch) /\ T(S(3, call.arch)) = S(4, call.arch)
    BY <1>4, StepJump
  <2>2. T(S(4, call.arch)) = S(5, call.nr)
    BY StepLoad
  <2>3. CASE call.nr = 29
    <3>1. T(S(5, call.nr)) = S(8, call.nr) /\ T(S(8, call.nr)) = S(9, call.low)
      BY <2>3, StepJump, StepLoad
    <3>2. T(S(9, call.low)) = S(IF call.low = TIOCSTI THEN 10 ELSE 11, call.low)
      BY StepJump
    <3>3. MustDeny(call) <=> call.low = TIOCSTI
      BY <1>4, <2>3 DEF MustDeny
    <3>4. /\ T(S(10, call.low)) = S(10, call.low)
          /\ T(S(11, call.low)) = S(11, call.low)
      BY StepReturn
    <3> QED
      BY <1>1, <1>2, <2>1, <2>2, <3>1, <3>2, <3>3, <3>4
  <2>4. CASE call.nr # 29
    <3>1. T(S(5, call.nr)) = S(11, call.nr) /\ T(S(11, call.nr)) = S(11, call.nr)
      BY <2>4, StepJump, StepReturn
    <3>2. ~MustDeny(call)
      BY <1>4, <2>4 DEF MustDeny
    <3> QED
      BY <1>1, <1>2, <2>1, <2>2, <3>1, <3>2
  <2> QED
    BY <2>3, <2>4
<1>5. CASE call.arch # "x86_64" /\ call.arch # "aarch64"
  <2>1. T(S(2, call.arch)) = S(3, call.arch) /\ T(S(3, call.arch)) = S(11, call.arch)
    BY <1>5, StepJump
  <2>2. T(S(11, call.arch)) = S(11, call.arch)
    BY StepReturn
  <2>3. ~MustDeny(call)
    BY <1>5 DEF MustDeny
  <2> QED
    BY <1>1, <1>2, <2>1, <2>2, <2>3
<1> QED
  BY <1>3, <1>4, <1>5

(* The filter refuses TIOCSTI where it knows the number of ioctl, and no    *)
(* other call: for every call, not only those of the run (container.go:     *)
(* 405-456).                                                                *)
THEOREM FilterExact ==
  ASSUME NEW call
  PROVE  Verdict(call) = IF MustDeny(call) THEN "EPERM" ELSE "ALLOW"
<1>1. PICK a : Reached(call) = S(IF MustDeny(call) THEN 10 ELSE 11, a)
  BY ReachesReturn
<1>2. Reached(call).at = IF MustDeny(call) THEN 10 ELSE 11
  BY <1>1 DEF S
<1> QED
  BY <1>2, StepReturn DEF Verdict

THEOREM TiocstiDeniedHolds == Spec => []TiocstiDenied
<1>1. TiocstiDenied
  BY FilterExact DEF TiocstiDenied
<1> QED
  BY <1>1, PTL

-----------------------------------------------------------------------------
(* The configuration.                                                      *)

(* Whatever is in a project's file, it gives no network, ports or cache.    *)
LEMMA LocalGivesNothing ==
  ASSUME NEW c
  PROVE  /\ FromProject(c).network = "" /\ FromProject(c).ports = {}
         /\ FromProject(c).cache = "no"
BY DEF FromProject, NoConfig

(* With the project's file nothing is wider than without it. *)
LEMMA ResolveNoWider ==
  ASSUME NEW flags, NEW local, NEW global, NEW detected
  PROVE  NoWider(Resolve(flags, local, global, detected),
                 Resolve(flags, Absent, global, detected))
<1>1. LoadConfig(Absent, global) = global.config
  BY DEF LoadConfig, Absent
<1>2. CASE local.read = "yes"
  <2>1. LoadConfig(local, global) = FromProject(local.config)
    BY <1>2 DEF LoadConfig
  <2> QED
    BY <1>1, <2>1, LocalGivesNothing
       DEF Resolve, NoWider, Merge, FirstSet, Either
<1>3. CASE local.read # "yes"
  <2>1. LoadConfig(local, global) = LoadConfig(Absent, global)
    BY <1>1, <1>3 DEF LoadConfig
  <2> QED
    BY <2>1 DEF Resolve, NoWider
<1> QED
  BY <1>2, <1>3

(* What main has resolved is what the inputs say; they do not change. *)
SettingsResolved == stage # "resolve" => settings = Resolved

(* The settings are resolved once. *)
LEMMA SettingsStay == Spec => []SettingsResolved
<1>1. Init => SettingsResolved
  BY DEF Init, SettingsResolved
<1>2. SettingsResolved /\ [Next]_vars => SettingsResolved'
  <2> SUFFICES ASSUME SettingsResolved, [Next]_vars PROVE SettingsResolved'
    OBVIOUS
  <2>1. CASE ResolveSettings
    BY <2>1 DEF ResolveSettings, SettingsResolved, Resolved, inputVars
  <2>2. ASSUME stage # "resolve", settings' = settings, UNCHANGED inputVars
        PROVE  SettingsResolved'
    BY <2>2 DEF SettingsResolved, Resolved, inputVars
  <2>3. CASE \/ Prepare \/ BuildOptions \/ StartRelays \/ Slept
             \/ StartService \/ Look
    BY <2>2, <2>3 DEF Prepare, BuildOptions, StartRelays, Slept, StartService, Look
  <2>4. ASSUME NEW n \in Helpers, BindHelper(n) \/ ListenHelper(n) \/ HelperExits(n)
        PROVE  SettingsResolved'
    BY <2>4 DEF BindHelper, ListenHelper, HelperExits, SettingsResolved,
                Resolved, inputVars
  <2>5. CASE UNCHANGED vars
    BY <2>5 DEF vars, SettingsResolved, Resolved, inputVars
  <2> QED
    BY <2>1, <2>3, <2>4, <2>5 DEF Next, Sequential
<1> QED
  BY <1>1, <1>2, PTL DEF Spec

(* A project's file never widens the sandbox, for all files, flags and      *)
(* hosts (main.go:264-304).                                                 *)
THEOREM ProjectCannotWidenHolds == Spec => []ProjectCannotWiden
<1>1. SettingsResolved => ProjectCannotWiden
  BY ResolveNoWider DEF SettingsResolved, ProjectCannotWiden, Resolved
<1> QED
  BY <1>1, SettingsStay, PTL

-----------------------------------------------------------------------------
(* The mounts.                                                             *)

(* What is known when the agent is started: its name is one of the nine,   *)
(* and its program was found on one of the hosts.                          *)
Checked ==
  /\ \E i \in Inputs : told = i.told /\ host = i.host
  /\ prepared \in {"yes", "no"}
  /\ stage \notin {"resolve", "failed"} => settings.agent \in Agents
  /\ stage \in Script \cup {"agent"} => host.agent # <<>>

(* Nothing but these checks leads to the agent. *)
LEMMA CheckedHolds == Spec => []Checked
<1>1. Init => Checked
  BY DEF Init, Checked, Script
<1>2. Checked /\ [Next]_vars => Checked'
  <2> SUFFICES ASSUME Checked, [Next]_vars PROVE Checked'
    OBVIOUS
  <2> USE DEF Checked, Script, inputVars
  <2>1. CASE ResolveSettings
    BY <2>1 DEF ResolveSettings, Valid
  <2>2. CASE Prepare
    BY <2>2 DEF Prepare
  <2>3. CASE BuildOptions
    BY <2>3 DEF BuildOptions
  <2>4. CASE StartRelays
    BY <2>4 DEF StartRelays
  <2>5. CASE Slept
    BY <2>5 DEF Slept
  <2>6. CASE StartService
    BY <2>6 DEF StartService
  <2>7. CASE Look
    BY <2>7 DEF Look
  <2>8. ASSUME NEW n \in Helpers, BindHelper(n) \/ ListenHelper(n) \/ HelperExits(n)
        PROVE  Checked'
    BY <2>8 DEF BindHelper, ListenHelper, HelperExits
  <2>9. CASE UNCHANGED vars
    BY <2>9 DEF vars
  <2> QED
    BY <2>1, <2>2, <2>3, <2>4, <2>5, <2>6, <2>7, <2>8, <2>9 DEF Next, Sequential
<1> QED
  BY <1>1, <1>2, PTL DEF Spec

(* No mount hides what an earlier one has put in place, whatever flar is    *)
(* told and wherever the project and the programs are, as long as they are  *)
(* apart from one another and from what is mounted over the home directory  *)
(* (container.go:594-960).                                                  *)
THEOREM InPlaceHolds ==
  ASSUME \A i \in Inputs : Apart(i.host)
  PROVE  Spec => []InPlace
<1>1. Checked => InPlace
  <2> SUFFICES ASSUME Checked, stage = "agent" PROVE InPlace
    BY DEF InPlace
  <2> DEFINE r == settings
  <2>1. PICK i \in Inputs : host = i.host
    BY DEF Checked
  <2>2. host \in Hosts /\ Apart(host) /\ host.agent # <<>> /\ r.agent \in Agents
    BY <2>1, LaunchAssumption DEF Checked, Script
  <2>3. (prepared = "yes") \in BOOLEAN
    OBVIOUS
  <2>4. /\ View(Ops, host.project) = host.project
        /\ View(Ops, host.flar) = host.flar
    BY <2>2, <2>3, ProjectInPlace, FlarInPlace DEF Ops
  <2>5. (Below(<<"usr">>, host.agentReal) => Below(<<"usr">>, host.agent))
          => View(Ops, host.agent) \in {host.agent, host.agentReal}
    BY <2>2, <2>3, AgentInPlace DEF Ops
  <2>6. r.network = "isolated" => View(Ops, <<"run", "flar-net">>) = TempNetDir
    BY <2>2, <2>3, NetInPlace DEF Ops
  <2>7. ASSUME prepared = "yes" PROVE Ops = Mounts(r, host, TRUE)
    <3>1. (prepared = "yes") = TRUE
      BY <2>7
    <3> QED BY <3>1 DEF Ops
  <2>8. UsesSecrets =>
          View(Ops, H(<<".agy-secret">>)) = TempConfig \o <<"agy-secret">>
    BY <2>2, <2>7, SecretInPlace DEF UsesSecrets
  <2>9. prepared = "yes" /\ r.cache = "yes" => View(Ops, H(CacheDir)) = H(CacheDir)
    BY <2>2, <2>7, CacheInPlace
  <2>10. (prepared = "yes" /\ host.has = "yes" /\ host.stored = "yes" /\ host.live = "yes") =>
           \A s \in Sessions(r.agent) : View(Ops, s.at) = s.is
    BY <2>2, <2>7, SessionsInPlace
  <2> QED BY <2>4, <2>5, <2>6, <2>8, <2>9, <2>10 DEF InPlace
<1> QED
  BY <1>1, CheckedHolds, PTL

-----------------------------------------------------------------------------
(* The history of other projects.                                          *)

(* The files of the agents, each by the parts of its path: f is at x in the *)
(* home directory.  Whose it is depends on the name of a slug.              *)
Whose(f, slug) == f.class = IF slug = "own" THEN "own" ELSE "mixed"

ClaudeFile(f, x) ==
  \/ /\ Len(x) = 2 /\ x[1] = ".claude"
     /\ \/ f.class = "config"
        \/ f.class = "mixed" /\ x[2] \in {"history.jsonl", "sessions"}
  \/ Len(x) = 2 /\ x[1] = ".claude.json" /\ f.class = "config"
  \/ /\ Len(x) = 3 /\ x[1] \in {".claude", ".claude.json"}
     /\ x[2] = "projects" /\ Whose(f, x[3])
CodexFile(f, x) ==
  /\ Len(x) = 2 /\ x[1] = ".codex"
  /\ \/ f.class = "config"
     \/ x[2] \in {"sessions", "history.jsonl", "shell_snapshots",
                  "state_5.sqlite", "logs_2.sqlite"}
AgyFile(f, x) ==
  /\ x[1] = ".gemini"
  /\ \/ Len(x) = 2 /\ f.class = "config"
     \/ /\ Len(x) = 3 /\ x[2] = "antigravity-cli"
        /\ x[3] \in {"conversations", "brain", "implicit", "history.jsonl"}
     \/ /\ Len(x) = 4 /\ x[2] = "antigravity-cli" /\ x[3] = "cache"
        /\ x[4] = "last_conversations.json"
     \/ /\ Len(x) = 4 /\ x[2] = "antigravity-cli" /\ x[3] = ".flar"
        /\ Whose(f, x[4])
CopilotFile(f, x) ==
  \/ /\ Len(x) = 2 /\ x[1] = ".copilot"
     /\ f.class = "config" \/ x[2] \in {"session-state", "session-store.db"}
  \/ Len(x) = 3 /\ x[1] = ".config" /\ x[2] = "gh" /\ f.class = "config"
  \/ Len(x) = 3 /\ x[1] = ".copilot" /\ x[2] = ".flar" /\ Whose(f, x[3])
ReasonixFile(f, x) ==
  /\ x[1] = ".reasonix"
  /\ \/ Len(x) = 2 /\ (f.class = "config" \/ x[2] = "sessions")
     \/ Len(x) = 3 /\ x[2] = "projects" /\ Whose(f, x[3])
KimiFile(f, x) ==
  /\ Len(x) = 2 /\ x[1] = ".kimi-code"
  /\ \/ f.class = "config"
     \/ x[2] \in {"sessions", "session_index.jsonl", "user-history",
                  "workspaces.json", "logs"}
PoolFile(f, x) ==
  \/ Len(x) = 3 /\ x[1] = ".config" /\ x[2] = "poolside" /\ f.class = "config"
  \/ Len(x) = 4 /\ x[1] = ".local" /\ x[2] = "state" /\ x[3] = "poolside"
QwenFile(f, x) ==
  /\ x[1] = ".qwen"
  /\ \/ Len(x) = 2 /\ (f.class = "config" \/ x[2] \in {"tmp", "usage"})
     \/ Len(x) = 3 /\ x[2] = "projects" /\ Whose(f, x[3])
MimoFile(f, x) ==
  \/ Len(x) = 3 /\ x[1] = ".config" /\ x[2] = "mimocode" /\ f.class = "config"
  \/ /\ Len(x) = 4 /\ x[1] = ".local" /\ x[2] = "share" /\ x[3] = "mimocode"
     /\ f.class = "config" \/ x[4] \in {"mimocode.db", "log", "snapshot"}
  \/ /\ Len(x) = 6 /\ x[1] = ".local" /\ x[2] = "share" /\ x[3] = "mimocode"
     /\ x[4] = "memory" /\ x[5] = "projects" /\ Whose(f, x[6])
StoreFile(f, x) ==
  /\ Len(x) = 5 /\ x[1] = ".local" /\ x[2] = "state" /\ x[3] = "flar"
  /\ x[4] = f.agent /\ Whose(f, x[5])

FileAt(f, x) ==
  \/ f.agent = "claude" /\ ClaudeFile(f, x)
  \/ f.agent = "codex" /\ CodexFile(f, x)
  \/ f.agent = "agy" /\ AgyFile(f, x)
  \/ f.agent = "copilot" /\ CopilotFile(f, x)
  \/ f.agent = "reasonix" /\ ReasonixFile(f, x)
  \/ f.agent = "kimi" /\ KimiFile(f, x)
  \/ f.agent = "pool" /\ PoolFile(f, x)
  \/ f.agent = "qwen" /\ QwenFile(f, x)
  \/ f.agent = "mimo" /\ MimoFile(f, x)
  \/ f.agent \in {"codex", "kimi", "pool", "mimo"} /\ StoreFile(f, x)

(* The names of files can be parts of a path. *)
LEMMA FileNameParts ==
  /\ FileNames \subseteq Literals /\ Literals \subseteq Part
  /\ {"other", "own"} \subseteq Literals
BY DEF Literals, FileNames, Part

(* f is at x, which is the name n in the directory dir. *)
Ends(f, x, dir, n) ==
  /\ f.path = H(x) /\ Len(x) = Len(dir) + 1
  /\ \A i \in 1..Len(dir) : x[i] = dir[i]
  /\ x[Len(dir) + 1] = n

(* A file that is a name in a directory. *)
LEMMA NameEnds ==
  ASSUME NEW agent, NEW dir \in Path, NEW n \in Literals, NEW class
  PROVE  LET f == F(agent, dir \o <<n>>, class)
         IN  /\ f.agent = agent /\ f.class = class
             /\ \E x \in Path : Ends(f, x, dir, n)
<1> DEFINE x == dir \o <<n>>
<1>1. /\ x \in Path /\ Len(x) = Len(dir) + 1
      /\ \A i \in 1..Len(dir) : x[i] = dir[i]
      /\ x[Len(dir) + 1] = n
  BY NameIn
<1> HIDE DEF x
<1>2. Ends(F(agent, x, class), x, dir, n)
  BY <1>1 DEF Ends, F
<1> QED BY <1>1, <1>2 DEF F, x

(* The same for a set of files of one kind. *)
LEMMA AllEnds ==
  ASSUME NEW agent, NEW dir \in Path, NEW names, names \subseteq Literals,
         NEW class, NEW f \in All(agent, dir, names, class)
  PROVE  /\ f.agent = agent /\ f.class = class
         /\ \E n \in names : \E x \in Path : Ends(f, x, dir, n)
<1>1. PICK n \in names : f = F(agent, dir \o <<n>>, class)
  BY DEF All
<1>2. n \in Literals
  OBVIOUS
<1>3. \E x \in Path : Ends(f, x, dir, n)
  BY <1>1, <1>2, NameEnds
<1> QED BY <1>1, <1>2, <1>3 DEF F

(* The same for what an agent keeps by project. *)
LEMMA PerProjectEnds ==
  ASSUME NEW agent, NEW dir \in Path, NEW f \in PerProject(agent, dir)
  PROVE  /\ f.agent = agent
         /\ \E n : Whose(f, n) /\ \E x \in Path : Ends(f, x, dir, n)
<1>1. PICK n \in {"own", "other"} :
        f = F(agent, dir \o <<n>>, IF n = "own" THEN "own" ELSE "mixed")
  BY DEF PerProject, Slugs, Own
<1>2. n \in Literals
  BY FileNameParts
<1> QED BY <1>1, <1>2, NameEnds DEF Whose

(* What a name in a directory of one, two or three parts looks like. *)
LEMMA DirOne ==
  ASSUME NEW a \in Literals
  PROVE  /\ <<a>> \in Path
         /\ \A f, x, n : Ends(f, x, <<a>>, n) =>
              f.path = H(x) /\ Len(x) = 2 /\ x[1] = a /\ x[2] = n
<1>1. <<a>> \in Path
  BY AgentPaths
<1> QED BY <1>1 DEF Ends

LEMMA DirTwo ==
  ASSUME NEW a \in Literals, NEW b \in Literals
  PROVE  /\ <<a, b>> \in Path
         /\ \A f, x, n : Ends(f, x, <<a, b>>, n) =>
              f.path = H(x) /\ Len(x) = 3 /\ x[1] = a /\ x[2] = b /\ x[3] = n
<1>1. <<a, b>> \in Path
  BY AgentPaths
<1> QED BY <1>1 DEF Ends

LEMMA DirThree ==
  ASSUME NEW a \in Literals, NEW b \in Literals, NEW c \in Literals
  PROVE  /\ <<a, b, c>> \in Path
         /\ \A f, x, n : Ends(f, x, <<a, b, c>>, n) =>
              /\ f.path = H(x) /\ Len(x) = 4
              /\ x[1] = a /\ x[2] = b /\ x[3] = c /\ x[4] = n
<1>1. <<a, b, c>> \in Path
  BY AgentPaths
<1> QED BY <1>1 DEF Ends

(* So files of such directories are known by their parts. *)
LEMMA AllInOne ==
  ASSUME NEW a \in Literals, NEW agent, NEW class,
         NEW names, names \subseteq Literals,
         NEW f \in All(agent, <<a>>, names, class)
  PROVE  /\ f.agent = agent /\ f.class = class
         /\ \E x \in Path : /\ f.path = H(x) /\ Len(x) = 2
                           /\ x[1] = a /\ x[2] \in names
<1> DEFINE dir == <<a>>
<1>1. dir \in Path /\ f \in All(agent, dir, names, class)
  BY DirOne
<1> HIDE DEF dir
<1>2. /\ f.agent = agent /\ f.class = class
      /\ \E n \in names : \E x \in Path : Ends(f, x, dir, n)
  BY <1>1, AllEnds
<1>3. PICK x \in Path : \E n \in names : Ends(f, x, dir, n)
  BY <1>2
<1> QED BY <1>2, <1>3, DirOne DEF dir

LEMMA AllInTwo ==
  ASSUME NEW a \in Literals, NEW b \in Literals, NEW agent, NEW class,
         NEW names, names \subseteq Literals,
         NEW f \in All(agent, <<a, b>>, names, class)
  PROVE  /\ f.agent = agent /\ f.class = class
         /\ \E x \in Path : /\ f.path = H(x) /\ Len(x) = 3
                           /\ x[1] = a /\ x[2] = b /\ x[3] \in names
<1> DEFINE dir == <<a, b>>
<1>1. dir \in Path /\ f \in All(agent, dir, names, class)
  BY DirTwo
<1> HIDE DEF dir
<1>2. /\ f.agent = agent /\ f.class = class
      /\ \E n \in names : \E x \in Path : Ends(f, x, dir, n)
  BY <1>1, AllEnds
<1>3. PICK x \in Path : \E n \in names : Ends(f, x, dir, n)
  BY <1>2
<1> QED BY <1>2, <1>3, DirTwo DEF dir

LEMMA PerProjectInTwo ==
  ASSUME NEW a \in Literals, NEW b \in Literals, NEW agent,
         NEW f \in PerProject(agent, <<a, b>>)
  PROVE  /\ f.agent = agent
         /\ \E x \in Path : /\ f.path = H(x) /\ Len(x) = 3
                           /\ x[1] = a /\ x[2] = b /\ Whose(f, x[3])
<1> DEFINE dir == <<a, b>>
<1>1. dir \in Path /\ f \in PerProject(agent, dir)
  BY DirTwo
<1> HIDE DEF dir
<1>2. f.agent = agent /\ \E n : Whose(f, n) /\ \E x \in Path : Ends(f, x, dir, n)
  BY <1>1, PerProjectEnds
<1>3. PICK x \in Path : \E n : Whose(f, n) /\ Ends(f, x, dir, n)
  BY <1>2
<1> QED BY <1>2, <1>3, DirTwo DEF dir

LEMMA AllInThree ==
  ASSUME NEW a \in Literals, NEW b \in Literals, NEW c \in Literals,
      NEW agent, NEW class,
         NEW names, names \subseteq Literals,
         NEW f \in All(agent, <<a, b, c>>, names, class)
  PROVE  /\ f.agent = agent /\ f.class = class
         /\ \E x \in Path : /\ f.path = H(x) /\ Len(x) = 4
                           /\ x[1] = a /\ x[2] = b /\ x[3] = c /\ x[4] \in names
<1> DEFINE dir == <<a, b, c>>
<1>1. dir \in Path /\ f \in All(agent, dir, names, class)
  BY DirThree
<1> HIDE DEF dir
<1>2. /\ f.agent = agent /\ f.class = class
      /\ \E n \in names : \E x \in Path : Ends(f, x, dir, n)
  BY <1>1, AllEnds
<1>3. PICK x \in Path : \E n \in names : Ends(f, x, dir, n)
  BY <1>2
<1> QED BY <1>2, <1>3, DirThree DEF dir

(* Short lists of names are paths. *)
LEMMA FileParts ==
  /\ \A x \in Literals : x \in Part
  /\ \A x, y \in Literals : <<x, y>> \in Path
  /\ \A x, y, z \in Literals : <<x, y, z>> \in Path
  /\ \A x, y, z, w \in Literals : <<x, y, z, w>> \in Path
BY AgentPaths, TuplePaths

(* A path of two parts after another one. *)
LEMMA TwoAndTwo ==
  ASSUME NEW d \in Path, NEW e \in Path, Len(d) = 2, Len(e) = 2
  PROVE  /\ d \o e \in Path /\ Len(d \o e) = 4
         /\ \A i \in 1..4 : (d \o e)[i] = IF i <= 2 THEN d[i] ELSE e[i - 2]
<1> DEFINE c == d \o e
<1>1. /\ c \in Path /\ Len(c) = Len(d) + Len(e)
      /\ \A i \in 1..(Len(d) + Len(e)) :
           c[i] = IF i <= Len(d) THEN d[i] ELSE e[i - Len(d)]
  BY ConcatParts
<1> HIDE DEF c
<1>2. /\ Len(c) = 4
      /\ \A i \in 1..4 : c[i] = IF i <= 2 THEN d[i] ELSE e[i - 2]
  BY <1>1
<1> QED BY <1>1, <1>2 DEF c

(* f is where FileAt says. *)
Placed(f) == \E x \in Path : f.path = H(x) /\ FileAt(f, x)

(* Each agent's files are where FileAt says. *)
LEMMA ClaudePlaced ==
  ASSUME NEW f,
         f \in All("claude", <<".claude">>,
                   {"settings.json", "plugins"}, "config")
               \cup All("claude", <<".claude">>,
                        {"history.jsonl", "sessions"}, "mixed")
               \cup PerProject("claude", <<".claude", "projects">>)
               \cup {F("claude", <<".claude.json", "account">>, "config")}
               \cup PerProject("claude", <<".claude.json", "projects">>)
  PROVE  Placed(f)
<1>1. CASE f \in All("claude", <<".claude">>,
                     {"settings.json", "plugins"}, "config")
  <2> DEFINE names == {"settings.json", "plugins"}
  <2>1. names \subseteq Literals
    BY LiteralNames, FileNameParts DEF FileNames
  <2> HIDE DEF names
  <2>2. /\ f.agent = "claude" /\ f.class = "config"
        /\ \E x \in Path : /\ f.path = H(x) /\ Len(x) = 2
                          /\ x[1] = ".claude" /\ x[2] \in names
    BY <1>1, <2>1, AllInOne, LiteralNames DEF names
  <2> QED BY <2>2 DEF Placed, FileAt, ClaudeFile, names
<1>2. CASE f \in All("claude", <<".claude">>,
                     {"history.jsonl", "sessions"}, "mixed")
  <2> DEFINE names == {"history.jsonl", "sessions"}
  <2>1. names \subseteq Literals
    BY LiteralNames, FileNameParts DEF FileNames
  <2> HIDE DEF names
  <2>2. /\ f.agent = "claude" /\ f.class = "mixed"
        /\ \E x \in Path : /\ f.path = H(x) /\ Len(x) = 2
                          /\ x[1] = ".claude" /\ x[2] \in names
    BY <1>2, <2>1, AllInOne, LiteralNames DEF names
  <2> QED BY <2>2 DEF Placed, FileAt, ClaudeFile, names
<1>3. CASE f \in PerProject("claude", <<".claude", "projects">>)
  <2> QED BY <1>3, PerProjectInTwo, LiteralNames DEF Placed, FileAt, ClaudeFile
<1>4. CASE f \in {F("claude", <<".claude.json", "account">>, "config")}
  <2> DEFINE x == <<".claude.json", "account">>
  <2>1. x \in Path /\ Len(x) = 2 /\ x[1] = ".claude.json" /\ x[2] = "account"
    BY FileParts, LiteralNames, FileNameParts DEF FileNames
  <2>2. f.path = H(x) /\ f.agent = "claude" /\ f.class = "config"
    BY <1>4 DEF F
  <2> HIDE DEF x
  <2> QED BY <2>1, <2>2 DEF Placed, FileAt, ClaudeFile
<1>5. CASE f \in PerProject("claude", <<".claude.json", "projects">>)
  <2> QED BY <1>5, PerProjectInTwo, LiteralNames DEF Placed, FileAt, ClaudeFile
<1> QED BY <1>1, <1>2, <1>3, <1>4, <1>5

LEMMA CodexPlaced ==
  ASSUME NEW f,
         f \in {F("codex", <<".codex", "auth.json">>, "config")}
               \cup All("codex", <<".codex">>,
                        {"sessions", "history.jsonl", "shell_snapshots",
                         "state_5.sqlite", "logs_2.sqlite"}, "mixed")
  PROVE  Placed(f)
<1>1. CASE f \in {F("codex", <<".codex", "auth.json">>, "config")}
  <2> DEFINE x == <<".codex", "auth.json">>
  <2>1. x \in Path /\ Len(x) = 2 /\ x[1] = ".codex" /\ x[2] = "auth.json"
    BY FileParts, LiteralNames, FileNameParts DEF FileNames
  <2>2. f.path = H(x) /\ f.agent = "codex" /\ f.class = "config"
    BY <1>1 DEF F
  <2> HIDE DEF x
  <2> QED BY <2>1, <2>2 DEF Placed, FileAt, CodexFile
<1>2. CASE f \in All("codex", <<".codex">>,
                     {"sessions", "history.jsonl", "shell_snapshots",
                      "state_5.sqlite", "logs_2.sqlite"}, "mixed")
  <2> DEFINE names == {"sessions", "history.jsonl", "shell_snapshots",
                       "state_5.sqlite", "logs_2.sqlite"}
  <2>1. names \subseteq Literals
    BY LiteralNames, FileNameParts DEF FileNames
  <2> HIDE DEF names
  <2>2. /\ f.agent = "codex" /\ f.class = "mixed"
        /\ \E x \in Path : /\ f.path = H(x) /\ Len(x) = 2
                          /\ x[1] = ".codex" /\ x[2] \in names
    BY <1>2, <2>1, AllInOne, LiteralNames DEF names
  <2> QED BY <2>2 DEF Placed, FileAt, CodexFile, names
<1> QED BY <1>1, <1>2

LEMMA CopilotPlaced ==
  ASSUME NEW f,
         f \in {F("copilot", <<".copilot", "config.json">>, "config")}
               \cup {F("copilot", <<".config", "gh", "hosts.yml">>, "config")}
               \cup All("copilot", <<".copilot">>,
                        {"session-state", "session-store.db"}, "mixed")
               \cup PerProject("copilot", <<".copilot", ".flar">>)
  PROVE  Placed(f)
<1>1. CASE f \in {F("copilot", <<".copilot", "config.json">>, "config")}
  <2> DEFINE x == <<".copilot", "config.json">>
  <2>1. x \in Path /\ Len(x) = 2 /\ x[1] = ".copilot" /\ x[2] = "config.json"
    BY FileParts, LiteralNames, FileNameParts DEF FileNames
  <2>2. f.path = H(x) /\ f.agent = "copilot" /\ f.class = "config"
    BY <1>1 DEF F
  <2> HIDE DEF x
  <2> QED BY <2>1, <2>2 DEF Placed, FileAt, CopilotFile
<1>2. CASE f \in {F("copilot", <<".config", "gh", "hosts.yml">>, "config")}
  <2> DEFINE x == <<".config", "gh", "hosts.yml">>
  <2>1. x \in Path /\ Len(x) = 3 /\ x[1] = ".config" /\ x[2] = "gh"
        /\ x[3] = "hosts.yml"
    BY FileParts, LiteralNames, FileNameParts DEF FileNames
  <2>2. f.path = H(x) /\ f.agent = "copilot" /\ f.class = "config"
    BY <1>2 DEF F
  <2> HIDE DEF x
  <2> QED BY <2>1, <2>2 DEF Placed, FileAt, CopilotFile
<1>3. CASE f \in All("copilot", <<".copilot">>,
                     {"session-state", "session-store.db"}, "mixed")
  <2> DEFINE names == {"session-state", "session-store.db"}
  <2>1. names \subseteq Literals
    BY LiteralNames, FileNameParts DEF FileNames
  <2> HIDE DEF names
  <2>2. /\ f.agent = "copilot" /\ f.class = "mixed"
        /\ \E x \in Path : /\ f.path = H(x) /\ Len(x) = 2
                          /\ x[1] = ".copilot" /\ x[2] \in names
    BY <1>3, <2>1, AllInOne, LiteralNames DEF names
  <2> QED BY <2>2 DEF Placed, FileAt, CopilotFile, names
<1>4. CASE f \in PerProject("copilot", <<".copilot", ".flar">>)
  <2> QED BY <1>4, PerProjectInTwo, LiteralNames DEF Placed, FileAt, CopilotFile
<1> QED BY <1>1, <1>2, <1>3, <1>4

LEMMA ReasonixPlaced ==
  ASSUME NEW f,
         f \in {F("reasonix", <<".reasonix", "config.toml">>, "config")}
               \cup {F("reasonix", <<".reasonix", "sessions">>, "mixed")}
               \cup PerProject("reasonix", <<".reasonix", "projects">>)
  PROVE  Placed(f)
<1>1. CASE f \in {F("reasonix", <<".reasonix", "config.toml">>, "config")}
  <2> DEFINE x == <<".reasonix", "config.toml">>
  <2>1. x \in Path /\ Len(x) = 2 /\ x[1] = ".reasonix" /\ x[2] = "config.toml"
    BY FileParts, LiteralNames, FileNameParts DEF FileNames
  <2>2. f.path = H(x) /\ f.agent = "reasonix" /\ f.class = "config"
    BY <1>1 DEF F
  <2> HIDE DEF x
  <2> QED BY <2>1, <2>2 DEF Placed, FileAt, ReasonixFile
<1>2. CASE f \in {F("reasonix", <<".reasonix", "sessions">>, "mixed")}
  <2> DEFINE x == <<".reasonix", "sessions">>
  <2>1. x \in Path /\ Len(x) = 2 /\ x[1] = ".reasonix" /\ x[2] = "sessions"
    BY FileParts, LiteralNames, FileNameParts DEF FileNames
  <2>2. f.path = H(x) /\ f.agent = "reasonix" /\ f.class = "mixed"
    BY <1>2 DEF F
  <2> HIDE DEF x
  <2> QED BY <2>1, <2>2 DEF Placed, FileAt, ReasonixFile
<1>3. CASE f \in PerProject("reasonix", <<".reasonix", "projects">>)
  <2> QED BY <1>3, PerProjectInTwo, LiteralNames DEF Placed, FileAt, ReasonixFile
<1> QED BY <1>1, <1>2, <1>3

LEMMA KimiPlaced ==
  ASSUME NEW f,
         f \in All("kimi", <<".kimi-code">>,
                   {"config.toml", "credentials", "oauth"}, "config")
               \cup All("kimi", <<".kimi-code">>,
                        {"sessions", "session_index.jsonl", "user-history",
                         "workspaces.json", "logs"}, "mixed")
  PROVE  Placed(f)
<1>1. CASE f \in All("kimi", <<".kimi-code">>,
                     {"config.toml", "credentials", "oauth"}, "config")
  <2> DEFINE names == {"config.toml", "credentials", "oauth"}
  <2>1. names \subseteq Literals
    BY LiteralNames, FileNameParts DEF FileNames
  <2> HIDE DEF names
  <2>2. /\ f.agent = "kimi" /\ f.class = "config"
        /\ \E x \in Path : /\ f.path = H(x) /\ Len(x) = 2
                          /\ x[1] = ".kimi-code" /\ x[2] \in names
    BY <1>1, <2>1, AllInOne, LiteralNames DEF names
  <2> QED BY <2>2 DEF Placed, FileAt, KimiFile, names
<1>2. CASE f \in All("kimi", <<".kimi-code">>,
                     {"sessions", "session_index.jsonl", "user-history",
                      "workspaces.json", "logs"}, "mixed")
  <2> DEFINE names == {"sessions", "session_index.jsonl", "user-history",
                       "workspaces.json", "logs"}
  <2>1. names \subseteq Literals
    BY LiteralNames, FileNameParts DEF FileNames
  <2> HIDE DEF names
  <2>2. /\ f.agent = "kimi" /\ f.class = "mixed"
        /\ \E x \in Path : /\ f.path = H(x) /\ Len(x) = 2
                          /\ x[1] = ".kimi-code" /\ x[2] \in names
    BY <1>2, <2>1, AllInOne, LiteralNames DEF names
  <2> QED BY <2>2 DEF Placed, FileAt, KimiFile, names
<1> QED BY <1>1, <1>2

LEMMA PoolPlaced ==
  ASSUME NEW f,
         f \in {F("pool", <<".config", "poolside", "settings.yaml">>, "config")}
               \cup All("pool", <<".local", "state", "poolside">>,
                        {"sessions", "trajectories"}, "mixed")
  PROVE  Placed(f)
<1>1. CASE f \in {F("pool", <<".config", "poolside", "settings.yaml">>, "config")}
  <2> DEFINE x == <<".config", "poolside", "settings.yaml">>
  <2>1. x \in Path /\ Len(x) = 3 /\ x[1] = ".config" /\ x[2] = "poolside"
        /\ x[3] = "settings.yaml"
    BY FileParts, LiteralNames, FileNameParts DEF FileNames
  <2>2. f.path = H(x) /\ f.agent = "pool" /\ f.class = "config"
    BY <1>1 DEF F
  <2> HIDE DEF x
  <2> QED BY <2>1, <2>2 DEF Placed, FileAt, PoolFile
<1>2. CASE f \in All("pool", <<".local", "state", "poolside">>,
                     {"sessions", "trajectories"}, "mixed")
  <2> DEFINE names == {"sessions", "trajectories"}
  <2>1. names \subseteq Literals
    BY LiteralNames, FileNameParts DEF FileNames
  <2>2. f \in All("pool", <<".local", "state", "poolside">>, names, "mixed")
    BY <1>2
  <2>3. ".local" \in Literals /\ "state" \in Literals
        /\ "poolside" \in Literals
    BY LiteralNames
  <2> HIDE DEF names
  <2>4. /\ f.agent = "pool" /\ f.class = "mixed"
        /\ \E x \in Path : /\ f.path = H(x) /\ Len(x) = 4
                          /\ x[1] = ".local" /\ x[2] = "state"
                          /\ x[3] = "poolside" /\ x[4] \in names
    BY <2>1, <2>2, <2>3, AllInThree
  <2> QED BY <2>4 DEF Placed, FileAt, PoolFile, names
<1> QED BY <1>1, <1>2

LEMMA QwenPlaced ==
  ASSUME NEW f,
         f \in All("qwen", <<".qwen">>, {"settings.json", "skills"}, "config")
               \cup All("qwen", <<".qwen">>, {"tmp", "usage"}, "mixed")
               \cup PerProject("qwen", <<".qwen", "projects">>)
  PROVE  Placed(f)
<1>1. CASE f \in All("qwen", <<".qwen">>,
                     {"settings.json", "skills"}, "config")
  <2> DEFINE names == {"settings.json", "skills"}
  <2>1. names \subseteq Literals
    BY LiteralNames, FileNameParts DEF FileNames
  <2> HIDE DEF names
  <2>2. /\ f.agent = "qwen" /\ f.class = "config"
        /\ \E x \in Path : /\ f.path = H(x) /\ Len(x) = 2
                          /\ x[1] = ".qwen" /\ x[2] \in names
    BY <1>1, <2>1, AllInOne, LiteralNames DEF names
  <2> QED BY <2>2 DEF Placed, FileAt, QwenFile, names
<1>2. CASE f \in All("qwen", <<".qwen">>, {"tmp", "usage"}, "mixed")
  <2> DEFINE names == {"tmp", "usage"}
  <2>1. names \subseteq Literals
    BY LiteralNames, FileNameParts DEF FileNames
  <2> HIDE DEF names
  <2>2. /\ f.agent = "qwen" /\ f.class = "mixed"
        /\ \E x \in Path : /\ f.path = H(x) /\ Len(x) = 2
                          /\ x[1] = ".qwen" /\ x[2] \in names
    BY <1>2, <2>1, AllInOne, LiteralNames DEF names
  <2> QED BY <2>2 DEF Placed, FileAt, QwenFile, names
<1>3. CASE f \in PerProject("qwen", <<".qwen", "projects">>)
  <2> QED BY <1>3, PerProjectInTwo, LiteralNames DEF Placed, FileAt, QwenFile
<1> QED BY <1>1, <1>2, <1>3

LEMMA MimoPlaced ==
  ASSUME NEW f,
         f \in {F("mimo", <<".config", "mimocode", "config.json">>, "config")}
               \cup {F("mimo", <<".local", "share", "mimocode", "auth.json">>, "config")}
               \cup All("mimo", <<".local", "share", "mimocode">>,
                        {"mimocode.db", "log", "snapshot"}, "mixed")
  PROVE  Placed(f)
<1>1. CASE f \in {F("mimo", <<".config", "mimocode", "config.json">>, "config")}
  <2> DEFINE x == <<".config", "mimocode", "config.json">>
  <2>1. x \in Path /\ Len(x) = 3 /\ x[1] = ".config" /\ x[2] = "mimocode"
        /\ x[3] = "config.json"
    BY FileParts, LiteralNames, FileNameParts DEF FileNames
  <2>2. f.path = H(x) /\ f.agent = "mimo" /\ f.class = "config"
    BY <1>1 DEF F
  <2> HIDE DEF x
  <2> QED BY <2>1, <2>2 DEF Placed, FileAt, MimoFile
<1>2. CASE f \in {F("mimo", <<".local", "share", "mimocode", "auth.json">>, "config")}
  <2> DEFINE x == <<".local", "share", "mimocode", "auth.json">>
  <2>1. x \in Path /\ Len(x) = 4 /\ x[1] = ".local" /\ x[2] = "share"
        /\ x[3] = "mimocode" /\ x[4] = "auth.json"
    BY FileParts, LiteralNames, FileNameParts DEF FileNames
  <2>2. f.path = H(x) /\ f.agent = "mimo" /\ f.class = "config"
    BY <1>2 DEF F
  <2> HIDE DEF x
  <2> QED BY <2>1, <2>2 DEF Placed, FileAt, MimoFile
<1>3. CASE f \in All("mimo", <<".local", "share", "mimocode">>,
                     {"mimocode.db", "log", "snapshot"}, "mixed")
  <2> DEFINE names == {"mimocode.db", "log", "snapshot"}
  <2>1. names \subseteq Literals
    BY LiteralNames, FileNameParts DEF FileNames
  <2>2. f \in All("mimo", <<".local", "share", "mimocode">>, names, "mixed")
    BY <1>3
  <2>3. ".local" \in Literals /\ "share" \in Literals
        /\ "mimocode" \in Literals
    BY LiteralNames
  <2> HIDE DEF names
  <2>4. /\ f.agent = "mimo" /\ f.class = "mixed"
        /\ \E x \in Path : /\ f.path = H(x) /\ Len(x) = 4
                          /\ x[1] = ".local" /\ x[2] = "share"
                          /\ x[3] = "mimocode" /\ x[4] \in names
    BY <2>1, <2>2, <2>3, AllInThree
  <2> QED BY <2>4 DEF Placed, FileAt, MimoFile, names
<1> QED BY <1>1, <1>2, <1>3

(* agy's history, which its own directory of stores is among. *)
LEMMA AgyPlaced ==
  ASSUME NEW f,
         f \in {F("agy", <<".gemini", "settings.json">>, "config")}
               \cup All("agy", AgyDir, AgyStoreNames, "mixed")
               \cup {F("agy", AgyDir \o <<"cache", "last_conversations.json">>, "mixed")}
               \cup PerProject("agy", AgyDir \o <<".flar">>)
  PROVE  Placed(f)
<1>1. CASE f \in {F("agy", <<".gemini", "settings.json">>, "config")}
  <2> DEFINE x == <<".gemini", "settings.json">>
  <2>1. x \in Path /\ Len(x) = 2 /\ x[1] = ".gemini"
    BY FileParts, LiteralNames, FileNameParts DEF FileNames
  <2>2. f.path = H(x) /\ f.agent = "agy" /\ f.class = "config"
    BY <1>1 DEF F
  <2> HIDE DEF x
  <2> QED BY <2>1, <2>2 DEF Placed, FileAt, AgyFile
<1>2. CASE f \in All("agy", AgyDir, AgyStoreNames, "mixed")
  <2>1. AgyStoreNames \subseteq Literals
    BY LiteralNames DEF AgyStoreNames
  <2>2. /\ f.agent = "agy"
        /\ \E x \in Path : /\ f.path = H(x) /\ Len(x) = 3
                          /\ x[1] = ".gemini" /\ x[2] = "antigravity-cli"
                          /\ x[3] \in AgyStoreNames
    BY <1>2, <2>1, AllInTwo, LiteralNames DEF AgyDir
  <2> QED BY <2>2 DEF Placed, FileAt, AgyFile, AgyStoreNames
<1>3. CASE f \in {F("agy", AgyDir \o <<"cache", "last_conversations.json">>, "mixed")}
  <2> DEFINE last == <<"cache", "last_conversations.json">>
             x == AgyDir \o last
  <2>1. /\ last \in Path /\ Len(last) = 2
        /\ last[1] = "cache" /\ last[2] = "last_conversations.json"
    BY FileParts, LiteralNames
  <2>2. /\ AgyDir \in Path /\ Len(AgyDir) = 2
        /\ AgyDir[1] = ".gemini" /\ AgyDir[2] = "antigravity-cli"
    BY FixedPaths DEF AgyDir
  <2> HIDE DEF last
  <2>3. /\ x \in Path /\ Len(x) = 4
        /\ \A i \in 1..4 : x[i] = IF i <= 2 THEN AgyDir[i] ELSE last[i - 2]
    BY <2>1, <2>2, TwoAndTwo
  <2>4. f.path = H(x) /\ f.agent = "agy"
    BY <1>3 DEF F, last
  <2> HIDE DEF x
  <2>5. /\ x[1] = ".gemini" /\ x[2] = "antigravity-cli"
        /\ x[3] = "cache" /\ x[4] = "last_conversations.json"
    BY <2>1, <2>2, <2>3
  <2> QED BY <2>3, <2>4, <2>5 DEF Placed, FileAt, AgyFile
<1>4. CASE f \in PerProject("agy", AgyDir \o <<".flar">>)
  <2> DEFINE dir == AgyDir \o <<".flar">>
  <2>1. /\ AgyDir \in Path /\ Len(AgyDir) = 2
        /\ AgyDir[1] = ".gemini" /\ AgyDir[2] = "antigravity-cli"
    BY FixedPaths DEF AgyDir
  <2>2. /\ dir \in Path /\ Len(dir) = Len(AgyDir) + 1
        /\ \A i \in 1..Len(AgyDir) : dir[i] = AgyDir[i]
        /\ dir[Len(AgyDir) + 1] = ".flar"
    <3>1. ".flar" \in Literals
      BY LiteralNames
    <3> QED BY <2>1, <3>1, NameIn
  <2>3. f \in PerProject("agy", dir)
    BY <1>4
  <2> HIDE DEF dir
  <2>4. /\ Len(dir) = 3 /\ dir[1] = ".gemini" /\ dir[2] = "antigravity-cli"
        /\ dir[3] = ".flar"
    BY <2>1, <2>2
  <2>5. f.agent = "agy" /\ \E n : Whose(f, n) /\ \E x \in Path : Ends(f, x, dir, n)
    BY <2>2, <2>3, PerProjectEnds
  <2>6. PICK x \in Path : \E n : Whose(f, n) /\ Ends(f, x, dir, n)
    BY <2>5
  <2>7. /\ f.path = H(x) /\ Len(x) = 4 /\ x[1] = ".gemini"
        /\ x[2] = "antigravity-cli" /\ x[3] = ".flar" /\ Whose(f, x[4])
    BY <2>4, <2>6 DEF Ends
  <2> QED BY <2>5, <2>7 DEF Placed, FileAt, AgyFile
<1> QED BY <1>1, <1>2, <1>3, <1>4

(* What mimo knows of projects. *)
LEMMA MemoryPlaced ==
  ASSUME NEW f \in PerProject("mimo", <<".local", "share", "mimocode",
                                        "memory", "projects">>)
  PROVE  Placed(f)
<1> DEFINE dir == <<".local", "share", "mimocode", "memory", "projects">>
<1>1. /\ ".local" \in Part /\ "share" \in Part /\ "mimocode" \in Part
      /\ "memory" \in Part /\ "projects" \in Part
  BY FileParts, LiteralNames
<1>2. /\ dir \in Path /\ Len(dir) = 5 /\ dir[1] = ".local" /\ dir[2] = "share"
      /\ dir[3] = "mimocode" /\ dir[4] = "memory" /\ dir[5] = "projects"
  BY <1>1 DEF Path
<1>3. f \in PerProject("mimo", dir)
  OBVIOUS
<1> HIDE DEF dir
<1>4. f.agent = "mimo" /\ \E n : Whose(f, n) /\ \E x \in Path : Ends(f, x, dir, n)
  BY <1>2, <1>3, PerProjectEnds
<1>5. PICK x \in Path : \E n : Whose(f, n) /\ Ends(f, x, dir, n)
  BY <1>4
<1>6. /\ f.path = H(x) /\ Len(x) = 6 /\ x[1] = ".local" /\ x[2] = "share"
      /\ x[3] = "mimocode" /\ x[4] = "memory" /\ x[5] = "projects" /\ Whose(f, x[6])
  BY <1>2, <1>5 DEF Ends
<1> QED BY <1>4, <1>6 DEF Placed, FileAt, MimoFile

(* The stores in flar's own directory. *)
LEMMA StorePlaced ==
  ASSUME NEW a \in {"codex", "kimi", "pool", "mimo"},
         NEW f \in PerProject(a, FlarState \o <<a>>)
  PROVE  Placed(f)
<1> DEFINE dir == FlarState \o <<a>>
<1>1. /\ FlarState \in Path /\ Len(FlarState) = 3 /\ FlarState[1] = ".local"
      /\ FlarState[2] = "state" /\ FlarState[3] = "flar"
  BY FixedPaths DEF FlarState
<1>2. a \in Literals
  BY LiteralNames
<1>3. /\ dir \in Path /\ Len(dir) = Len(FlarState) + 1
      /\ \A i \in 1..Len(FlarState) : dir[i] = FlarState[i]
      /\ dir[Len(FlarState) + 1] = a
  BY <1>1, <1>2, NameIn
<1>4. f \in PerProject(a, dir)
  OBVIOUS
<1> HIDE DEF dir
<1>5. /\ Len(dir) = 4 /\ dir[1] = ".local" /\ dir[2] = "state"
      /\ dir[3] = "flar" /\ dir[4] = a
  BY <1>1, <1>3
<1>6. f.agent = a /\ \E n : Whose(f, n) /\ \E x \in Path : Ends(f, x, dir, n)
  BY <1>3, <1>4, PerProjectEnds
<1>7. PICK x \in Path : \E n : Whose(f, n) /\ Ends(f, x, dir, n)
  BY <1>6
<1>8. /\ f.path = H(x) /\ Len(x) = 5 /\ x[1] = ".local" /\ x[2] = "state"
      /\ x[3] = "flar" /\ x[4] = a /\ Whose(f, x[5])
  BY <1>5, <1>7 DEF Ends
<1> QED BY <1>6, <1>8 DEF Placed, FileAt, StoreFile

(* All of them together. *)
LEMMA HostFilesPlaced == \A f \in HostFiles : Placed(f)
<1> SUFFICES ASSUME NEW f \in HostFiles PROVE Placed(f)
  OBVIOUS
<1> QED BY ClaudePlaced, CodexPlaced, AgyPlaced, CopilotPlaced, ReasonixPlaced,
           KimiPlaced, PoolPlaced, QwenPlaced, MimoPlaced, MemoryPlaced,
           StorePlaced DEF HostFiles, AgyStoreNames

-----------------------------------------------------------------------------
(* f may be seen by the agent, or is shown besides, or the user has it in   *)
(* the project.                                                             *)
Mine(f, agent) == f.agent = agent /\ f.class \in {"config", "own"}
InExposed(f, agent, h) == \E dir \in Exposed(agent, h) : Below(dir, f.path)
Open(src, r, h) ==
  src \in Path /\ \A f \in HostFiles :
    Below(src, f.path) => \/ Mine(f, r.agent) \/ InExposed(f, r.agent, h)
                          \/ Below(h.project, f.path)

(* Which agent's files are below a name in the home directory. *)
LEMMA FileOwners ==
  ASSUME NEW f, NEW x, FileAt(f, x)
  PROVE  /\ x[1] \in {".claude", ".claude.json"} => f.agent = "claude" /\ ClaudeFile(f, x)
         /\ x[1] = ".codex" => f.agent = "codex" /\ CodexFile(f, x)
         /\ x[1] = ".gemini" => f.agent = "agy" /\ AgyFile(f, x)
         /\ x[1] = ".copilot" => f.agent = "copilot" /\ CopilotFile(f, x)
         /\ x[1] = ".reasonix" => f.agent = "reasonix" /\ ReasonixFile(f, x)
         /\ x[1] = ".kimi-code" => f.agent = "kimi" /\ KimiFile(f, x)
         /\ x[1] = ".qwen" => f.agent = "qwen" /\ QwenFile(f, x)
         /\ x[1] = ".config" =>
              \/ f.agent = "copilot" /\ CopilotFile(f, x)
              \/ f.agent = "pool" /\ PoolFile(f, x)
              \/ f.agent = "mimo" /\ MimoFile(f, x)
         /\ x[1] = ".local" =>
              \/ f.agent = "pool" /\ PoolFile(f, x)
              \/ f.agent = "mimo" /\ MimoFile(f, x)
              \/ StoreFile(f, x)
         /\ x[1] \in {".claude", ".claude.json", ".codex", ".gemini", ".copilot",
                      ".reasonix", ".kimi-code", ".qwen", ".config", ".local"}
<1>1. ClaudeFile(f, x) => x[1] \in {".claude", ".claude.json"}
  BY DEF ClaudeFile
<1>2. CodexFile(f, x) => x[1] = ".codex"
  BY DEF CodexFile
<1>3. AgyFile(f, x) => x[1] = ".gemini"
  BY DEF AgyFile
<1>4. CopilotFile(f, x) => x[1] \in {".copilot", ".config"}
  BY DEF CopilotFile
<1>5. ReasonixFile(f, x) => x[1] = ".reasonix"
  BY DEF ReasonixFile
<1>6. KimiFile(f, x) => x[1] = ".kimi-code"
  BY DEF KimiFile
<1>7. PoolFile(f, x) => x[1] \in {".config", ".local"}
  BY DEF PoolFile
<1>8. QwenFile(f, x) => x[1] = ".qwen"
  BY DEF QwenFile
<1>9. MimoFile(f, x) => x[1] \in {".config", ".local"}
  BY DEF MimoFile
<1>10. StoreFile(f, x) => x[1] = ".local"
  BY DEF StoreFile
<1> QED
  BY <1>1, <1>2, <1>3, <1>4, <1>5, <1>6, <1>7, <1>8, <1>9, <1>10 DEF FileAt

(* Nothing outside the home directory has a file of an agent. *)
LEMMA OutsideHome ==
  ASSUME NEW src \in Path, Len(src) >= 1, src[1] # "home", NEW r, NEW h
  PROVE  Open(src, r, h)
<1> SUFFICES ASSUME NEW f \in HostFiles PROVE ~Below(src, f.path)
  BY DEF Open
<1>1. PICK x \in Path : f.path = H(x)
  BY HostFilesPlaced DEF Placed
<1>2. H(x) \in Path /\ H(x)[1] = "home" /\ 1 \in 1..Len(src)
  BY HomeFacts DEF Path
<1> QED BY <1>1, <1>2, BelowFacts

(* A place in the home directory whose files are the agent's own. *)
LEMMA InHome ==
  ASSUME NEW d \in Path, NEW r, NEW h,
         \A f, x : /\ x \in Path /\ FileAt(f, x) /\ Len(d) <= Len(x)
                   /\ \A i \in 1..Len(d) : d[i] = x[i]
                   => Mine(f, r.agent)
  PROVE  Open(H(d), r, h)
<1> SUFFICES ASSUME NEW f \in HostFiles, Below(H(d), f.path)
             PROVE  Mine(f, r.agent)
  BY HomeFacts DEF Open
<1>1. PICK x \in Path : f.path = H(x) /\ FileAt(f, x)
  BY HostFilesPlaced DEF Placed
<1>2. Len(d) <= Len(x) /\ \A i \in 1..Len(d) : d[i] = x[i]
  BY <1>1, HomeBelow, BelowFacts
<1> QED BY <1>1, <1>2

(* A directory of the project's sessions. *)
LEMMA ProjectsOpen ==
  ASSUME NEW r, NEW h,
         NEW dir, <<r.agent, dir>> \in {<<"claude", ".claude">>,
                                        <<"reasonix", ".reasonix">>,
                                        <<"qwen", ".qwen">>}
  PROVE  Open(H(<<dir, "projects", Own>>), r, h)
<1> DEFINE d == <<dir, "projects", Own>>
<1>1. d \in Path /\ Len(d) = 3 /\ d[1] = dir /\ d[2] = "projects" /\ d[3] = "own"
  BY FileParts, LiteralNames DEF Own
<1> HIDE DEF d
<1>2. ASSUME NEW f, NEW x \in Path, FileAt(f, x), Len(d) <= Len(x),
             \A i \in 1..Len(d) : d[i] = x[i]
      PROVE  Mine(f, r.agent)
  <2>1. Len(x) >= 3 /\ x[1] = dir /\ x[2] = "projects" /\ x[3] = "own"
    BY <1>1, <1>2
  <2>2. Len(x) \in Nat
    BY DEF Path
  <2> QED BY <1>2, <2>1, <2>2, FileOwners DEF Mine, Whose, ClaudeFile, ReasonixFile, QwenFile
<1> QED BY <1>1, <1>2, InHome DEF d

(* A project's store. *)
LEMMA StateStoreOpen ==
  ASSUME NEW r, r.agent \in {"codex", "kimi", "pool", "mimo"}, NEW h
  PROVE  Open(H(FlarState \o <<r.agent, Own>>), r, h)
<1> DEFINE e == <<r.agent, Own>>
           d == FlarState \o e
<1>1. /\ d \in Path /\ Len(d) = 5 /\ d[1] = ".local" /\ d[2] = "state"
      /\ d[3] = "flar" /\ d[4] = r.agent /\ d[5] = "own"
  <2>1. /\ FlarState \in Path /\ Len(FlarState) = 3 /\ FlarState[1] = ".local"
        /\ FlarState[2] = "state" /\ FlarState[3] = "flar"
    BY FixedPaths DEF FlarState
  <2>2. r.agent \in Literals
    BY LiteralNames
  <2>3. e \in Path /\ Len(e) = 2 /\ e[1] = r.agent /\ e[2] = "own"
    BY <2>2, FileParts, LiteralNames DEF Own
  <2> HIDE DEF e
  <2>4. /\ d \in Path /\ Len(d) = Len(FlarState) + Len(e)
        /\ \A i \in 1..(Len(FlarState) + Len(e)) :
             d[i] = IF i <= Len(FlarState) THEN FlarState[i]
                                           ELSE e[i - Len(FlarState)]
    BY <2>1, <2>3, ConcatProperties DEF Path
  <2> HIDE DEF d
  <2> QED BY <2>1, <2>3, <2>4
<1> HIDE DEF d
<1>2. ASSUME NEW f, NEW x \in Path, FileAt(f, x), Len(d) <= Len(x),
             \A i \in 1..Len(d) : d[i] = x[i]
      PROVE  Mine(f, r.agent)
  <2>1. Len(x) \in Nat /\ Len(x) >= 5 /\ x[1] = ".local" /\ x[2] = "state"
        /\ x[3] = "flar" /\ x[4] = r.agent /\ x[5] = "own"
    BY <1>1, <1>2 DEF Path
  <2> QED BY <1>2, <2>1, FileOwners DEF Mine, Whose, PoolFile, MimoFile, StoreFile
<1> QED BY <1>1, <1>2, InHome DEF d

(* agy and copilot keep their stores in their own directories. *)
LEMMA AgyStoreOpen ==
  ASSUME NEW r, r.agent = "agy", NEW h
  PROVE  Open(H(AgyDir \o <<".flar", Own>>), r, h)
<1> DEFINE e == <<".flar", Own>>
           d == AgyDir \o e
<1>1. /\ d \in Path /\ Len(d) = 4 /\ d[1] = ".gemini"
      /\ d[2] = "antigravity-cli" /\ d[3] = ".flar" /\ d[4] = "own"
  <2>1. /\ AgyDir \in Path /\ Len(AgyDir) = 2
        /\ AgyDir[1] = ".gemini" /\ AgyDir[2] = "antigravity-cli"
    BY FixedPaths DEF AgyDir
  <2>2. e \in Path /\ Len(e) = 2 /\ e[1] = ".flar" /\ e[2] = "own"
    BY FileParts, LiteralNames DEF Own
  <2> HIDE DEF e
  <2>3. /\ d \in Path /\ Len(d) = 4
        /\ \A i \in 1..4 : d[i] = IF i <= 2 THEN AgyDir[i] ELSE e[i - 2]
    BY <2>1, <2>2, TwoAndTwo
  <2> QED BY <2>1, <2>2, <2>3
<1> HIDE DEF d
<1>2. ASSUME NEW f, NEW x \in Path, FileAt(f, x), Len(d) <= Len(x),
             \A i \in 1..Len(d) : d[i] = x[i]
      PROVE  Mine(f, r.agent)
  <2>1. Len(x) \in Nat /\ Len(x) >= 4 /\ x[1] = ".gemini"
        /\ x[2] = "antigravity-cli" /\ x[3] = ".flar" /\ x[4] = "own"
    BY <1>1, <1>2 DEF Path
  <2> QED BY <1>2, <2>1, FileOwners DEF Mine, Whose, AgyFile
<1> QED BY <1>1, <1>2, InHome DEF d

LEMMA CopilotStoreOpen ==
  ASSUME NEW r, r.agent = "copilot", NEW h
  PROVE  Open(H(<<".copilot", ".flar", Own>>), r, h)
<1> DEFINE d == <<".copilot", ".flar", Own>>
<1>1. d \in Path /\ Len(d) = 3 /\ d[1] = ".copilot" /\ d[2] = ".flar" /\ d[3] = "own"
  BY FileParts, LiteralNames DEF Own
<1> HIDE DEF d
<1>2. ASSUME NEW f, NEW x \in Path, FileAt(f, x), Len(d) <= Len(x),
             \A i \in 1..Len(d) : d[i] = x[i]
      PROVE  Mine(f, r.agent)
  <2>1. Len(x) \in Nat /\ Len(x) >= 3 /\ x[1] = ".copilot" /\ x[2] = ".flar"
        /\ x[3] = "own"
    BY <1>1, <1>2 DEF Path
  <2> QED BY <1>2, <2>1, FileOwners DEF Mine, Whose, CopilotFile
<1> QED BY <1>1, <1>2, InHome DEF d

(* The store of the project, wherever the agent has it. *)
LEMMA StoreOpen ==
  ASSUME NEW r, NEW h,
         r.agent \in {"codex", "agy", "copilot", "kimi", "pool", "mimo"}
  PROVE  Open(Store(r.agent), r, h)
BY StateStoreOpen, AgyStoreOpen, CopilotStoreOpen DEF Store

(* kimi's credentials, and what mimo knows of the project. *)
LEMMA CredentialsOpen ==
  ASSUME NEW r, r.agent = "kimi", NEW h, NEW n \in {"credentials", "oauth"}
  PROVE  Open(H(<<".kimi-code", n>>), r, h)
<1> DEFINE d == <<".kimi-code", n>>
<1>1. d \in Path /\ Len(d) = 2 /\ d[1] = ".kimi-code" /\ d[2] = n
  BY FileParts, LiteralNames
<1> HIDE DEF d
<1>2. ASSUME NEW f, NEW x \in Path, FileAt(f, x), Len(d) <= Len(x),
             \A i \in 1..Len(d) : d[i] = x[i]
      PROVE  Mine(f, r.agent)
  <2>1. Len(x) \in Nat /\ Len(x) >= 2 /\ x[1] = ".kimi-code" /\ x[2] = n
    BY <1>1, <1>2 DEF Path
  <2> QED BY <1>2, <2>1, FileOwners DEF Mine, KimiFile
<1> QED BY <1>1, <1>2, InHome DEF d

(* The memory that mimo's database names. *)
LEMMA MemoryOpen ==
  ASSUME NEW r, r.agent = "mimo", NEW h, h.memory \in Slugs
  PROVE  Open(H(MemoryDir(h.memory)), r, h)
<1>1. H(MemoryDir(h.memory)) \in Path
  BY MemoryPaths, HomeFacts
<1>2. h.memory # "no"
  BY DEF Slugs, Own
<1>3. Exposed(r.agent, h) = {H(MemoryDir(h.memory))}
  BY <1>2 DEF Exposed
<1> QED BY <1>1, <1>3 DEF Open, InExposed

(* The cache and the library have no file of any agent. *)
LEMMA NoFileOpen ==
  ASSUME NEW r, NEW h
  PROVE  Open(H(CacheDir), r, h) /\ Open(H(Library), r, h)
<1>1. Open(H(CacheDir), r, h)
  <2>1. CacheDir \in Path /\ Len(CacheDir) = 3 /\ CacheDir[1] = ".cache"
    BY FixedPaths DEF CacheDir
  <2>2. \A f, x : FileAt(f, x) => x[1] # ".cache"
    BY FileOwners
  <2> QED BY <2>1, <2>2, InHome
<1>2. Open(H(Library), r, h)
  <2>1. Library \in Path /\ Len(Library) = 3 /\ Library[1] = ".local"
        /\ Library[2] = "lib"
    BY LibraryPath DEF Library
  <2>2. \A f, x : FileAt(f, x) => ~(x[1] = ".local" /\ x[2] = "lib")
    BY FileOwners DEF PoolFile, MimoFile, StoreFile
  <2> QED BY <2>1, <2>2, InHome
<1> QED BY <1>1, <1>2
-----------------------------------------------------------------------------
(* What is copied is the agent's own configuration, or the project's.      *)
LEMMA Records ==
  ASSUME NEW f \in HostFiles
  PROVE  \E agent, path, class : f = F(agent, path, class)
<1>1. \A agent, dir, names, class : \A g \in All(agent, dir, names, class) :
        \E path : g = F(agent, dir \o path, class)
  BY DEF All
<1>2. \A agent, dir : \A g \in PerProject(agent, dir) :
        \E path, class : g = F(agent, dir \o path, class)
  BY DEF PerProject
<1> QED BY <1>1, <1>2 DEF HostFiles

(* What a copy takes is below its source, in what it takes only, not in
   what it skips. *)
LEMMA CopiedFrom ==
  ASSUME NEW c, NEW root \in Path, c.src = H(root), NEW x \in Path,
         CopiedBy(c, H(x))
  PROVE  LET y == From(root, x)
         IN  /\ y \in Path /\ Len(y) = Len(x) - Len(root)
             /\ Len(root) <= Len(x) /\ Len(root) \in Nat /\ Len(x) \in Nat
             /\ \A i \in 1..Len(root) : x[i] = root[i]
             /\ \A i \in 1..Len(y) : y[i] = x[i + Len(root)]
             /\ \E p \in c.only : Below(p, y)
             /\ \A p \in c.skip : ~Below(p, y)
<1>1. Below(root, x) /\ From(H(root), H(x)) = From(root, x)
  BY HomeBelow DEF CopiedBy
<1>2. /\ \E p \in c.only : Below(p, From(root, x))
      /\ \A p \in c.skip : ~Below(p, From(root, x))
  BY <1>1 DEF CopiedBy
<1>3. /\ From(root, x) \in Path /\ Len(From(root, x)) = Len(x) - Len(root)
      /\ \A i \in 1..(Len(x) - Len(root)) : From(root, x)[i] = x[i + Len(root)]
  BY <1>1, FromFacts
<1>4. Len(root) <= Len(x) /\ \A i \in 1..Len(root) : x[i] = root[i]
  BY <1>1, BelowFacts
<1> QED BY <1>2, <1>3, <1>4 DEF Path

(* So the name that follows the source is not one that is skipped. *)
LEMMA NotSkipped ==
  ASSUME NEW c, NEW root \in Path, c.src = H(root), NEW x \in Path,
         CopiedBy(c, H(x)), Len(x) > Len(root),
         NEW k, k = Len(root) + 1, x[k] \in Literals
  PROVE  <<x[k]>> \notin c.skip
<1> DEFINE n == x[k]
           d == <<n>>
           y == From(root, x)
<1>1. d \in Path /\ Len(d) = 1 /\ d[1] = n
  BY AgentPaths
<1>2. /\ y \in Path /\ Len(y) = Len(x) - Len(root)
      /\ Len(root) \in Nat /\ Len(x) \in Nat
      /\ \A i \in 1..Len(y) : y[i] = x[i + Len(root)]
      /\ \A p \in c.skip : ~Below(p, y)
  BY CopiedFrom
<1> HIDE DEF d, y
<1>3. y[1] = n /\ Len(y) >= 1
  BY <1>2
<1> HIDE DEF n
<1>4. Below(d, y)
  <2>1. y \in Path /\ Len(d) <= Len(y) /\ \A i \in 1..Len(d) : d[i] = y[i]
    BY <1>1, <1>2, <1>3
  <2> QED BY <1>1, <2>1, BelowFacts
<1> QED BY <1>2, <1>4 DEF d, n

(* The same for sources of one, two and three parts. *)
LEMMA ExceptOne ==
  ASSUME NEW u \in Literals, NEW as, NEW names,
         NEW x \in Path, CopiedBy(Except(<<u>>, as, Names(names)), H(x))
  PROVE  /\ Len(x) \in Nat /\ Len(x) >= 1 /\ x[1] = u
         /\ Len(x) > 1 /\ x[2] \in Literals => x[2] \notin names
<1> DEFINE root == <<u>>
           c == Except(root, as, Names(names))
<1>1. root \in Path /\ Len(root) = 1 /\ root[1] = u
  BY FileParts, AgentPaths
<1>2. c.src = H(root) /\ c.skip = Names(names) /\ CopiedBy(c, H(x))
  BY DEF Except
<1> HIDE DEF root, c
<1>3. /\ Len(root) <= Len(x) /\ Len(x) \in Nat
      /\ \A i \in 1..Len(root) : x[i] = root[i]
  BY <1>1, <1>2, CopiedFrom
<1>4. ASSUME Len(x) > 1, x[2] \in Literals PROVE x[2] \notin names
  <2>1. 2 = Len(root) + 1 /\ Len(x) > Len(root)
    BY <1>1, <1>4
  <2>2. <<x[2]>> \notin c.skip
    BY <1>1, <1>2, <1>4, <2>1, NotSkipped
  <2> QED BY <1>2, <2>2 DEF Names
<1> QED BY <1>1, <1>3, <1>4

LEMMA ExceptTwo ==
  ASSUME NEW u \in Literals, NEW v \in Literals, NEW as, NEW names,
         NEW x \in Path, CopiedBy(Except(<<u, v>>, as, Names(names)), H(x))
  PROVE  /\ Len(x) \in Nat /\ Len(x) >= 2 /\ x[1] = u /\ x[2] = v
         /\ Len(x) > 2 /\ x[3] \in Literals => x[3] \notin names
<1> DEFINE root == <<u, v>>
           c == Except(root, as, Names(names))
<1>1. root \in Path /\ Len(root) = 2 /\ root[1] = u /\ root[2] = v
  BY FileParts, AgentPaths
<1>2. c.src = H(root) /\ c.skip = Names(names) /\ CopiedBy(c, H(x))
  BY DEF Except
<1> HIDE DEF root, c
<1>3. /\ Len(root) <= Len(x) /\ Len(x) \in Nat
      /\ \A i \in 1..Len(root) : x[i] = root[i]
  BY <1>1, <1>2, CopiedFrom
<1>4. ASSUME Len(x) > 2, x[3] \in Literals PROVE x[3] \notin names
  <2>1. 3 = Len(root) + 1 /\ Len(x) > Len(root)
    BY <1>1, <1>4
  <2>2. <<x[3]>> \notin c.skip
    BY <1>1, <1>2, <1>4, <2>1, NotSkipped
  <2> QED BY <1>2, <2>2 DEF Names
<1> QED BY <1>1, <1>3, <1>4

LEMMA ExceptThree ==
  ASSUME NEW u \in Literals, NEW v \in Literals, NEW w \in Literals, NEW as, NEW names,
         NEW x \in Path, CopiedBy(Except(<<u, v, w>>, as, Names(names)), H(x))
  PROVE  /\ Len(x) \in Nat /\ Len(x) >= 3 /\ x[1] = u /\ x[2] = v /\ x[3] = w
         /\ Len(x) > 3 /\ x[4] \in Literals => x[4] \notin names
<1> DEFINE root == <<u, v, w>>
           c == Except(root, as, Names(names))
<1>1. root \in Path /\ Len(root) = 3 /\ root[1] = u /\ root[2] = v /\ root[3] = w
  BY FileParts, AgentPaths
<1>2. c.src = H(root) /\ c.skip = Names(names) /\ CopiedBy(c, H(x))
  BY DEF Except
<1> HIDE DEF root, c
<1>3. /\ Len(root) <= Len(x) /\ Len(x) \in Nat
      /\ \A i \in 1..Len(root) : x[i] = root[i]
  BY <1>1, <1>2, CopiedFrom
<1>4. ASSUME Len(x) > 3, x[4] \in Literals PROVE x[4] \notin names
  <2>1. 4 = Len(root) + 1 /\ Len(x) > Len(root)
    BY <1>1, <1>4
  <2>2. <<x[4]>> \notin c.skip
    BY <1>1, <1>2, <1>4, <2>1, NotSkipped
  <2> QED BY <1>2, <2>2 DEF Names
<1> QED BY <1>1, <1>3, <1>4

(* Each agent's copies have only files that are its own. *)
LEMMA CodexCopies ==
  ASSUME NEW f, NEW x \in Path, FileAt(f, x),
         NEW h, NEW c \in CopySpecs(h)["codex"], CopiedBy(c, H(x))
  PROVE  Mine(f, "codex")
<1>1. CASE c = Except(<<".codex">>, ".codex",
                     Names({"sessions", "history.jsonl", "shell_snapshots",
                             "logs_2.sqlite", "goals_1.sqlite", "memories_1.sqlite",
                             "state_5.sqlite", ".flar"}))
  <2> DEFINE names == {"sessions", "history.jsonl", "shell_snapshots",
                       "logs_2.sqlite", "goals_1.sqlite", "memories_1.sqlite",
                       "state_5.sqlite", ".flar"}
  <2>1. c = Except(<<".codex">>, ".codex", Names(names))
    BY <1>1
  <2> HIDE DEF names
  <2>2. /\ Len(x) >= 1 /\ x[1] = ".codex" /\ Len(x) \in Nat
        /\ Len(x) > 1 /\ x[2] \in Literals => x[2] \notin names
    BY <2>1, ExceptOne, LiteralNames
  <2>3. \A n \in names : n \in Literals /\ Len(x) > 1 => x[2] # n
    BY <2>2
  <2>4. \A n \in names \cap Literals : Len(x) > 1 => x[2] # n
    BY <2>3
  <2>5. \A n \in {"sessions", "history.jsonl", "shell_snapshots",
            "logs_2.sqlite", "state_5.sqlite", ".flar"} :
          Len(x) > 1 => x[2] # n
    BY <2>4, LiteralNames, FileNameParts DEF names, FileNames
  <2> QED BY <2>2, <2>5, FileOwners DEF Mine, Whose, CodexFile
<1> QED BY <1>1 DEF CopySpecs

LEMMA CopilotCopies ==
  ASSUME NEW f, NEW x \in Path, FileAt(f, x),
         NEW h, NEW c \in CopySpecs(h)["copilot"], CopiedBy(c, H(x))
  PROVE  Mine(f, "copilot")
<1>1. CASE c = Except(<<".copilot">>, ".copilot",
                     Names({"session-state", "session-store.db", ".flar"}))
  <2> DEFINE names == {"session-state", "session-store.db", ".flar"}
  <2>1. c = Except(<<".copilot">>, ".copilot", Names(names))
    BY <1>1
  <2> HIDE DEF names
  <2>2. /\ Len(x) >= 1 /\ x[1] = ".copilot" /\ Len(x) \in Nat
        /\ Len(x) > 1 /\ x[2] \in Literals => x[2] \notin names
    BY <2>1, ExceptOne, LiteralNames
  <2>3. \A n \in names : n \in Literals /\ Len(x) > 1 => x[2] # n
    BY <2>2
  <2>4. \A n \in names \cap Literals : Len(x) > 1 => x[2] # n
    BY <2>3
  <2>5. \A n \in {"session-state", "session-store.db", ".flar"} :
          Len(x) > 1 => x[2] # n
    BY <2>4, LiteralNames, FileNameParts DEF names, FileNames
  <2> QED BY <2>2, <2>5, FileOwners DEF Mine, Whose, CopilotFile
<1>2. CASE c = Except(<<".config", "gh">>, "gh", {})
  <2>1. c = Except(<<".config", "gh">>, "gh", Names({}))
    BY <1>2 DEF Names
  <2>2. Len(x) >= 2 /\ x[1] = ".config" /\ x[2] = "gh"
    BY <2>1, ExceptTwo, LiteralNames
  <2> QED BY <2>2, FileOwners DEF Mine, Whose, CopilotFile, PoolFile, MimoFile
<1> QED BY <1>1, <1>2 DEF CopySpecs

LEMMA ReasonixCopies ==
  ASSUME NEW f, NEW x \in Path, FileAt(f, x),
         NEW h, NEW c \in CopySpecs(h)["reasonix"], CopiedBy(c, H(x))
  PROVE  Mine(f, "reasonix")
<1>1. CASE c = Except(<<".reasonix">>, ".reasonix",
                     Names({"projects", "sessions"}))
  <2> DEFINE names == {"projects", "sessions"}
  <2>1. c = Except(<<".reasonix">>, ".reasonix", Names(names))
    BY <1>1
  <2> HIDE DEF names
  <2>2. /\ Len(x) >= 1 /\ x[1] = ".reasonix" /\ Len(x) \in Nat
        /\ Len(x) > 1 /\ x[2] \in Literals => x[2] \notin names
    BY <2>1, ExceptOne, LiteralNames
  <2>3. \A n \in names : n \in Literals /\ Len(x) > 1 => x[2] # n
    BY <2>2
  <2>4. \A n \in names \cap Literals : Len(x) > 1 => x[2] # n
    BY <2>3
  <2>5. \A n \in {"projects", "sessions"} :
          Len(x) > 1 => x[2] # n
    BY <2>4, LiteralNames, FileNameParts DEF names, FileNames
  <2> QED BY <2>2, <2>5, FileOwners DEF Mine, Whose, ReasonixFile
<1> QED BY <1>1 DEF CopySpecs

LEMMA KimiCopies ==
  ASSUME NEW f, NEW x \in Path, FileAt(f, x),
         NEW h, NEW c \in CopySpecs(h)["kimi"], CopiedBy(c, H(x))
  PROVE  Mine(f, "kimi")
<1>1. CASE c = Except(<<".kimi-code">>, ".kimi-code",
                     Names({"sessions", "session_index.jsonl", "user-history",
                             "workspaces.json", "credentials", "oauth", "logs",
                             "telemetry", "bin", "updates"}))
  <2> DEFINE names == {"sessions", "session_index.jsonl", "user-history",
                       "workspaces.json", "credentials", "oauth", "logs",
                       "telemetry", "bin", "updates"}
  <2>1. c = Except(<<".kimi-code">>, ".kimi-code", Names(names))
    BY <1>1
  <2> HIDE DEF names
  <2>2. /\ Len(x) >= 1 /\ x[1] = ".kimi-code" /\ Len(x) \in Nat
        /\ Len(x) > 1 /\ x[2] \in Literals => x[2] \notin names
    BY <2>1, ExceptOne, LiteralNames
  <2>3. \A n \in names : n \in Literals /\ Len(x) > 1 => x[2] # n
    BY <2>2
  <2>4. \A n \in names \cap Literals : Len(x) > 1 => x[2] # n
    BY <2>3
  <2>5. \A n \in {"sessions", "session_index.jsonl", "user-history",
            "workspaces.json", "logs"} :
          Len(x) > 1 => x[2] # n
    BY <2>4, LiteralNames, FileNameParts DEF names, FileNames
  <2> QED BY <2>2, <2>5, FileOwners DEF Mine, KimiFile
<1> QED BY <1>1 DEF CopySpecs

LEMMA PoolCopies ==
  ASSUME NEW f, NEW x \in Path, FileAt(f, x),
         NEW h, NEW c \in CopySpecs(h)["pool"], CopiedBy(c, H(x))
  PROVE  Mine(f, "pool")
<1>1. CASE c = Except(<<".config", "poolside">>, "poolside", {})
  <2>1. c = Except(<<".config", "poolside">>, "poolside", Names({}))
    BY <1>1 DEF Names
  <2>2. Len(x) >= 2 /\ x[1] = ".config" /\ x[2] = "poolside"
    BY <2>1, ExceptTwo, LiteralNames
  <2> QED BY <2>2, FileOwners DEF Mine, Whose, CopilotFile, PoolFile, MimoFile
<1> QED BY <1>1 DEF CopySpecs

LEMMA QwenCopies ==
  ASSUME NEW f, NEW x \in Path, FileAt(f, x),
         NEW h, NEW c \in CopySpecs(h)["qwen"], CopiedBy(c, H(x))
  PROVE  Mine(f, "qwen")
<1>1. CASE c = Except(<<".qwen">>, ".qwen",
                     Names({"projects", "tmp", "usage"}))
  <2> DEFINE names == {"projects", "tmp", "usage"}
  <2>1. c = Except(<<".qwen">>, ".qwen", Names(names))
    BY <1>1
  <2> HIDE DEF names
  <2>2. /\ Len(x) >= 1 /\ x[1] = ".qwen" /\ Len(x) \in Nat
        /\ Len(x) > 1 /\ x[2] \in Literals => x[2] \notin names
    BY <2>1, ExceptOne, LiteralNames
  <2>3. \A n \in names : n \in Literals /\ Len(x) > 1 => x[2] # n
    BY <2>2
  <2>4. \A n \in names \cap Literals : Len(x) > 1 => x[2] # n
    BY <2>3
  <2>5. \A n \in {"projects", "tmp", "usage"} :
          Len(x) > 1 => x[2] # n
    BY <2>4, LiteralNames, FileNameParts DEF names, FileNames
  <2> QED BY <2>2, <2>5, FileOwners DEF Mine, Whose, QwenFile
<1> QED BY <1>1 DEF CopySpecs

LEMMA MimoCopies ==
  ASSUME NEW f, NEW x \in Path, FileAt(f, x),
         NEW h, NEW c \in CopySpecs(h)["mimo"], CopiedBy(c, H(x))
  PROVE  Mine(f, "mimo")
<1>1. CASE c = Except(<<".config", "mimocode">>, "mimocode-config",
                     Names({"node_modules", "package.json", "package-lock.json"}))
  <2>1. c = Except(<<".config", "mimocode">>, "mimocode-config",
                   Names({"node_modules", "package.json", "package-lock.json"}))
    BY <1>1
  <2>2. Len(x) >= 2 /\ x[1] = ".config" /\ x[2] = "mimocode"
    BY <2>1, ExceptTwo, LiteralNames
  <2> QED BY <2>2, FileOwners DEF Mine, Whose, CopilotFile, PoolFile, MimoFile
<1>2. CASE c = Except(<<".local", "share", "mimocode">>, "mimocode-data",
                     Names({"mimocode.db", "memory", "log", "snapshot"}))
  <2> DEFINE names == {"mimocode.db", "memory", "log", "snapshot"}
  <2>1. c = Except(<<".local", "share", "mimocode">>, "mimocode-data", Names(names))
    BY <1>2
  <2> HIDE DEF names
  <2>2. /\ Len(x) >= 3 /\ x[1] = ".local" /\ x[2] = "share"
           /\ x[3] = "mimocode" /\ Len(x) \in Nat
        /\ Len(x) > 3 /\ x[4] \in Literals => x[4] \notin names
    BY <2>1, ExceptThree, LiteralNames
  <2>3. \A n \in names : n \in Literals /\ Len(x) > 3 => x[4] # n
    BY <2>2
  <2>4. \A n \in names \cap Literals : Len(x) > 3 => x[4] # n
    BY <2>3
  <2>5. \A n \in {"mimocode.db", "memory", "log", "snapshot"} :
          Len(x) > 3 => x[4] # n
    BY <2>4, LiteralNames, FileNameParts DEF names, FileNames
  <2> QED BY <2>2, <2>5, FileOwners DEF Mine, Whose, PoolFile, MimoFile, StoreFile
<1> QED BY <1>1, <1>2 DEF CopySpecs

(* Of claude's directory only what is listed, of its file only the project, *)
(* unless it could not be parsed.                                           *)
LEMMA ClaudeCopies ==
  ASSUME NEW f, NEW x \in Path, FileAt(f, x),
         NEW h, NEW c \in CopySpecs(h)["claude"], CopiedBy(c, H(x)),
         h.json = "parsed" \/ x[1] # ".claude.json" \/ x[2] # "projects"
  PROVE  Mine(f, "claude")
<1>1. CASE c = Only(<<".claude">>, ".claude",
                    Names({".credentials.json", "settings.json",
                           "settings.local.json", "CLAUDE.md", "plugins",
                           "skills", "commands"}))
  <2> DEFINE names == {".credentials.json", "settings.json",
                       "settings.local.json", "CLAUDE.md", "plugins",
                       "skills", "commands"}
             root == <<".claude">>
             y == From(root, x)
  <2>1. root \in Path /\ Len(root) = 1 /\ root[1] = ".claude"
    BY AgentPaths, LiteralNames
  <2>2. c.src = H(root) /\ c.only = Names(names)
    BY <1>1 DEF Only
  <2>3. \A n \in names : n \in Literals
    BY FileNameParts DEF FileNames
  <2>4. \A n \in names : n \notin {"history.jsonl", "sessions", "projects"}
    OBVIOUS
  <2> HIDE DEF names, root, y
  <2>5. /\ y \in Path /\ Len(y) = Len(x) - 1 /\ Len(x) \in Nat
        /\ Len(x) >= 1 /\ x[1] = ".claude"
        /\ \A i \in 1..Len(y) : y[i] = x[i + 1]
        /\ \E p \in c.only : Below(p, y)
    <3>1. /\ y \in Path /\ Len(y) = Len(x) - Len(root)
          /\ Len(root) <= Len(x) /\ Len(x) \in Nat
          /\ \A i \in 1..Len(root) : x[i] = root[i]
          /\ \A i \in 1..Len(y) : y[i] = x[i + Len(root)]
          /\ \E p \in c.only : Below(p, y)
      BY <2>1, <2>2, CopiedFrom DEF y
    <3> QED BY <2>1, <3>1
  <2>6. PICK n \in names : Below(<<n>>, y)
    BY <2>2, <2>5 DEF Names
  <2>7. Len(y) >= 1 /\ y[1] = n
    <3> DEFINE d == <<n>>
    <3>1. d \in Path /\ Len(d) = 1 /\ d[1] = n
      BY <2>3, AgentPaths
    <3> HIDE DEF d
    <3>2. Below(d, y)
      BY <2>6 DEF d
    <3>3. Len(d) <= Len(y) /\ \A i \in 1..Len(d) : d[i] = y[i]
      BY <2>5, <3>1, <3>2, BelowFacts
    <3> QED BY <3>1, <3>3
  <2>8. Len(x) >= 2 /\ x[2] = n
    BY <2>5, <2>7
  <2>9. x[2] \notin {"history.jsonl", "sessions", "projects"}
    BY <2>4, <2>8
  <2> QED BY <2>5, <2>8, <2>9, FileOwners DEF Mine, Whose, ClaudeFile
<1>2. CASE c = Only(<<".claude.json">>, ".claude.json", ClaudeJson(h)) /\ h.json = "parsed"
  <2> DEFINE root == <<".claude.json">>
             d == <<"account">>
             e == <<"projects", Own>>
             y == From(root, x)
  <2>1. root \in Path /\ Len(root) = 1 /\ root[1] = ".claude.json"
    BY AgentPaths, LiteralNames
  <2>2. c.src = H(root) /\ c.only = {d, e}
    BY <1>2 DEF Only, ClaudeJson
  <2>3. d \in Path /\ Len(d) = 1 /\ d[1] = "account"
    BY AgentPaths, FileNameParts DEF FileNames
  <2>4. e \in Path /\ Len(e) = 2 /\ e[1] = "projects" /\ e[2] = "own"
    BY AgentPaths, LiteralNames DEF Own
  <2> HIDE DEF root, y, d, e
  <2>5. /\ y \in Path /\ Len(y) = Len(x) - 1 /\ Len(x) \in Nat
        /\ Len(x) >= 1 /\ x[1] = ".claude.json"
        /\ \A i \in 1..Len(y) : y[i] = x[i + 1]
        /\ \E p \in c.only : Below(p, y)
    <3>1. /\ y \in Path /\ Len(y) = Len(x) - Len(root)
          /\ Len(root) <= Len(x) /\ Len(x) \in Nat
          /\ \A i \in 1..Len(root) : x[i] = root[i]
          /\ \A i \in 1..Len(y) : y[i] = x[i + Len(root)]
          /\ \E p \in c.only : Below(p, y)
      BY <2>1, <2>2, CopiedFrom DEF y
    <3> QED BY <2>1, <3>1
  <2>6. CASE Below(d, y)
    <3>1. Len(d) <= Len(y) /\ \A i \in 1..Len(d) : d[i] = y[i]
      BY <2>3, <2>5, <2>6, BelowFacts
    <3>2. Len(x) >= 2 /\ x[2] = "account"
      BY <2>3, <2>5, <3>1
    <3> QED BY <2>5, <3>2, FileOwners DEF Mine, Whose, ClaudeFile
  <2>7. CASE Below(e, y)
    <3>1. Len(e) <= Len(y) /\ \A i \in 1..Len(e) : e[i] = y[i]
      BY <2>4, <2>5, <2>7, BelowFacts
    <3>2. Len(x) >= 3 /\ x[2] = "projects" /\ x[3] = "own"
      BY <2>4, <2>5, <3>1
    <3> QED BY <2>5, <3>2, FileOwners DEF Mine, Whose, ClaudeFile
  <2> QED BY <2>2, <2>5, <2>6, <2>7
<1>3. CASE c = Only(<<".claude.json">>, ".claude.json", ClaudeJson(h)) /\ h.json # "parsed"
  <2> DEFINE root == <<".claude.json">>
  <2>1. root \in Path /\ Len(root) = 1 /\ root[1] = ".claude.json"
    BY AgentPaths, LiteralNames
  <2>2. c.src = H(root)
    BY <1>3 DEF Only
  <2> HIDE DEF root
  <2>3. x[1] = ".claude.json"
    BY <2>1, <2>2, CopiedFrom
  <2>4. x[2] # "projects"
    BY <1>3, <2>3
  <2> QED BY <2>3, <2>4, FileOwners DEF Mine, Whose, ClaudeFile
<1> QED BY <1>1, <1>2, <1>3 DEF CopySpecs

(* Of agy's own directory neither the history nor the stores are copied.   *)
LEMMA AgyCopies ==
  ASSUME NEW f, NEW x \in Path, FileAt(f, x),
         NEW h, NEW c \in CopySpecs(h)["agy"], CopiedBy(c, H(x))
  PROVE  Mine(f, "agy")
<1> DEFINE root == <<".gemini">>
           y == From(root, x)
           dir == <<"antigravity-cli">>
<1>1. c.src = H(root) /\ c.skip = {dir \o n : n \in AgyHistory \cup {<<".flar">>}}
  <2>1. AgyDir[2] = "antigravity-cli"
    BY DEF AgyDir
  <2>2. c = Except(<<".gemini">>, ".gemini", AgySkip)
    BY DEF CopySpecs
  <2>3. AgySkip = {dir \o n : n \in AgyHistory \cup {<<".flar">>}}
    BY <2>1 DEF AgySkip
  <2> QED BY <2>2, <2>3 DEF Except
<1>2. root \in Path /\ Len(root) = 1 /\ root[1] = ".gemini"
  BY AgentPaths, LiteralNames
<1>3. dir \in Path /\ Len(dir) = 1 /\ dir[1] = "antigravity-cli"
  BY AgentPaths, LiteralNames
<1> HIDE DEF root, y, dir
<1>4. /\ y \in Path /\ Len(y) = Len(x) - 1 /\ Len(x) \in Nat
      /\ Len(x) >= 1 /\ x[1] = ".gemini"
      /\ \A i \in 1..Len(y) : y[i] = x[i + 1]
      /\ \A p \in c.skip : ~Below(p, y)
  <2>1. /\ y \in Path /\ Len(y) = Len(x) - Len(root)
        /\ Len(root) <= Len(x) /\ Len(x) \in Nat
        /\ \A i \in 1..Len(root) : x[i] = root[i]
        /\ \A i \in 1..Len(y) : y[i] = x[i + Len(root)]
        /\ \A p \in c.skip : ~Below(p, y)
    BY <1>1, <1>2, CopiedFrom DEF y
  <2> QED BY <1>2, <2>1
<1>5. ASSUME NEW n \in AgyStoreNames \cup {".flar"}, Len(x) >= 3,
             x[2] = "antigravity-cli"
      PROVE  x[3] # n
  <2> DEFINE d == dir \o <<n>>
  <2>1. n \in Literals
    BY LiteralNames DEF AgyStoreNames
  <2>2. /\ d \in Path /\ Len(d) = Len(dir) + 1 /\ \A i \in 1..Len(dir) : d[i] = dir[i]
        /\ d[Len(dir) + 1] = n
    BY <1>3, <2>1, NameIn
  <2>3. <<n>> \in AgyHistory \cup {<<".flar">>}
    BY DEF AgyHistory, Names
  <2>4. ~Below(d, y)
    BY <1>1, <1>4, <2>3
  <2> HIDE DEF d
  <2>5. Len(d) = 2 /\ d[1] = "antigravity-cli" /\ d[2] = n
    BY <1>3, <2>2
  <2>6. ASSUME x[3] = n PROVE FALSE
    <3>1. Len(d) <= Len(y) /\ y[1] = d[1] /\ y[2] = d[2]
      BY <1>4, <1>5, <2>5, <2>6
    <3>2. \A i \in 1..Len(d) : i = 1 \/ i = 2
      BY <2>5
    <3> QED BY <1>4, <2>2, <2>4, <3>1, <3>2, BelowFacts
  <2> QED BY <2>6
<1>6. ~(/\ Len(x) = 4 /\ x[2] = "antigravity-cli" /\ x[3] = "cache"
        /\ x[4] = "last_conversations.json")
  <2> DEFINE e == <<"cache", "last_conversations.json">>
             d == dir \o e
  <2>1. /\ e \in Path /\ Len(e) = 2 /\ e[1] = "cache"
        /\ e[2] = "last_conversations.json"
    BY AgentPaths, LiteralNames
  <2>2. e \in AgyHistory \cup {<<".flar">>}
    BY DEF AgyHistory
  <2>3. ~Below(d, y)
    BY <1>1, <1>4, <2>2
  <2> HIDE DEF e
  <2>4. /\ d \in Path /\ Len(d) = Len(dir) + Len(e)
        /\ \A i \in 1..(Len(dir) + Len(e)) :
             d[i] = IF i <= Len(dir) THEN dir[i] ELSE e[i - Len(dir)]
    BY <1>3, <2>1, ConcatProperties DEF Path
  <2> HIDE DEF d
  <2>5. /\ Len(d) = 3 /\ d[1] = "antigravity-cli" /\ d[2] = "cache"
        /\ d[3] = "last_conversations.json"
    BY <1>3, <2>1, <2>4
  <2>6. ASSUME Len(x) = 4, x[2] = d[1], x[3] = d[2], x[4] = d[3] PROVE FALSE
    <3>1. Len(d) <= Len(y) /\ y[1] = d[1] /\ y[2] = d[2] /\ y[3] = d[3]
      BY <1>4, <2>5, <2>6
    <3>2. \A i \in 1..Len(d) : i = 1 \/ i = 2 \/ i = 3
      BY <2>5
    <3> QED BY <1>4, <2>3, <2>4, <3>1, <3>2, BelowFacts
  <2> QED BY <2>5, <2>6
<1>7. Len(x) >= 3 /\ x[2] = "antigravity-cli" =>
        x[3] \notin {"conversations", "brain", "implicit", "history.jsonl", ".flar"}
  BY <1>5 DEF AgyStoreNames
<1>8. f.agent = "agy" /\ AgyFile(f, x)
  BY <1>4, FileOwners
<1>9. ~(Len(x) \in {3, 4} /\ x[2] = "antigravity-cli" /\ x[3] # "cache")
  BY <1>7, <1>8 DEF AgyFile
<1> QED BY <1>6, <1>8, <1>9 DEF Mine, AgyFile

(* The parts of two paths in the one that they make. *)
LEMMA PartsAfter ==
  ASSUME NEW a \in Path, NEW b \in Path
  PROVE  /\ a \o b \in Path /\ Len(a \o b) = Len(a) + Len(b)
         /\ \A i \in 1..Len(a) : (a \o b)[i] = a[i]
         /\ \A i \in 1..Len(b) : (a \o b)[Len(a) + i] = b[i]
<1> DEFINE c == a \o b
<1>1. /\ c \in Path /\ Len(c) = Len(a) + Len(b)
      /\ Len(a) \in Nat /\ Len(b) \in Nat
      /\ \A i \in 1..(Len(a) + Len(b)) :
           c[i] = IF i <= Len(a) THEN a[i] ELSE b[i - Len(a)]
  BY ConcatParts
<1> HIDE DEF c
<1>2. \A i \in 1..Len(a) : c[i] = a[i]
  BY <1>1
<1>3. ASSUME NEW i \in 1..Len(b) PROVE c[Len(a) + i] = b[i]
  <2>1. /\ Len(a) + i \in 1..(Len(a) + Len(b)) /\ ~(Len(a) + i <= Len(a))
        /\ (Len(a) + i) - Len(a) = i
    BY <1>1
  <2> QED BY <1>1, <2>1
<1> QED BY <1>1, <1>2, <1>3 DEF c

(* The list of projects in the copy of a .claude.json that was not parsed. *)
LEMMA ClaudeExposed ==
  ASSUME NEW h, h.json = "odd", NEW g, NEW x \in Path, FileAt(g, x),
         x[1] = ".claude.json", x[2] = "projects",
         NEW c \in CopySpecs(h)["claude"], CopiedBy(c, H(x))
  PROVE  \E dir \in Exposed("claude", h) :
           Below(dir, c.as \o From(c.src, H(x)))
<1> DEFINE root == <<".claude.json">>
           other == <<".claude">>
           rest == <<".claude.json", "projects">>
           y == From(root, x)
           d == TempConfig \o rest
           copy == TempConfig \o root
           p == copy \o y
<1>1. /\ root \in Path /\ Len(root) = 1 /\ root[1] = ".claude.json"
      /\ other \in Path /\ Len(other) = 1 /\ other[1] = ".claude"
      /\ rest \in Path /\ Len(rest) = 2 /\ rest[1] = ".claude.json"
      /\ rest[2] = "projects"
      /\ TempConfig \in Path /\ Len(TempConfig) = 2
  BY AgentPaths, LiteralNames, FixedPaths DEF TempConfig
<1>2. Exposed("claude", h) = {d}
  BY DEF Exposed
<1>3. Len(x) \in Nat /\ Len(x) >= 2
  BY FileOwners DEF ClaudeFile, Path
<1>4. c.src # H(other)
  <2>1. ASSUME c.src = H(other) PROVE FALSE
    <3> HIDE DEF other
    <3>1. \A i \in 1..Len(other) : x[i] = other[i]
      BY <1>1, <2>1, CopiedFrom
    <3>2. x[1] = ".claude"
      BY <1>1, <3>1
    <3> QED BY <3>2
  <2> QED BY <2>1
<1>5. c.src = H(root) /\ c.as = copy
  BY <1>4 DEF CopySpecs, Only
<1> HIDE DEF root, other, rest, y, d, copy, p
<1>6. /\ y \in Path /\ Len(y) = Len(x) - 1 /\ Len(y) \in Nat /\ Len(y) >= 1
      /\ y[1] = "projects"
  <2>1. /\ y \in Path /\ Len(y) = Len(x) - Len(root)
        /\ \A i \in 1..Len(y) : y[i] = x[i + Len(root)]
    BY <1>1, <1>5, CopiedFrom DEF y
  <2>2. Len(y) = Len(x) - 1 /\ Len(y) \in Nat /\ Len(y) >= 1
    BY <1>1, <1>3, <2>1
  <2>3. y[1] = x[1 + 1]
    BY <1>1, <2>1, <2>2
  <2> QED BY <2>1, <2>2, <2>3
<1>7. /\ copy \in Path /\ Len(copy) = 3
      /\ copy[1] = TempConfig[1] /\ copy[2] = TempConfig[2]
      /\ copy[3] = ".claude.json"
  <2>1. /\ copy \in Path /\ Len(copy) = Len(TempConfig) + Len(root)
        /\ \A i \in 1..Len(TempConfig) : copy[i] = TempConfig[i]
        /\ \A i \in 1..Len(root) : copy[Len(TempConfig) + i] = root[i]
    BY <1>1, PartsAfter DEF copy
  <2>2. copy[Len(TempConfig) + 1] = root[1] /\ copy[1] = TempConfig[1] /\ copy[2] = TempConfig[2]
    BY <1>1, <2>1
  <2> QED BY <1>1, <2>1, <2>2
<1>8. /\ d \in Path /\ Len(d) = 4
      /\ d[1] = TempConfig[1] /\ d[2] = TempConfig[2]
      /\ d[3] = ".claude.json" /\ d[4] = "projects"
  <2>1. /\ d \in Path /\ Len(d) = Len(TempConfig) + Len(rest)
        /\ \A i \in 1..Len(TempConfig) : d[i] = TempConfig[i]
        /\ \A i \in 1..Len(rest) : d[Len(TempConfig) + i] = rest[i]
    BY <1>1, PartsAfter DEF d
  <2>2. /\ d[Len(TempConfig) + 1] = rest[1] /\ d[Len(TempConfig) + 2] = rest[2]
        /\ d[1] = TempConfig[1] /\ d[2] = TempConfig[2]
    BY <1>1, <2>1
  <2> QED BY <1>1, <2>1, <2>2
<1>9. /\ p \in Path /\ Len(p) = 3 + Len(y)
      /\ p[1] = copy[1] /\ p[2] = copy[2] /\ p[3] = copy[3] /\ p[4] = y[1]
  <2>1. /\ p \in Path /\ Len(p) = Len(copy) + Len(y)
        /\ \A i \in 1..Len(copy) : p[i] = copy[i]
        /\ \A i \in 1..Len(y) : p[Len(copy) + i] = y[i]
    BY <1>6, <1>7, PartsAfter DEF p
  <2>2. /\ p[Len(copy) + 1] = y[1]
        /\ p[1] = copy[1] /\ p[2] = copy[2] /\ p[3] = copy[3]
    BY <1>6, <1>7, <2>1
  <2> QED BY <1>7, <2>1, <2>2
<1>10. \A i \in 1..Len(d) : d[i] = p[i]
  <2>1. \A i \in 1..Len(d) : i = 1 \/ i = 2 \/ i = 3 \/ i = 4
    BY <1>8
  <2>2. d[1] = p[1] /\ d[2] = p[2] /\ d[3] = p[3] /\ d[4] = p[4]
    BY <1>6, <1>7, <1>8, <1>9
  <2> QED BY <2>1, <2>2
<1>11. Below(d, p)
  <2>1. Len(d) <= Len(p)
    BY <1>6, <1>8, <1>9
  <2>2. d \in Path /\ p \in Path
    BY <1>8, <1>9
  <2> QED BY <1>10, <2>1, <2>2, BelowFacts
<1>12. From(H(root), H(x)) = y
  <2>1. Below(H(root), H(x))
    BY <1>5 DEF CopiedBy
  <2> QED BY <1>1, <2>1, HomeBelow DEF y
<1> QED BY <1>2, <1>5, <1>11, <1>12 DEF p

(* Whatever is in the temporary directory is the agent's own, or shown      *)
(* besides.                                                                 *)
LEMMA CopiesMine ==
  ASSUME NEW agent \in Agents, NEW h \in Hosts, NEW f \in TempFiles(agent, h)
  PROVE  Mine(f, agent) \/ InExposed(f, agent, h)
<1>1. PICK c \in CopySpecs(h)[agent], g \in HostFiles :
        CopiedBy(c, g.path) /\ f = [g EXCEPT !.path = c.as \o From(c.src, g.path)]
  BY DEF TempFiles
<1>2. PICK x \in Path : g.path = H(x) /\ FileAt(g, x)
  BY HostFilesPlaced DEF Placed
<1>3. /\ f.agent = g.agent /\ f.class = g.class
      /\ f.path = c.as \o From(c.src, g.path)
  <2>1. g.agent = f.agent /\ g.class = f.class /\ "path" \in DOMAIN g
    BY <1>1, Records DEF F
  <2> QED BY <1>1, <2>1
<1>4. CASE agent # "claude"
  <2>1. Mine(g, agent)
    BY <1>1, <1>2, <1>4, AgentNames, CodexCopies, AgyCopies, CopilotCopies,
       ReasonixCopies, KimiCopies, PoolCopies, QwenCopies, MimoCopies
  <2> QED BY <1>3, <2>1 DEF Mine
<1>5. CASE agent = "claude" /\ (h.json = "parsed" \/ x[1] # ".claude.json" \/ x[2] # "projects")
  <2>1. Mine(g, agent)
    BY <1>1, <1>2, <1>5, ClaudeCopies
  <2> QED BY <1>3, <2>1 DEF Mine
<1>6. CASE agent = "claude" /\ h.json # "parsed" /\ x[1] = ".claude.json" /\ x[2] = "projects"
  <2>1. h.json = "odd"
    BY <1>6 DEF Hosts
  <2>2. \E dir \in Exposed("claude", h) : Below(dir, c.as \o From(c.src, H(x)))
    BY <1>1, <1>2, <1>6, <2>1, ClaudeExposed
  <2> QED BY <1>2, <1>3, <1>6, <2>2 DEF InExposed
<1> QED BY <1>4, <1>5, <1>6

-----------------------------------------------------------------------------
(* Lists of mounts of which every source may be seen.                      *)
Opens(ops, r, h) ==
  ops \in Lists /\ \A k \in 1..Len(ops) : ops[k].op = "bind" => Open(ops[k].src, r, h)

(* Lists are put together from such mounts. *)
LEMMA OpensFacts ==
  ASSUME NEW r, NEW h
  PROVE  /\ Opens(<<>>, r, h)
         /\ \A src, dst \in Path : Open(src, r, h) => Opens(Bind(src, dst), r, h)
         /\ \A dst \in Path : Opens(Tmpfs(dst), r, h)
         /\ \A a, b : Opens(a, r, h) /\ Opens(b, r, h) => Opens(a \o b, r, h)
         /\ \A c, a : (c => Opens(a, r, h)) => Opens(When(c, a), r, h)
<1>1. Opens(<<>>, r, h)
  BY NoMount DEF Opens
<1>2. ASSUME NEW src \in Path, NEW dst \in Path, Open(src, r, h)
      PROVE  Opens(Bind(src, dst), r, h)
  <2>1. Bind(src, dst) \in Lists
    BY OneMount
  <2> QED BY <1>2, <2>1 DEF Opens, Bind
<1>3. ASSUME NEW dst \in Path PROVE Opens(Tmpfs(dst), r, h)
  <2>1. Tmpfs(dst) \in Lists
    BY <1>3, OneTmpfs
  <2> QED BY <2>1 DEF Opens, Tmpfs
<1>4. ASSUME NEW a, NEW b, Opens(a, r, h), Opens(b, r, h)
      PROVE  Opens(a \o b, r, h)
  <2>1. /\ a \o b \in Lists /\ Len(a) \in Nat /\ Len(b) \in Nat
        /\ Len(a \o b) = Len(a) + Len(b)
        /\ \A i \in 1..Len(a) : (a \o b)[i] = a[i]
        /\ \A i \in 1..Len(b) : (a \o b)[i + Len(a)] = b[i]
        /\ \A i \in 1..(Len(a) + Len(b)) :
             \/ i \in 1..Len(a)
             \/ i - Len(a) \in 1..Len(b) /\ (i - Len(a)) + Len(a) = i
    BY <1>4, ListConcat DEF Opens
  <2>2. ASSUME NEW k \in 1..Len(a \o b), (a \o b)[k].op = "bind"
        PROVE  Open((a \o b)[k].src, r, h)
    <3>1. CASE k \in 1..Len(a)
      BY <1>4, <2>1, <2>2, <3>1 DEF Opens
    <3>2. CASE k - Len(a) \in 1..Len(b) /\ (k - Len(a)) + Len(a) = k
      <4>1. (a \o b)[k] = b[k - Len(a)]
        BY <2>1, <3>2
      <4> QED BY <1>4, <2>2, <3>2, <4>1 DEF Opens
    <3> QED BY <2>1, <2>2, <3>1, <3>2
  <2> QED BY <2>1, <2>2 DEF Opens
<1>5. ASSUME NEW c, NEW a, c => Opens(a, r, h) PROVE Opens(When(c, a), r, h)
  BY <1>1, <1>5 DEF When
<1> QED BY <1>1, <1>2, <1>3, <1>4, <1>5

(* What comes from the temporary directories. *)
LEMMA TempOpen ==
  ASSUME NEW r, NEW h, NEW q \in Path
  PROVE  Open(TempConfig \o q, r, h) /\ Open(TempNetDir, r, h)
<1>1. /\ TempConfig \in Path /\ Len(TempConfig) = 2 /\ TempConfig[1] = "tmp"
      /\ TempNetDir \in Path /\ Len(TempNetDir) = 2 /\ TempNetDir[1] = "tmp"
  BY FixedPaths DEF TempConfig, TempNetDir
<1> DEFINE s == TempConfig \o q
<1>2. /\ s \in Path /\ Len(s) = Len(TempConfig) + Len(q) /\ Len(q) \in Nat
      /\ \A i \in 1..(Len(TempConfig) + Len(q)) :
           s[i] = IF i <= Len(TempConfig) THEN TempConfig[i] ELSE q[i - Len(TempConfig)]
  BY <1>1, ConcatParts
<1> HIDE DEF s
<1>3. Len(s) >= 1 /\ s[1] = "tmp"
  BY <1>1, <1>2
<1>4. Open(s, r, h) /\ Open(TempNetDir, r, h)
  BY <1>1, <1>2, <1>3, OutsideHome
<1> QED BY <1>4 DEF s

(* The agents' mounts: copies, directories of the host and stores. *)
LEMMA HomeOpens ==
  ASSUME NEW r, NEW h
  PROVE  /\ \A name \in Literals, dst \in Path : Opens(Copy(name, dst), r, h)
         /\ \A path \in Path : Open(H(path), r, h) => Opens(Live(path), r, h)
         /\ r.agent \in {"codex", "agy", "copilot", "kimi", "pool", "mimo"} =>
              \A dst \in Path : Opens(StoreAs(r.agent, dst), r, h)
<1>1. ASSUME NEW name \in Literals, NEW dst \in Path
      PROVE  Opens(Copy(name, dst), r, h)
  <2>1. <<name>> \in Path /\ H(dst) \in Path
    BY AgentPaths, HomeFacts
  <2>2. TempConfig \o <<name>> \in Path /\ Open(TempConfig \o <<name>>, r, h)
    BY <2>1, TempOpen DEF Open
  <2> QED BY <2>1, <2>2, OpensFacts DEF Copy
<1>2. ASSUME NEW path \in Path, Open(H(path), r, h) PROVE Opens(Live(path), r, h)
  BY <1>2, HomeFacts, OpensFacts DEF Live
<1>3. ASSUME r.agent \in {"codex", "agy", "copilot", "kimi", "pool", "mimo"},
             NEW dst \in Path
      PROVE  Opens(StoreAs(r.agent, dst), r, h)
  <2>1. Open(Store(r.agent), r, h) /\ Store(r.agent) \in Path /\ H(dst) \in Path
    BY <1>3, StoreOpen, HomeFacts DEF Open
  <2> QED BY <2>1, OpensFacts DEF StoreAs
<1> QED BY <1>1, <1>2, <1>3

(* A part of agy's store. *)
LEMMA PartOpens ==
  ASSUME NEW r, r.agent = "agy", NEW h, NEW path \in Path
  PROVE  Opens(AgyPart(path), r, h)
<1> DEFINE s == Store("agy") \o path
<1>1. Open(Store("agy"), r, h) /\ Store("agy") \in Path
  BY StoreOpen DEF Open
<1>2. s \in Path /\ Below(Store("agy"), s)
  BY <1>1, ConcatPath, BelowConcat
<1> HIDE DEF s
<1>3. \A f \in HostFiles : f.path \in Path
  BY HostFilesPlaced, HomeFacts DEF Placed
<1>4. Open(s, r, h)
  BY <1>1, <1>2, <1>3, BelowTransitive DEF Open
<1>5. H(AgyDir \o path) \in Path
  BY FixedPaths, ConcatPath, HomeFacts
<1> QED BY <1>2, <1>4, <1>5, OpensFacts DEF AgyPart, s

(* The sessions of the project, after the copy. *)
LEMMA LiveInCopyOpens ==
  ASSUME NEW r, NEW h, NEW dir \in Literals,
         <<r.agent, dir>> \in {<<"claude", ".claude">>, <<"reasonix", ".reasonix">>,
                              <<"qwen", ".qwen">>}
  PROVE  Opens(CopyThenLive(dir, h), r, h)
<1>1. Open(H(<<dir, "projects", Own>>), r, h)
  BY ProjectsOpen
<1>2. <<dir>> \in Path /\ <<dir, "projects", Own>> \in Path
  BY AgentPaths, LiteralNames
<1>3. /\ Opens(Copy(dir, <<dir>>), r, h)
      /\ Opens(Live(<<dir, "projects", Own>>), r, h)
  BY <1>1, <1>2, HomeOpens
<1> QED BY <1>3, OpensFacts DEF CopyThenLive

(* The mounts of every agent. *)
LEMMA AgentOpens ==
  ASSUME NEW r, r.agent \in Agents, NEW h \in Hosts
  PROVE  Opens(AgentMounts(r.agent, h), r, h)
<1> DEFINE has == h.has = "yes"
<1>1. CASE r.agent = "claude"
  <2> DEFINE a == CopyThenLive(".claude", h) \o Copy(".claude.json", <<".claude.json">>)
  <2>1. AgentMounts(r.agent, h) = When(has, a)
    BY <1>1 DEF AgentMounts
  <2>2. Opens(CopyThenLive(".claude", h), r, h)
    BY <1>1, LiveInCopyOpens, LiteralNames
  <2>3. Opens(Copy(".claude.json", <<".claude.json">>), r, h)
    BY HomeOpens, AgentPaths, LiteralNames
  <2>4. Opens(a, r, h)
    BY <2>2, <2>3, OpensFacts
  <2> HIDE DEF a, has
  <2>5. Opens(When(has, a), r, h)
    BY <2>4, OpensFacts
  <2> QED BY <2>1, <2>5
<1>2. CASE r.agent = "codex"
  <2>1. Opens(StoreAs(r.agent, <<".codex">>), r, h)
    BY <1>2, HomeOpens, AgentPaths, LiteralNames
  <2> QED BY <1>2, <2>1, OpensFacts DEF AgentMounts
<1>3. CASE r.agent = "agy"
  <2> DEFINE parts == AgyPart(<<"conversations">>) \o AgyPart(<<"brain">>)
                        \o AgyPart(<<"implicit">>) \o AgyPart(<<"history.jsonl">>)
                        \o AgyPart(<<"cache", "last_conversations.json">>)
             a == When(has, Copy(".gemini", <<".gemini">>))
             b == When(has /\ h.stored = "yes", parts)
             c == When(h.token = "yes", Copy("agy-secret", <<".agy-secret">>))
  <2>1. AgentMounts(r.agent, h) = a \o b \o c
    BY <1>3 DEF AgentMounts
  <2>2. /\ Opens(AgyPart(<<"conversations">>), r, h)
           /\ Opens(AgyPart(<<"brain">>), r, h)
        /\ Opens(AgyPart(<<"implicit">>), r, h)
              /\ Opens(AgyPart(<<"history.jsonl">>), r, h)
        /\ Opens(AgyPart(<<"cache", "last_conversations.json">>), r, h)
    BY <1>3, PartOpens, AgentPaths, LiteralNames
  <2>3. Opens(parts, r, h)
    BY <2>2, OpensFacts
  <2>4. /\ Opens(Copy(".gemini", <<".gemini">>), r, h)
        /\ Opens(Copy("agy-secret", <<".agy-secret">>), r, h)
    BY HomeOpens, AgentPaths, LiteralNames
  <2> HIDE DEF parts
  <2>5. Opens(a, r, h) /\ Opens(b, r, h) /\ Opens(c, r, h)
    BY <2>3, <2>4, OpensFacts
  <2> HIDE DEF a, b, c
  <2> QED BY <2>1, <2>5, OpensFacts
<1>4. CASE r.agent = "copilot"
  <2>1. /\ Opens(StoreAs(r.agent, <<".copilot">>), r, h)
        /\ Opens(Copy("gh", <<".config", "gh">>), r, h)
    BY <1>4, HomeOpens, AgentPaths, LiteralNames
  <2> QED BY <1>4, <2>1, OpensFacts DEF AgentMounts
<1>5. CASE r.agent = "reasonix"
  <2>1. Opens(CopyThenLive(".reasonix", h), r, h)
    BY <1>5, LiveInCopyOpens, LiteralNames
  <2> QED BY <1>5, <2>1, OpensFacts DEF AgentMounts
<1>6. CASE r.agent = "qwen"
  <2>1. Opens(CopyThenLive(".qwen", h), r, h)
    BY <1>6, LiveInCopyOpens, LiteralNames
  <2> QED BY <1>6, <2>1, OpensFacts DEF AgentMounts
<1>7. CASE r.agent = "kimi"
  <2>1. Opens(StoreAs(r.agent, <<".kimi-code">>), r, h)
    BY <1>7, HomeOpens, AgentPaths, LiteralNames
  <2>2. /\ <<".kimi-code", "credentials">> \in Path
        /\ <<".kimi-code", "oauth">> \in Path
    BY AgentPaths, LiteralNames
  <2>3. /\ Opens(Live(<<".kimi-code", "credentials">>), r, h)
        /\ Opens(Live(<<".kimi-code", "oauth">>), r, h)
    BY <1>7, <2>2, CredentialsOpen, HomeOpens
  <2> DEFINE a == StoreAs(r.agent, <<".kimi-code">>)
             b == Live(<<".kimi-code", "credentials">>)
                    \o Live(<<".kimi-code", "oauth">>)
             c == When(h.live = "yes", b)
  <2>4. AgentMounts(r.agent, h) = When(has, a \o c)
    BY <1>7 DEF AgentMounts
  <2>5. Opens(b, r, h)
    BY <2>3, OpensFacts
  <2> HIDE DEF a, b, has
  <2>6. Opens(c, r, h)
    BY <2>5, OpensFacts
  <2> HIDE DEF c
  <2>7. Opens(a, r, h)
    BY <2>1 DEF a
  <2> QED BY <2>4, <2>6, <2>7, OpensFacts
<1>8. CASE r.agent = "pool"
  <2>1. /\ Opens(StoreAs(r.agent, <<".local", "state", "poolside">>), r, h)
        /\ Opens(Copy("poolside", <<".config", "poolside">>), r, h)
    BY <1>8, HomeOpens, AgentPaths, LiteralNames
  <2> QED BY <1>8, <2>1, OpensFacts DEF AgentMounts
<1>9. CASE r.agent = "mimo"
  <2>1. /\ Opens(StoreAs(r.agent, <<".local", "share", "mimocode">>), r, h)
        /\ Opens(Copy("mimocode-config", <<".config", "mimocode">>), r, h)
    BY <1>9, HomeOpens, AgentPaths, LiteralNames
  <2>2. Opens(When(h.memory # "no" /\ h.live = "yes", Live(MemoryDir(h.memory))),
              r, h)
    <3>1. ASSUME h.memory # "no" PROVE Opens(Live(MemoryDir(h.memory)), r, h)
      <4>1. h.memory \in Slugs
        BY <3>1 DEF Hosts
      <4> QED BY <1>9, <4>1, MemoryOpen, MemoryPaths, HomeOpens
    <3> QED BY <3>1, OpensFacts
  <2> QED BY <1>9, <2>1, <2>2, OpensFacts DEF AgentMounts
<1> QED BY <1>1, <1>2, <1>3, <1>4, <1>5, <1>6, <1>7, <1>8, <1>9, AgentNames

(* The mounts of the system and for containers. *)
LEMMA SystemOpens ==
  ASSUME NEW r, NEW h
  PROVE  Opens(System, r, h)
<1>1. /\ <<>> \in Path /\ <<"usr">> \in Path /\ <<"opt">> \in Path
      /\ <<"tmp">> \in Path /\ <<"run">> \in Path
  BY FixedPaths
<1>2. Open(<<"usr">>, r, h) /\ Open(<<"opt">>, r, h)
  BY <1>1, OutsideHome
<1>3. /\ Opens(Tmpfs(<<>>), r, h) /\ Opens(Bind(<<"usr">>, <<"usr">>), r, h)
      /\ Opens(Bind(<<"opt">>, <<"opt">>), r, h) /\ Opens(Tmpfs(<<"tmp">>), r, h)
      /\ Opens(Tmpfs(<<"run">>), r, h)
  BY <1>1, <1>2, OpensFacts
<1> QED BY <1>3, OpensFacts DEF System

LEMMA ContainerOpens ==
  ASSUME NEW r, NEW h
  PROVE  Opens(ContainerSupport(r), r, h)
<1> DEFINE p == <<"podman", "storage.conf">>
           q == <<"podman", "etc-containers">>
           u == <<".config", "containers", "storage.conf">>
           e == <<"etc", "containers">>
<1>1. p \in Path /\ q \in Path /\ u \in Path /\ e \in Path
  BY FixedPaths
<1> DEFINE a == When(r.cache = "yes", Live(CacheDir))
           b == Bind(TempConfig \o p, H(u))
           c == Bind(TempConfig \o q, e)
<1>2. ContainerSupport(r) = a \o b \o c
  BY DEF ContainerSupport, Podman
<1> HIDE DEF p, q, u, e
<1>3. Opens(a, r, h)
  <2>1. Opens(Live(CacheDir), r, h)
    BY FixedPaths, NoFileOpen, HomeOpens
  <2> QED BY <2>1, OpensFacts
<1>4. Opens(b, r, h) /\ Opens(c, r, h)
  BY <1>1, TempOpen, HomeFacts, OpensFacts DEF Open
<1> HIDE DEF a, b, c
<1> QED BY <1>2, <1>3, <1>4, OpensFacts

(* No mount has a source that the agent may not see. *)
LEMMA MountsOpen ==
  ASSUME NEW r, r.agent \in Agents, NEW h \in Hosts, NEW made \in BOOLEAN,
         FilesApart(h), h.agent # <<>>
  PROVE  Opens(Mounts(r, h, made), r, h)
<1>1. /\ h.project \in Path /\ h.agent \in Path /\ h.agentReal \in Path
      /\ h.flar \in Path
  BY HostPaths
<1>2. Open(h.project, r, h) /\ Open(h.flar, r, h) /\ Open(h.agentReal, r, h)
  BY <1>1 DEF Open, FilesApart
<1>3. Opens(Project(h), r, h)
  BY <1>1, <1>2, OpensFacts DEF Project
<1>4. Opens(GitConfig, r, h)
  <2>1. ".gitconfig" \in Literals /\ <<".gitconfig">> \in Path
    BY AgentPaths, LiteralNames
  <2> QED BY <2>1, HomeOpens DEF GitConfig
<1>5. Opens(When(made, Inner(r, h)), r, h)
  BY <1>4, AgentOpens, OpensFacts DEF Inner
<1>6. Opens(Binaries(r, h), r, h)
  <2>1. Opens(Live(Library), r, h)
    BY LibraryPath, NoFileOpen, HomeOpens
  <2>2. /\ Opens(Bind(h.flar, h.flar), r, h)
        /\ Opens(When(~Below(<<"usr">>, h.agentReal), Bind(h.agentReal, h.agent)), r, h)
        /\ Opens(When(r.agent = "qwen" /\ h.library = "yes", Live(Library)), r, h)
    BY <1>1, <1>2, <2>1, OpensFacts
  <2> QED BY <2>2, OpensFacts DEF Binaries, Library
<1>7. Opens(Net(r), r, h)
  <2>1. Open(TempNetDir, r, h)
    BY TempOpen, FixedPaths
  <2> QED BY <2>1, FixedPaths, OpensFacts DEF Net
<1>8. Opens(System, r, h) /\ Opens(When(made, ContainerSupport(r)), r, h)
  BY SystemOpens, ContainerOpens, OpensFacts
<1>9. Mounts(r, h, made) =
        System \o When(made, ContainerSupport(r)) \o Project(h)
        \o When(made, Inner(r, h)) \o Binaries(r, h) \o Net(r)
  BY MountsParts
<1> QED BY <1>3, <1>5, <1>6, <1>7, <1>8, <1>9, OpensFacts

(* So a file that can be seen is the agent's, or shown besides, or in the   *)
(* project.                                                                 *)
LEMMA VisibleMine ==
  ASSUME NEW r, NEW h, NEW ops, Opens(ops, r, h), NEW f \in HostFiles,
         Visible(ops, f.path)
  PROVE  \/ Mine(f, r.agent) \/ InExposed(f, r.agent, h)
         \/ Below(h.project, f.path)
<1>1. DOMAIN ops = 1..Len(ops)
  BY DEF Opens, Lists
<1> QED BY <1>1 DEF Visible, Opens, Open

(* Whatever flar is told, the sandbox shows of what agents keep on the host *)
(* only the agent's own configuration, the project's own history and what   *)
(* is in the project's directory, if no file of an agent is inside a        *)
(* program.  The exceptions are two: what a .claude.json that could not be  *)
(* parsed has of other projects, and the memory of that project which the   *)
(* store's mimo database names (config.go:226-391, container.go:687-890).   *)
THEOREM OnlyOwnHistoryHolds ==
  ASSUME \A i \in Inputs : FilesApart(i.host)
  PROVE  Spec => []OnlyOwnHistory
<1>1. Checked => OnlyOwnHistory
  <2> SUFFICES ASSUME Checked, stage = "agent",
                      NEW f \in HostFiles \cup TempFiles(settings.agent, host),
                      Visible(Ops, f.path)
               PROVE  \/ Mine(f, settings.agent)
                      \/ InExposed(f, settings.agent, host)
                      \/ Below(host.project, f.path)
    BY DEF OnlyOwnHistory, Mine, InExposed
  <2>1. PICK i \in Inputs : host = i.host
    BY DEF Checked
  <2>2. /\ host \in Hosts /\ FilesApart(host) /\ host.agent # <<>>
        /\ settings.agent \in Agents
    BY <2>1, LaunchAssumption DEF Checked, Script
  <2>3. CASE f \in HostFiles
    <3>1. (prepared = "yes") \in BOOLEAN
      OBVIOUS
    <3>2. Opens(Ops, settings, host)
      BY <2>2, <3>1, MountsOpen DEF Ops
    <3> QED BY <2>3, <3>2, VisibleMine
  <2>4. CASE f \in TempFiles(settings.agent, host)
    BY <2>2, <2>4, CopiesMine
  <2> QED BY <2>3, <2>4
<1> QED
  BY <1>1, CheckedHolds, PTL
=============================================================================
