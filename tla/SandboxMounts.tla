--------------------------- MODULE SandboxMounts ---------------------------
(***************************************************************************)
(* What the agent finds in its sandbox: the mounts flar lists for bwrap    *)
(* (container.go:317-383, 594-988), which bwrap makes in that order, and   *)
(* the temporary copy of the agent's configuration (config.go:15-218).     *)
(* Paths are sequences of names.  `--dir`, `--symlink`, /proc, /dev and    *)
(* single files of /etc are left out, as are the -wal and -shm files of a  *)
(* database, which go where it goes; the XDG directories are the default   *)
(* ones.  h is what flar finds on the host (Hosts) and r what it was told. *)
(***************************************************************************)
EXTENDS Integers, ConfigResolution, SequencesExt

Home == <<"home", "u">>
H(path) == Home \o path
TempConfig == <<"tmp", "flar-config">>
TempNetDir == <<"tmp", "flar-net">>
AgyDir == <<".gemini", "antigravity-cli">>
FlarState == <<".local", "state", "flar">>

(* Slugs: this project's, and another one's. *)
Own == "own"
Slugs == {Own, "other"}

-----------------------------------------------------------------------------
(* The files (external: what the agents keep).  "mixed" is what holds      *)
(* traces of every project.                                                *)

F(agent, path, class) == [agent |-> agent, path |-> H(path), class |-> class]
All(agent, dir, names, class) == {F(agent, dir \o <<n>>, class) : n \in names}
PerProject(agent, dir) ==
  {F(agent, dir \o <<s>>, IF s = Own THEN "own" ELSE "mixed") : s \in Slugs}

HostFiles ==
  All("claude", <<".claude">>, {"settings.json", "plugins"}, "config")
  \cup All("claude", <<".claude">>, {"history.jsonl", "sessions"}, "mixed")
  \cup PerProject("claude", <<".claude", "projects">>)
  \cup {F("claude", <<".claude.json", "account">>, "config")}
  \cup PerProject("claude", <<".claude.json", "projects">>)
  \cup {F("codex", <<".codex", "auth.json">>, "config")}
  \cup All("codex", <<".codex">>, {"sessions", "history.jsonl",
             "shell_snapshots", "state_5.sqlite", "logs_2.sqlite"}, "mixed")
  \cup {F("agy", <<".gemini", "settings.json">>, "config")}
  \cup All("agy", AgyDir, {"conversations", "brain", "implicit",
             "history.jsonl"}, "mixed")
  \cup {F("agy", AgyDir \o <<"cache", "last_conversations.json">>, "mixed")}
  \cup PerProject("agy", AgyDir \o <<".flar">>)
  \cup {F("copilot", <<".copilot", "config.json">>, "config"),
        F("copilot", <<".config", "gh", "hosts.yml">>, "config")}
  \cup All("copilot", <<".copilot">>, {"session-state", "session-store.db"},
           "mixed")
  \cup PerProject("copilot", <<".copilot", ".flar">>)
  \cup {F("reasonix", <<".reasonix", "config.toml">>, "config"),
        F("reasonix", <<".reasonix", "sessions">>, "mixed")}
  \cup PerProject("reasonix", <<".reasonix", "projects">>)
  \cup All("kimi", <<".kimi-code">>, {"config.toml", "credentials", "oauth"},
           "config")
  \cup All("kimi", <<".kimi-code">>, {"sessions", "session_index.jsonl",
             "user-history", "workspaces.json", "logs"}, "mixed")
  \cup {F("pool", <<".config", "poolside", "settings.yaml">>, "config")}
  \cup All("pool", <<".local", "state", "poolside">>,
           {"sessions", "trajectories"}, "mixed")
  \cup All("qwen", <<".qwen">>, {"settings.json", "skills"}, "config")
  \cup All("qwen", <<".qwen">>, {"tmp", "usage"}, "mixed")
  \cup PerProject("qwen", <<".qwen", "projects">>)
  \cup {F("mimo", <<".config", "mimocode", "config.json">>, "config"),
        F("mimo", <<".local", "share", "mimocode", "auth.json">>, "config")}
  \cup All("mimo", <<".local", "share", "mimocode">>,
           {"mimocode.db", "log", "snapshot"}, "mixed")
  \cup PerProject("mimo", <<".local", "share", "mimocode", "memory", "projects">>)
  \cup UNION {PerProject(a, FlarState \o <<a>>) :
                a \in {"codex", "kimi", "pool", "mimo"}}

-----------------------------------------------------------------------------
(* PrepareConfigDir: what is copied to the temporary directory.            *)

Except(src, as, skip) ==
  [src |-> H(src), as |-> TempConfig \o <<as>>, skip |-> skip, only |-> {<<>>}]
Only(src, as, only) ==
  [src |-> H(src), as |-> TempConfig \o <<as>>, skip |-> {}, only |-> only]
Names(names) == {<<n>> : n \in names}

(* agySkipCopy, without and with the directory of flar's own stores. *)
AgyStoreNames == {"conversations", "brain", "implicit", "history.jsonl"}
AgyHistory ==
  Names(AgyStoreNames) \cup {<<"cache", "last_conversations.json">>}
AgySkipButStores == {<<AgyDir[2]>> \o n : n \in AgyHistory}
AgySkip == {<<AgyDir[2]>> \o n : n \in AgyHistory \cup {<<".flar">>}}

(* Of .claude.json the entries of other projects are left out, unless the   *)
(* file, or its list of projects, cannot be parsed: then it is kept whole.  *)
ClaudeJson(h) ==
  IF h.json = "parsed" THEN {<<"account">>, <<"projects", Own>>} ELSE {<<>>}

CopySpecs(h) ==
  [claude |->
     {Only(<<".claude">>, ".claude",
           Names({".credentials.json", "settings.json", "settings.local.json",
                  "CLAUDE.md", "plugins", "skills", "commands"})),
      Only(<<".claude.json">>, ".claude.json", ClaudeJson(h))},
   codex |->
     {Except(<<".codex">>, ".codex",
             Names({"sessions", "history.jsonl", "shell_snapshots",
                    "logs_2.sqlite", "goals_1.sqlite", "memories_1.sqlite",
                    "state_5.sqlite", ".flar"}))},
   agy |-> {Except(<<".gemini">>, ".gemini", AgySkip)},
   copilot |->
     {Except(<<".copilot">>, ".copilot",
             Names({"session-state", "session-store.db", ".flar"})),
      Except(<<".config", "gh">>, "gh", {})},
   reasonix |-> {Except(<<".reasonix">>, ".reasonix",
                        Names({"projects", "sessions"}))},
   kimi |->
     {Except(<<".kimi-code">>, ".kimi-code",
             Names({"sessions", "session_index.jsonl", "user-history",
                    "workspaces.json", "credentials", "oauth", "logs",
                    "telemetry", "bin", "updates"}))},
   pool |-> {Except(<<".config", "poolside">>, "poolside", {})},
   qwen |-> {Except(<<".qwen">>, ".qwen", Names({"projects", "tmp", "usage"}))},
   mimo |->
     {Except(<<".config", "mimocode">>, "mimocode-config",
             Names({"node_modules", "package.json", "package-lock.json"})),
      Except(<<".local", "share", "mimocode">>, "mimocode-data",
             Names({"mimocode.db", "memory", "log", "snapshot"}))}]

Below(dir, path) == IsPrefix(dir, path)
From(dir, path) == SubSeq(path, Len(dir) + 1, Len(path))

CopiedBy(c, path) ==
  /\ Below(c.src, path)
  /\ \E p \in c.only : Below(p, From(c.src, path))
  /\ \A p \in c.skip : ~Below(p, From(c.src, path))

(* The copies, as files in the temporary directory. *)
TempFiles(agent, h) ==
  UNION {{[f EXCEPT !.path = c.as \o From(c.src, f.path)] :
            f \in {g \in HostFiles : CopiedBy(c, g.path)}} :
         c \in CopySpecs(h)[agent]}

-----------------------------------------------------------------------------
(* RunSandbox: the mounts.  "yes" or "no" in h: `has`, the agent's         *)
(* directories are there; `live`, those mounted as they are, are there or  *)
(* could be made; `token`, agy's keyring has one; `stored`, the store could *)
(* be made; `library`, what qwen's wrapper runs.  `memory` is the project's *)
(* id in the store's mimo database, by which the host's memory directory is *)
(* chosen, or "no"; `json`, whether .claude.json and its list of projects   *)
(* could be parsed.  `agent` is the path of the agent's program (<<>>: not  *)
(* found) and `agentReal` without links.                                    *)

Hosts == [project : Seq(STRING), agent : Seq(STRING), agentReal : Seq(STRING),
          flar : Seq(STRING), has : {"yes", "no"}, live : {"yes", "no"},
          token : {"yes", "no"}, memory : {"no"} \cup Slugs,
          json : {"parsed", "odd"}, stored : {"yes", "no"},
          library : {"yes", "no"},
          env : SUBSET STRING]

Bind(src, dst) == <<[op |-> "bind", src |-> src, dst |-> dst]>>
Tmpfs(dst) == <<[op |-> "tmpfs", src |-> <<>>, dst |-> dst]>>
Live(path) == Bind(H(path), H(path))
When(condition, ops) == IF condition THEN ops ELSE <<>>

System == Tmpfs(<<>>) \o Bind(<<"usr">>, <<"usr">>) \o Bind(<<"opt">>, <<"opt">>)
            \o Tmpfs(<<"tmp">>) \o Tmpfs(<<"run">>)

CacheDir == <<".cache", "flar", "containers">>
Podman(name) == TempConfig \o <<"podman", name>>
ContainerSupport(r) ==
  When(r.cache = "yes", Live(CacheDir))
  \o Bind(Podman("storage.conf"), H(<<".config", "containers", "storage.conf">>))
  \o Bind(Podman("etc-containers"), <<"etc", "containers">>)

Store(agent) == CASE agent = "agy" -> H(AgyDir \o <<".flar", Own>>)
                  [] agent = "copilot" -> H(<<".copilot", ".flar", Own>>)
                  [] OTHER -> H(FlarState \o <<agent, Own>>)

Copy(name, dst) == Bind(TempConfig \o <<name>>, H(dst))
StoreAs(agent, dst) == Bind(Store(agent), H(dst))
AgyPart(path) == Bind(Store("agy") \o path, H(AgyDir \o path))

(* The agent's own mounts.  A live directory comes after the copy that it  *)
(* is part of.                                                             *)
LiveThenCopy(dir, h) ==
  When(h.live = "yes", Live(<<dir, "projects", Own>>)) \o Copy(dir, <<dir>>)
CopyThenLive(dir, h) ==
  Copy(dir, <<dir>>) \o When(h.live = "yes", Live(<<dir, "projects", Own>>))

MemoryDir(id) == <<".local", "share", "mimocode", "memory", "projects", id>>

AgentMounts(agent, h) ==
  LET has == h.has = "yes" IN
  CASE agent = "claude" ->
         When(has, CopyThenLive(".claude", h)
                     \o Copy(".claude.json", <<".claude.json">>))
    [] agent = "codex" -> When(has, StoreAs(agent, <<".codex">>))
    [] agent = "agy" ->
         When(has, Copy(".gemini", <<".gemini">>))
         \o When(has /\ h.stored = "yes",
                 AgyPart(<<"conversations">>) \o AgyPart(<<"brain">>)
                   \o AgyPart(<<"implicit">>) \o AgyPart(<<"history.jsonl">>)
                   \o AgyPart(<<"cache", "last_conversations.json">>))
         \o When(h.token = "yes", Copy("agy-secret", <<".agy-secret">>))
    [] agent = "copilot" ->
         When(has, StoreAs(agent, <<".copilot">>)
                     \o Copy("gh", <<".config", "gh">>))
    [] agent \in {"reasonix", "qwen"} ->
         When(has, CopyThenLive(IF agent = "qwen" THEN ".qwen"
                                                  ELSE ".reasonix", h))
    [] agent = "kimi" ->
         When(has, StoreAs(agent, <<".kimi-code">>)
                     \o When(h.live = "yes",
                             Live(<<".kimi-code", "credentials">>)
                               \o Live(<<".kimi-code", "oauth">>)))
    [] agent = "pool" ->
         When(has, Copy("poolside", <<".config", "poolside">>))
         \o StoreAs(agent, <<".local", "state", "poolside">>)
    [] agent = "mimo" ->
         When(has, Copy("mimocode-config", <<".config", "mimocode">>))
         \o StoreAs(agent, <<".local", "share", "mimocode">>)
         \o When(h.memory # "no" /\ h.live = "yes", Live(MemoryDir(h.memory)))

Project(h) == Bind(h.project, h.project)

Binaries(r, h) ==
  Bind(h.flar, h.flar)
  \o When(~Below(<<"usr">>, h.agentReal), Bind(h.agentReal, h.agent))
  \o When(r.agent = "qwen" /\ h.library = "yes",
          Live(<<".local", "lib", "qwen-code">>))

(* Where an agent looks for its sessions, and where on the host they are. *)
At(path, place) == [at |-> path, is |-> place]
Here(path) == At(H(path), H(path))
InStore(agent, dir, name) == At(H(dir \o <<name>>), Store(agent) \o <<name>>)
Sessions(agent) ==
  CASE agent = "claude" -> {Here(<<".claude", "projects", Own>>)}
    [] agent = "reasonix" -> {Here(<<".reasonix", "projects", Own>>)}
    [] agent = "qwen" -> {Here(<<".qwen", "projects", Own>>)}
    [] agent = "codex" -> {InStore(agent, <<".codex">>, "sessions")}
    [] agent = "agy" -> {InStore(agent, AgyDir, n) : n \in AgyStoreNames}
    [] agent = "copilot" -> {InStore(agent, <<".copilot">>, "session-state")}
    [] agent = "kimi" -> {InStore(agent, <<".kimi-code">>, "sessions"),
                          Here(<<".kimi-code", "credentials">>)}
    [] agent = "pool" -> {InStore(agent, <<".local", "state", "poolside">>, "sessions")}
    [] agent = "mimo" -> {InStore(agent, <<".local", "share", "mimocode">>, "mimocode.db")}

(* What may be shown besides: the list of projects in a .claude.json that  *)
(* was copied whole, and the memory that mimo's database names.            *)
Exposed(agent, h) ==
  CASE agent = "claude" /\ h.json = "odd" ->
         {TempConfig \o <<".claude.json", "projects">>}
    [] agent = "mimo" /\ h.memory # "no" -> {H(MemoryDir(h.memory))}
    [] OTHER -> {}

(* `prepared` says whether PrepareConfigDir returned a directory.  Had the *)
(* project come first, the empty /tmp would hide a project below it.       *)
MountsProjectFirst(r, h, prepared) ==
  Project(h) \o System
  \o When(prepared, ContainerSupport(r) \o AgentMounts(r.agent, h)
                       \o Copy(".gitconfig", <<".gitconfig">>))
  \o Binaries(r, h)
  \o When(r.network = "isolated", Bind(TempNetDir, <<"run", "flar-net">>))

Mounts(r, h, prepared) ==
  System \o When(prepared, ContainerSupport(r)) \o Project(h)
  \o When(prepared, AgentMounts(r.agent, h)
                       \o Copy(".gitconfig", <<".gitconfig">>))
  \o Binaries(r, h)
  \o When(r.network = "isolated", Bind(TempNetDir, <<"run", "flar-net">>))

-----------------------------------------------------------------------------
(* What a list of mounts makes of a path (external: bwrap and the kernel): *)
(* the last mount at or above it decides.                                  *)

Cover(ops, path) ==
  CHOOSE k \in DOMAIN ops :
    /\ Below(ops[k].dst, path)
    /\ \A j \in DOMAIN ops : Below(ops[j].dst, path) => j <= k

Fresh == <<"(tmpfs)">>
View(ops, path) ==
  LET op == ops[Cover(ops, path)]
  IN IF op.op = "tmpfs" THEN Fresh ELSE op.src \o From(op.dst, path)

(* Whether a file of the host can be seen anywhere. *)
Visible(ops, path) ==
  \E k \in DOMAIN ops :
    /\ ops[k].op = "bind" /\ Below(ops[k].src, path)
    /\ Cover(ops, ops[k].dst \o From(ops[k].src, path)) = k

-----------------------------------------------------------------------------
(* Where agents keep what is mounted over the home directory, what must be *)
(* seen in its place there, and hosts on which no mount gets in the way of *)
(* another one: the project is not inside a directory that is mounted over *)
(* later, nothing is inside a program, and nothing of the host in flar's   *)
(* place in /run.                                                          *)
MountedOver ==
  {<<".claude">>, <<".claude.json">>, <<".codex">>, <<".gemini">>,
   <<".agy-secret">>, <<".copilot">>, <<".config", "gh">>, <<".reasonix">>,
   <<".kimi-code">>, <<".config", "poolside">>,
   <<".local", "state", "poolside">>, <<".qwen">>, <<".config", "mimocode">>,
   <<".local", "share", "mimocode">>, <<".gitconfig">>}
Kept == {H(CacheDir), H(<<".agy-secret">>)}
          \cup UNION {{s.at : s \in Sessions(a)} : a \in Agents}

Apart(h) ==
  /\ \A dir \in MountedOver : ~Below(H(dir), h.project)
  /\ \A path \in {h.project, h.flar, h.agent} : ~Below(<<"run", "flar-net">>, path)
  /\ h.agent # <<>> =>
       /\ ~Below(h.agent, h.flar)
       /\ \A program \in {h.flar, h.agent}, path \in Kept \cup {h.project} :
            ~Below(program, path)

(* Hosts on which no program is at or above a file of an agent. *)
FilesApart(h) ==
  h.agent # <<>> =>
    \A program \in {h.flar, h.agentReal}, f \in HostFiles : ~Below(program, f.path)
=============================================================================
