------------------------------ MODULE Launch ------------------------------
(***************************************************************************)
(* One start of an agent: the settings (main.go:67-166), the temporary     *)
(* configuration (main.go:186), the options for bwrap (container.go:       *)
(* 504-1071) and the script that bwrap runs in the sandbox (477-499, and   *)
(* main.go:36-64 for its helpers).  Processes and descriptors of the run   *)
(* are in SandboxRun, proxies and directories on the host in Session.      *)
(***************************************************************************)
EXTENDS SandboxMounts, SeccompFilter

CONSTANTS Inputs,    \* [told, host]: what flar is told and finds
          MaxTries,  \* how often the script looks for the socket (50)
          Calls      \* system calls

Http == "http"
Secrets == "secrets"
Helpers == {Http, Secrets} \cup Ports
PortOf(n) == IF n = Http THEN "9090" ELSE n

ASSUME LaunchAssumption ==
  /\ MaxTries \in Nat \ {0}
  /\ \A i \in Inputs : /\ i.told.flags \in Configs
                       /\ i.told.local \in Files /\ i.told.global \in Files
                       /\ i.told.found \subseteq Agents
                       /\ i.host \in Hosts

VARIABLES
  told,      \* flags, the project's and the global file, agents found
  host,      \* what there is on the host
  stage,     \* where flar, and then the script, is
  settings,  \* what main has resolved
  prepared,  \* "yes" when PrepareConfigDir has returned a directory
  helper,    \* the relays, by their port, and the secret service
  tries      \* how often the script has looked for the socket

inputVars == <<told, host>>
vars == <<inputVars, stage, settings, prepared, helper, tries>>

Script == {"relays", "sleep", "service", "wait"}

Init ==
  /\ \E i \in Inputs : told = i.told /\ host = i.host
  /\ stage = "resolve"
  /\ settings = NoConfig
  /\ prepared = "no"
  /\ helper = [n \in Helpers |-> "none"]
  /\ tries = 0

-----------------------------------------------------------------------------
(* The environment that is meant for the sandbox.                          *)

CommonEnvVars == {"PATH", "TERM", "USER", "USERNAME", "LOGNAME",
                  "XDG_CONFIG_HOME", "XDG_STATE_HOME"}
AgentEnvVars ==
  [claude |-> {"ANTHROPIC_API_KEY"}, codex |-> {"OPENAI_API_KEY"},
   agy |-> {"GEMINI_API_KEY"},
   copilot |-> {"GITHUB_TOKEN", "GH_TOKEN", "COPILOT_GITHUB_TOKEN"},
   reasonix |-> {"DEEPSEEK_API_KEY"}, kimi |-> {"KIMI_API_KEY"},
   pool |-> {"POOLSIDE_API_KEY", "POOLSIDE_API_URL"},
   qwen |-> {"DASHSCOPE_API_KEY", "BAILIAN_CODING_PLAN_API_KEY",
             "BAILIAN_TOKEN_PLAN_API_KEY"},
   mimo |-> {"XIAOMI_API_KEY"}]
EnvVarsForAgent(agent) == CommonEnvVars \cup AgentEnvVars[agent]
Credentials == UNION {AgentEnvVars[a] : a \in Agents}

-----------------------------------------------------------------------------
(* main and RunSandbox.                                                    *)

Resolved == Resolve(told.flags, told.local, told.global, AutoDetect(told.found))

ResolveSettings ==
  /\ stage = "resolve"
  /\ settings' = Resolved
  /\ stage' = IF Valid(Resolved) THEN "prepare" ELSE "failed"
  /\ UNCHANGED <<inputVars, prepared, helper, tries>>

(* An error is a warning: the sandbox is run without the configuration. *)
Prepare ==
  /\ stage = "prepare"
  /\ prepared' \in {"yes", "no"}
  /\ stage' = "options"
  /\ UNCHANGED <<inputVars, settings, helper, tries>>

(* Stores are made while the options are listed; only agy does without.    *)
(* The files for podman may fail to be written.                            *)
NeedsStore ==
  /\ prepared = "yes"
  /\ \/ settings.agent \in {"codex", "copilot", "kimi"} /\ host.has = "yes"
     \/ settings.agent \in {"pool", "mimo"}

BuildOptions ==
  /\ stage = "options"
  /\ \/ /\ host.agent # <<>> /\ (NeedsStore => host.stored = "yes")
        /\ stage' = "relays"
     \/ /\ \/ host.agent = <<>>
           \/ NeedsStore /\ host.stored = "no"
           \/ prepared = "yes"
        /\ stage' = "failed"
  /\ UNCHANGED <<inputVars, settings, prepared, helper, tries>>

Ops == Mounts(settings, host, prepared = "yes")
UsesSecrets ==
  settings.agent = "agy" /\ prepared = "yes" /\ host.token = "yes"

(* bwrap starts with the environment it gets (external: it clears none      *)
(* without --clearenv), which is flar's own; --setenv adds to it.           *)
Environment ==
  host.env
  \cup {"HOME", "XDG_RUNTIME_DIR", "TMPDIR", "PODMAN_IGNORE_CGROUPSV1_WARNING"}
  \cup (EnvVarsForAgent(settings.agent) \cap host.env)
  \cup (IF UsesSecrets THEN {"DBUS_SESSION_BUS_ADDRESS", "FLAR_AGY_SECRET_FILE"}
                       ELSE {})
  \cup (IF settings.network = "isolated"
        THEN {"HTTP_PROXY", "HTTPS_PROXY", "http_proxy", "https_proxy"} ELSE {})

-----------------------------------------------------------------------------
(* sandboxAgentScript.                                                     *)

StartRelays ==
  /\ stage = "relays"
  /\ IF settings.network = "isolated"
     THEN /\ helper' = [n \in Helpers |->
                          IF n \in {Http} \cup settings.ports
                          THEN "starting" ELSE helper[n]]
          /\ stage' = "sleep"
     ELSE /\ stage' = "service"
          /\ UNCHANGED helper
  /\ UNCHANGED <<inputVars, settings, prepared, tries>>

(* 0.2 s pass, whatever the relays have done in that time. *)
Slept == /\ stage = "sleep"
         /\ stage' = "service"
         /\ UNCHANGED <<inputVars, settings, prepared, helper, tries>>

StartService ==
  /\ stage = "service"
  /\ IF UsesSecrets
     THEN /\ helper' = [helper EXCEPT ![Secrets] = "starting"]
          /\ stage' = "wait"
     ELSE /\ stage' = "agent"
          /\ UNCHANGED helper
  /\ UNCHANGED <<inputVars, settings, prepared, tries>>

(* `[ -S socket ]`: there as soon as the service has bound it. *)
SocketSeen == helper[Secrets] \in {"bound", "listening"}

LookForever ==
  /\ stage = "wait"
  /\ stage' = IF SocketSeen THEN "agent" ELSE "wait"
  /\ UNCHANGED <<inputVars, settings, prepared, helper, tries>>

Look ==
  /\ stage = "wait"
  /\ IF SocketSeen \/ tries = MaxTries
     THEN stage' = "agent" /\ UNCHANGED tries
     ELSE tries' = tries + 1 /\ UNCHANGED stage
  /\ UNCHANGED <<inputVars, settings, prepared, helper>>

(* A helper binds its port or socket, listens, or exits with an error. *)
Taken(n) == \E m \in Helpers \ {n} : /\ PortOf(m) = PortOf(n)
                                     /\ helper[m] \in {"bound", "listening"}

BindHelper(n) ==
  /\ helper[n] = "starting" /\ ~Taken(n)
  /\ helper' = [helper EXCEPT ![n] = "bound"]
  /\ UNCHANGED <<inputVars, stage, settings, prepared, tries>>

ListenHelper(n) ==
  /\ helper[n] = "bound"
  /\ helper' = [helper EXCEPT ![n] = "listening"]
  /\ UNCHANGED <<inputVars, stage, settings, prepared, tries>>

HelperExits(n) ==
  /\ helper[n] \in {"starting", "bound"}
  /\ helper' = [helper EXCEPT ![n] = "dead"]
  /\ UNCHANGED <<inputVars, stage, settings, prepared, tries>>

-----------------------------------------------------------------------------
Sequential == \/ ResolveSettings \/ Prepare \/ BuildOptions
              \/ StartRelays \/ Slept \/ StartService \/ Look

Next == Sequential \/ \E n \in Helpers : BindHelper(n) \/ ListenHelper(n) \/ HelperExits(n)

Spec == Init /\ [][Next]_vars

(* flar and the script go on; nothing makes a helper do so. *)
FairSpec == Spec /\ WF_vars(Sequential)

-----------------------------------------------------------------------------
(* Properties.                                                             *)

(* A project's file, which comes with a repository, never gives the sandbox *)
(* the network of the host, a port or the container cache that it would not *)
(* have without that file (main.go:264-304, 128-166).                       *)
ProjectCannotWiden ==
  stage # "resolve" =>
    NoWider(settings, Resolve(told.flags, Absent, told.global,
                              AutoDetect(told.found)))

(* Of all that the agents keep on the host, the sandbox shows the agent's   *)
(* own configuration and the project's own history, directly or as a copy,  *)
(* and what the user has in the project's directory.  Of other projects it  *)
(* shows only what a .claude.json that cannot be parsed has of them, and    *)
(* the memory of that one which the store's mimo database names             *)
(* (config.go:226-391, container.go:687-890).                               *)
OnlyOwnHistory ==
  stage = "agent" =>
    \A f \in HostFiles \cup TempFiles(settings.agent, host) :
      Visible(Ops, f.path) =>
        \/ f.agent = settings.agent /\ f.class \in {"config", "own"}
        \/ \E dir \in Exposed(settings.agent, host) : Below(dir, f.path)
        \/ Below(host.project, f.path)

(* No mount hides what an earlier one has put in place: the project, the    *)
(* binaries, the sockets, the token, and where the agent keeps its sessions *)
(* are what they are on the host, so that work and sessions outlive the     *)
(* sandbox (container.go:594-960).                                          *)
InPlace ==
  stage = "agent" =>
    /\ \A path \in {host.project, host.flar} : View(Ops, path) = path
    /\ (Below(<<"usr">>, host.agentReal) => Below(<<"usr">>, host.agent))
         => View(Ops, host.agent) \in {host.agent, host.agentReal}
    /\ settings.network = "isolated" =>
         View(Ops, <<"run", "flar-net">>) = TempNetDir
    /\ UsesSecrets =>
         View(Ops, H(<<".agy-secret">>)) = TempConfig \o <<"agy-secret">>
    /\ prepared = "yes" /\ settings.cache = "yes" =>
         View(Ops, H(CacheDir)) = H(CacheDir)
    /\ (/\ prepared = "yes" /\ host.has = "yes"
        /\ host.stored = "yes" /\ host.live = "yes") =>
         \A s \in Sessions(settings.agent) : View(Ops, s.at) = s.is

(* The filter refuses TIOCSTI on the two architectures it knows, and no     *)
(* other call on any (container.go:385-456).                                *)
TiocstiDenied ==
  stage = "agent" =>
    \A call \in Calls : Verdict(call) = IF MustDeny(call) THEN "EPERM" ELSE "ALLOW"

(* The script reaches the agent, whatever becomes of the relays and of the  *)
(* secret service (container.go:477-499).                                   *)
AgentStarts == stage \in Script ~> stage = "agent"

(* Of the credentials in flar's environment the sandbox gets those of its   *)
(* own agent: "Only the variables for the agent actually being run are      *)
(* forwarded" (container.go:52-56, 962-969).                                *)
EnvOnlyListed ==
  stage = "agent" =>
    \A name \in Environment : name \in Credentials => name \in AgentEnvVars[settings.agent]
=============================================================================
