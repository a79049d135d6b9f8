-------------------------- MODULE ConfigResolution --------------------------
(***************************************************************************)
(* What flar runs and with which network, ports and container cache: flags *)
(* before the configuration file before the default (main.go:67-166,       *)
(* 264-404).  A file that is "partly" read has the fields that could be    *)
(* decoded before an error.                                                *)
(***************************************************************************)
EXTENDS Integers, Sequences

CONSTANT Ports

Order == <<"claude", "codex", "agy", "copilot", "reasonix", "kimi", "pool",
           "qwen", "mimo">>
Agents == {Order[k] : k \in DOMAIN Order}
Networks == {"isolated", "host"}

Strings == Agents \cup Networks \cup {"", "unknown"}
Configs == [agent : Strings, ask : {"yes", "no"}, network : Strings,
            ports : SUBSET Ports, cache : {"yes", "no"}]
NoConfig == [agent |-> "", ask |-> "no", network |-> "", ports |-> {},
             cache |-> "no"]

Absent == [read |-> "absent", config |-> NoConfig]
Files == {Absent} \cup [read : {"yes", "partly"}, config : Configs]

-----------------------------------------------------------------------------
(* loadConfig: a project's file that can be read hides the global one, and *)
(* only its agent and ask are taken.                                       *)
FromProjectWhole(config) == config
FromProject(config) ==
  [NoConfig EXCEPT !.agent = config.agent, !.ask = config.ask]

LoadConfig(local, global) ==
  IF local.read = "yes" THEN FromProject(local.config) ELSE global.config

(* autoDetectAgent: the first agent with a directory, or a key in the      *)
(* environment, on the host.                                               *)
AutoDetect(found) ==
  IF found = {} THEN "claude"
  ELSE Order[CHOOSE k \in DOMAIN Order :
               /\ Order[k] \in found
               /\ \A j \in DOMAIN Order : Order[j] \in found => k <= j]

FirstSet(flag, file, default) ==
  IF flag # "" THEN flag ELSE IF file # "" THEN file ELSE default
Either(flag, file) == IF flag = "yes" THEN "yes" ELSE file

(* main: flags are a configuration of their own.  The merged list of ports *)
(* has no port twice.                                                      *)
Merge(flags, c, detected) ==
  [agent |-> FirstSet(flags.agent, c.agent, detected),
   ask |-> Either(flags.ask, c.ask),
   network |-> FirstSet(flags.network, c.network, "isolated"),
   ports |-> c.ports \cup flags.ports,
   cache |-> Either(flags.cache, c.cache)]

Resolve(flags, local, global, detected) ==
  Merge(flags, LoadConfig(local, global), detected)

Valid(r) == r.agent \in Agents /\ r.network \in Networks

(* r is no wider than q: no network of the host, no port, no directory for *)
(* container images that q does not have.                                  *)
NoWider(r, q) ==
  /\ r.network = "host" => q.network = "host"
  /\ r.ports \subseteq q.ports
  /\ r.cache = "yes" => q.cache = "yes"
=============================================================================
