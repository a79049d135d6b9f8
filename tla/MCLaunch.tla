------------------------------ MODULE MCLaunch ------------------------------
(***************************************************************************)
(* Launch for TLC: what flar may be told on an ordinary host, and what it  *)
(* may find for each agent and three places of the project.                *)
(***************************************************************************)
EXTENDS Launch

Wide == [agent |-> "agy", ask |-> "yes", network |-> "host", ports |-> Ports,
         cache |-> "yes"]
File(read, config) == [read |-> read, config |-> config]
Bin(dirs) == dirs \o <<"bin", "agent">>

Ordinary ==
  [project |-> H(<<"src", "p">>), agent |-> Bin(<<"usr">>),
   agentReal |-> Bin(<<"usr">>), flar |-> H(<<"go", "bin", "flar">>),
   has |-> "yes", live |-> "yes", token |-> "yes", memory |-> Own,
   json |-> "parsed", stored |-> "yes", library |-> "yes",
   env |-> {"PATH", "GEMINI_API_KEY", "OPENAI_API_KEY"}]

Told ==
  [flags : {NoConfig, [NoConfig EXCEPT !.agent = "codex", !.ports = {"11434"}],
            [NoConfig EXCEPT !.network = "host"],
            [NoConfig EXCEPT !.network = "unknown"]},
   local : {Absent, File("yes", Wide), File("partly", Wide)},
   global : {Absent, File("yes", [NoConfig EXCEPT !.cache = "yes"]),
             File("yes", [NoConfig EXCEPT !.network = "host", !.agent = "qwen"]),
             File("partly", [NoConfig EXCEPT !.ports = {"9090"}])},
   found : {{}, {"kimi", "reasonix"}}]

Asked(agent, cache) ==
  [flags |-> [NoConfig EXCEPT !.agent = agent, !.cache = cache],
   local |-> Absent, global |-> Absent, found |-> {}]

(* The program: in /usr, in the home directory, or a link from the home    *)
(* directory into /usr; or not found.  And an ordinary host on which one   *)
(* thing is odd: the directories mounted live, the id of the project in    *)
(* mimo's database, or .claude.json.                                       *)
Placed(h, agent, real) == [h EXCEPT !.agent = agent, !.agentReal = real]
Found ==
  LET hosts == {[Ordinary EXCEPT !.project = p, !.has = has, !.stored = stored,
                                 !.token = known, !.library = known,
                                 !.memory = IF known = "yes" THEN Own ELSE "no"] :
                  p \in {H(<<"src", "p">>), <<"srv", "p">>, <<"tmp", "p">>},
                  has \in {"yes", "no"}, stored \in {"yes", "no"},
                  known \in {"yes", "no"}}
      inHome == Bin(H(<<".local">>))
  IN UNION {{h, Placed(h, inHome, inHome), Placed(h, inHome, Bin(<<"usr">>))} :
              h \in hosts}
       \cup {Placed(Ordinary, <<>>, <<>>), [Ordinary EXCEPT !.live = "no"],
             [Ordinary EXCEPT !.memory = "other"], [Ordinary EXCEPT !.json = "odd"]}

MCInputs ==
  [told : Told, host : {Ordinary}]
  \cup [told : {Asked(agent, cache) : agent \in Agents, cache \in {"yes", "no"}},
        host : Found]

(* The hosts are some that the theorems about the mounts speak of. *)
ASSUME ApartAssumption ==
  \A i \in MCInputs : Apart(i.host) /\ FilesApart(i.host)

MCCalls == [arch : {"x86_64", "aarch64", "i386"}, nr : {0, 16, 29, 54},
            low : {21522, 21523}, high : {0, 1}]
=============================================================================
