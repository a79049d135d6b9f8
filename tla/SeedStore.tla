----------------------------- MODULE SeedStore -----------------------------
(***************************************************************************)
(* The seed-once session stores: preparePoolStore, prepareCodexStore,      *)
(* prepareKimiStore, prepareMimoStore, prepareCopilotStore and             *)
(* prepareAgyStore, with the sandbox run that follows and the runs of flar *)
(* that come later or go on at the same time.                              *)
(*                                                                         *)
(* The six differ in what they copy before and after they look at the      *)
(* marker, in how they seed, and in what they do with an error; these are  *)
(* the fields of their policies.  A store is named by the slug of its      *)
(* project's path.                                                         *)
(***************************************************************************)
EXTENDS Integers, FiniteSets

CONSTANTS
  Agents,        \* the agents whose stores are looked at
  Projects,      \* workspace paths
  Slugs,         \* directory names of stores
  SlugOf,        \* [Projects -> Slugs], claudeProjectSlug
  Sessions,      \* session ids, unique on the host and in all stores
  Owner,         \* [Sessions -> Projects], the cwd a session records
  Runs,          \* runs of flar
  Shared,        \* agents whose stores two runs may use at the same time
  Wiped,         \* agents whose own data the user may remove from the host
  MaxHostTurns,  \* bound: turns the host's own agent takes in a session
  MaxFlarTurns,  \* bound: turns a sandboxed agent takes in a session
  MaxConfig      \* bound: versions of a configuration file of the host

(* config: when the configuration is copied; rows: what is taken from a    *)
(* database of the host; files: whether session files are copied after it; *)
(* index: what a resume index names; errors: what an error of the seeding  *)
(* does to the run.                                                        *)
PoolPolicy == [config |-> "never", rows |-> "none", files |-> "yes",
               index |-> "none", errors |-> "stop"]
CodexPolicy == [config |-> "once", rows |-> "snapshot", files |-> "yes",
                index |-> "copied", errors |-> "stop"]
KimiPolicy == [config |-> "once", rows |-> "none", files |-> "yes",
               index |-> "copied", errors |-> "stop"]
MimoPolicy == [config |-> "once", rows |-> "snapshot", files |-> "no",
               index |-> "none", errors |-> "stop"]
CopilotPolicyOnce == [config |-> "once", rows |-> "insert",
                      files |-> "inserted", index |-> "none", errors |-> "stop"]
CopilotPolicy == [config |-> "always", rows |-> "insert", files |-> "inserted",
                  index |-> "none", errors |-> "stop"]
AgyPolicy == [config |-> "never", rows |-> "none", files |-> "yes",
              index |-> "host", errors |-> "ignore"]

Policies == [pool |-> PoolPolicy, codex |-> CodexPolicy, kimi |-> KimiPolicy,
             mimo |-> MimoPolicy, copilot |-> CopilotPolicy, agy |-> AgyPolicy]

ASSUME ConstantsAssumption ==
  /\ Agents \subseteq DOMAIN Policies
  /\ SlugOf \in [Projects -> Slugs]
  /\ Owner \in [Sessions -> Projects]
  /\ MaxHostTurns \in Nat \ {0} /\ MaxFlarTurns \in Nat /\ MaxConfig \in Nat \ {0}

VARIABLES
  agent,      \* the agent whose stores these are
  host,       \* the host's sessions: number of turns, 0 is absent
  hostDb,     \* "there" or "gone": the host's session database
  hostConfig, \* a configuration file of the host: its version, 0 is absent
  seeded,     \* the stores that have the .seeded marker
  store,      \* per store and session: turns from the host and from flar
  storeConfig,\* per store: the version of that file in it, 0 is absent
  index,      \* per store: the sessions its resume index names
  pc,         \* per run: where it is
  proj,       \* per run: its project
  temp,       \* per run: the version that PrepareConfigDir copied
  todo,       \* per run: sessions attributed and not yet copied
  copied,     \* per run: sessions it has copied
  had         \* history, per store: what the host had of the project when a
              \* run last decided to seed the store, and that run could read

hostVars == <<host, hostDb, hostConfig>>
storeVars == <<seeded, store, storeConfig, index>>
runVars == <<pc, temp, todo, copied>>
setting == <<agent, proj>>
vars == <<hostVars, storeVars, runVars, setting, had>>

Policy == Policies[agent]
Nothing == [host |-> 0, flar |-> 0]
Present(e) == e.host + e.flar > 0
Slug(r) == SlugOf[proj[r]]

Preparing == {"config", "check", "rows", "filter", "insert", "files", "copy",
              "index", "mark"}
Stages == Preparing \cup {"idle", "sandbox", "done"}
Active(r) == pc[r] \notin {"idle", "done"}

Init ==
  /\ agent \in Agents
  /\ host \in [Sessions -> {0, 1}]
  /\ hostDb = IF \A c \in Sessions : host[c] = 0 THEN "gone" ELSE "there"
  /\ hostConfig = 1
  /\ seeded = {}
  /\ store = [s \in Slugs |-> [c \in Sessions |-> Nothing]]
  /\ storeConfig = [s \in Slugs |-> 0]
  /\ index = [s \in Slugs |-> {}]
  /\ pc = [r \in Runs |-> "idle"]
  /\ proj \in [Runs -> Projects]
  /\ temp = [r \in Runs |-> 0]
  /\ todo = [r \in Runs |-> {}]
  /\ copied = [r \in Runs |-> {}]
  /\ had = [s \in Slugs |-> {}]

-----------------------------------------------------------------------------
Goto(r, l) == pc' = [pc EXCEPT ![r] = l]

(* The run ends; what it knew goes with it. *)
Exit(r) ==
  /\ Goto(r, "done")
  /\ temp' = [temp EXCEPT ![r] = 0]
  /\ todo' = [todo EXCEPT ![r] = {}]
  /\ copied' = [copied EXCEPT ![r] = {}]

(* What a copied session is in store s: the host's, in place of the old.   *)
Appended(s, c) == [store[s][c] EXCEPT !.host = @ + host[c]]
FromHost(s, c) == [host |-> host[c], flar |-> 0]

OfAnyone(p) == Sessions
Of(p) == {c \in Sessions : Owner[c] = p}

(* The sessions the host attributes to a project at this moment. *)
AttributedAll(p) == {c \in Sessions : host[c] > 0}
Attributed(p) == {c \in Of(p) : host[c] > 0}

(* PrepareConfigDir has copied the configuration; the store comes next. *)
Start(r) ==
  /\ pc[r] = "idle"
  /\ agent \notin Shared => \A q \in Runs : Active(q) => Slug(q) # Slug(r)
  /\ temp' = [temp EXCEPT ![r] = hostConfig]
  /\ Goto(r, IF Policy.config = "always" THEN "config" ELSE "check")
  /\ UNCHANGED <<hostVars, storeVars, todo, copied, setting, had>>

(* The marker decides between the store as it is and seeding it. *)
MarkerIgnored(r) == FALSE
MarkerFound(r) == Slug(r) \in seeded

SeedingStage == IF Policy.rows = "none" THEN "files" ELSE "rows"

CheckMarkerTouching(r) ==
  /\ pc[r] = "check"
  /\ seeded' = seeded \cup {Slug(r)}
  /\ Goto(r, IF MarkerFound(r) THEN "sandbox" ELSE SeedingStage)
  /\ had' = IF MarkerFound(r) THEN had
            ELSE [had EXCEPT ![Slug(r)] = Attributed(proj[r])]
  /\ UNCHANGED <<hostVars, store, storeConfig, index, temp, todo, copied, setting>>

CheckMarker(r) ==
  /\ pc[r] = "check"
  /\ \/ /\ MarkerFound(r)
        /\ Goto(r, "sandbox")
        /\ UNCHANGED had
     \/ /\ ~MarkerFound(r)
        /\ Goto(r, IF Policy.config = "once" THEN "config" ELSE SeedingStage)
        /\ had' = [had EXCEPT ![Slug(r)] = Attributed(proj[r])]
  /\ UNCHANGED <<hostVars, storeVars, temp, todo, copied, setting>>

(* CopyDirExcept of the temporary configuration into the store: it adds    *)
(* and overwrites, and what the host has no file for stays as it is.       *)
Refreshed(r) == [storeConfig EXCEPT ![Slug(r)] = IF temp[r] > 0 THEN temp[r]
                                                                ELSE @]

CopyConfigAndSessions(r) ==
  /\ pc[r] = "config"
  /\ storeConfig' = Refreshed(r)
  /\ store' = [store EXCEPT ![Slug(r)] =
                 [c \in Sessions |-> FromHost(Slug(r), c)]]
  /\ Goto(r, IF Policy.config = "always" THEN "check" ELSE SeedingStage)
  /\ UNCHANGED <<hostVars, seeded, index, temp, todo, copied, setting, had>>

CopyConfig(r) ==
  /\ pc[r] = "config"
  /\ storeConfig' = Refreshed(r)
  /\ Goto(r, IF Policy.config = "always" THEN "check" ELSE SeedingStage)
  /\ UNCHANGED <<hostVars, seeded, store, index, temp, todo, copied, setting, had>>

(* Without a database on the host there are no rows to take; what an       *)
(* earlier seeding has left in the store stays.                            *)
AfterRows == IF Policy.files = "yes" THEN "files" ELSE "index"

NoDatabase(r) ==
  /\ pc[r] = "rows" /\ hostDb = "gone"
  /\ copied' = [copied EXCEPT ![r] = {}]
  /\ Goto(r, AfterRows)
  /\ UNCHANGED <<hostVars, storeVars, temp, todo, setting, had>>

(* VACUUM INTO: the old database goes, a copy of all the host has comes.   *)
Snapshot(r) ==
  /\ pc[r] = "rows" /\ Policy.rows = "snapshot" /\ hostDb = "there"
  /\ store' = [store EXCEPT ![Slug(r)] =
                 [c \in Sessions |-> FromHost(Slug(r), c)]]
  /\ Goto(r, "filter")
  /\ UNCHANGED <<hostVars, seeded, storeConfig, index, temp, todo, copied,
                 setting, had>>

(* The rows that stay: those of the run's own project. *)
KeptAll(r) == Sessions
Kept(r) == Of(proj[r])

Filter(r) ==
  /\ pc[r] = "filter"
  /\ store' = [store EXCEPT ![Slug(r)] =
                 [c \in Sessions |-> IF c \in Kept(r) THEN @[c] ELSE Nothing]]
  /\ copied' = [copied EXCEPT ![r] =
                  {c \in Kept(r) : Present(store[Slug(r)][c])}]
  /\ Goto(r, AfterRows)
  /\ UNCHANGED <<hostVars, seeded, storeConfig, index, temp, todo, setting, had>>

(* Copilot removes the old database and inserts the project's rows in one  *)
(* transaction; the removal is visible before it.  The sessions' files     *)
(* follow.                                                                 *)
RemoveDatabase(r) ==
  /\ pc[r] = "rows" /\ Policy.rows = "insert" /\ hostDb = "there"
  /\ store' = [store EXCEPT ![Slug(r)] = [c \in Sessions |-> Nothing]]
  /\ Goto(r, "insert")
  /\ UNCHANGED <<hostVars, seeded, storeConfig, index, temp, todo, copied,
                 setting, had>>

InsertRows(r) ==
  /\ pc[r] = "insert"
  /\ store' = [store EXCEPT ![Slug(r)] =
                 [c \in Sessions |-> IF c \in Attributed(proj[r])
                                       THEN FromHost(Slug(r), c) ELSE @[c]]]
  /\ copied' = [copied EXCEPT ![r] = {}]
  /\ todo' = [todo EXCEPT ![r] = Attributed(proj[r])]
  /\ Goto(r, "copy")
  /\ UNCHANGED <<hostVars, seeded, storeConfig, index, temp, setting, had>>

(* The session files the host attributes to the project: listed, then      *)
(* copied one by one.  Those that cannot be opened, read or parsed are     *)
(* passed over without an error.                                           *)
AttributeSessions(r) ==
  /\ pc[r] = "files"
  /\ \E unread \in SUBSET Attributed(proj[r]) :
       /\ todo' = [todo EXCEPT ![r] = Attributed(proj[r]) \ unread]
       /\ had' = [had EXCEPT ![Slug(r)] = @ \ unread]
  /\ copied' = [copied EXCEPT ![r] = IF Policy.rows = "none" THEN {} ELSE @]
  /\ Goto(r, "copy")
  /\ UNCHANGED <<hostVars, storeVars, temp, setting>>

CopySession(r, c) ==
  /\ pc[r] = "copy" /\ c \in todo[r] /\ host[c] > 0
  /\ store' = [store EXCEPT ![Slug(r)][c] = FromHost(Slug(r), c)]
  /\ todo' = [todo EXCEPT ![r] = @ \ {c}]
  /\ copied' = [copied EXCEPT ![r] = @ \cup {c}]
  /\ UNCHANGED <<hostVars, seeded, storeConfig, index, pc, temp, setting, had>>

(* Files left out: an error that is ignored, or an inserted session that   *)
(* has none.                                                               *)
SkipSession(r, c) ==
  /\ pc[r] = "copy" /\ c \in todo[r]
  /\ Policy.errors = "ignore" \/ Policy.files = "inserted"
  /\ todo' = [todo EXCEPT ![r] = @ \ {c}]
  /\ UNCHANGED <<hostVars, storeVars, pc, temp, copied, setting, had>>

CopyDoneEarly(r) ==
  /\ pc[r] = "copy"
  /\ Goto(r, "index")
  /\ UNCHANGED <<hostVars, storeVars, temp, todo, copied, setting, had>>

CopyDone(r) ==
  /\ pc[r] = "copy" /\ todo[r] = {}
  /\ Goto(r, "index")
  /\ UNCHANGED <<hostVars, storeVars, temp, todo, copied, setting, had>>

(* The resume index: of the sessions copied, or of those the host's index  *)
(* names when it is read a second time.                                    *)
IndexedFromHost(r) == Attributed(proj[r])
Indexed(r) == CASE Policy.index = "copied" -> copied[r]
                [] Policy.index = "host" -> Attributed(proj[r])
                [] Policy.index = "none" -> {}

WriteIndex(r) ==
  /\ pc[r] = "index"
  /\ index' = [index EXCEPT ![Slug(r)] = Indexed(r)]
  /\ Goto(r, "mark")
  /\ UNCHANGED <<hostVars, seeded, store, storeConfig, temp, todo, copied,
                 setting, had>>

(* The marker, and then the store is bound into the sandbox. *)
WriteMarker(r) ==
  /\ pc[r] = "mark"
  /\ seeded' = seeded \cup {Slug(r)}
  /\ Goto(r, "sandbox")
  /\ UNCHANGED <<hostVars, store, storeConfig, index, temp, todo, copied,
                 setting, had>>

(* A marker that cannot be written: an error, or nothing. *)
MarkerFails(r) ==
  /\ pc[r] = "mark"
  /\ \/ Policy.errors = "stop" /\ Exit(r)
     \/ /\ Policy.errors = "ignore"
        /\ Goto(r, "sandbox")
        /\ UNCHANGED <<temp, todo, copied>>
  /\ UNCHANGED <<hostVars, storeVars, setting, had>>

(* An error of the seeding that ends the run, or flar killed in the midst. *)
Abandon(r) ==
  /\ pc[r] \in Preparing
  /\ Exit(r)
  /\ UNCHANGED <<hostVars, storeVars, setting, had>>

-----------------------------------------------------------------------------
(* The sandboxed agent continues a session it finds in its store. *)
ContinueSession(r, c) ==
  /\ pc[r] = "sandbox"
  /\ Present(store[Slug(r)][c])
  /\ store[Slug(r)][c].flar < MaxFlarTurns
  /\ store' = [store EXCEPT ![Slug(r)][c].flar = @ + 1]
  /\ UNCHANGED <<hostVars, seeded, storeConfig, index, runVars, setting, had>>

(* Or it starts one, under an id nobody else has used. *)
NewSession(r, c) ==
  /\ pc[r] = "sandbox"
  /\ Owner[c] = proj[r] /\ host[c] = 0
  /\ \A s \in Slugs : ~Present(store[s][c])
  /\ MaxFlarTurns > 0
  /\ store' = [store EXCEPT ![Slug(r)][c].flar = 1]
  /\ index' = [index EXCEPT ![Slug(r)] = @ \cup {c}]
  /\ UNCHANGED <<hostVars, seeded, storeConfig, runVars, setting, had>>

(* Or it changes or removes the configuration it finds there. *)
EditConfig(r) ==
  /\ pc[r] = "sandbox" /\ Policy.config # "never"
  /\ \E own \in {0, MaxConfig + 1} :
       storeConfig' = [storeConfig EXCEPT ![Slug(r)] = own]
  /\ UNCHANGED <<hostVars, seeded, store, index, runVars, setting, had>>

EndRun(r) ==
  /\ pc[r] = "sandbox"
  /\ Exit(r)
  /\ UNCHANGED <<hostVars, storeVars, setting, had>>

(* The host's own agent, outside of flar, at any time. *)
HostTurn(c) ==
  /\ host[c] < MaxHostTurns
  /\ host[c] = 0 => \A s \in Slugs : ~Present(store[s][c])
  /\ host' = [host EXCEPT ![c] = @ + 1]
  /\ hostDb' = "there"
  /\ UNCHANGED <<hostConfig, storeVars, runVars, setting, had>>

(* The configuration changes, where a store has a copy of it. *)
HostConfigChange ==
  /\ Policy.config # "never"
  /\ hostConfig' \in 0..MaxConfig \ {hostConfig}
  /\ UNCHANGED <<host, hostDb, storeVars, runVars, setting, had>>

(* The user removes the agent's data from the host. *)
HostWiped ==
  /\ agent \in Wiped /\ hostDb = "there"
  /\ host' = [c \in Sessions |-> 0]
  /\ hostDb' = "gone"
  /\ UNCHANGED <<hostConfig, storeVars, runVars, setting, had>>

Prepare(r) ==
  \/ Start(r) \/ CheckMarker(r) \/ CopyConfig(r)
  \/ NoDatabase(r) \/ Snapshot(r) \/ Filter(r)
  \/ RemoveDatabase(r) \/ InsertRows(r)
  \/ AttributeSessions(r) \/ CopyDone(r)
  \/ \E c \in Sessions : CopySession(r, c) \/ SkipSession(r, c)
  \/ WriteIndex(r) \/ WriteMarker(r) \/ MarkerFails(r) \/ Abandon(r)

Sandbox(r) ==
  \/ \E c \in Sessions : ContinueSession(r, c) \/ NewSession(r, c)
  \/ EditConfig(r) \/ EndRun(r)

Next == \/ \E r \in Runs : Prepare(r) \/ Sandbox(r)
        \/ \E c \in Sessions : HostTurn(c)
        \/ HostConfigChange
        \/ HostWiped

Spec == Init /\ [][Next]_vars

-----------------------------------------------------------------------------
Entry == [host : 0..MaxHostTurns, flar : 0..MaxFlarTurns]

(* Every variable keeps its type, and no session in a store is longer than *)
(* one of the host: a copy replaces what it finds, it does not add to it.  *)
TypeOK ==
  /\ agent \in Agents
  /\ host \in [Sessions -> 0..MaxHostTurns]
  /\ hostDb \in {"there", "gone"}
  /\ hostConfig \in 0..MaxConfig
  /\ seeded \subseteq Slugs
  /\ store \in [Slugs -> [Sessions -> Entry]]
  /\ storeConfig \in [Slugs -> 0..MaxConfig + 1]
  /\ index \in [Slugs -> SUBSET Sessions]
  /\ pc \in [Runs -> Stages]
  /\ proj \in [Runs -> Projects]
  /\ temp \in [Runs -> 0..MaxConfig]
  /\ todo \in [Runs -> SUBSET Sessions]
  /\ copied \in [Runs -> SUBSET Sessions]
  /\ had \in [Slugs -> SUBSET Sessions]

(* A sandbox finds no session in its store whose project is another by the *)
(* name of the store (the seeding filters of all six stores, after any     *)
(* crash in between).  Projects whose slugs are equal share the store.     *)
Belongs(c, s) == SlugOf[Owner[c]] = s

Isolation ==
  \A r \in Runs : pc[r] = "sandbox" =>
    \A c \in Sessions : Present(store[Slug(r)][c]) => Belongs(c, Slug(r))

(* Five of the six stores report an error of their seeding; what follows   *)
(* is said of these, with one run at a time in a store and a host that     *)
(* keeps its data.                                                         *)
Careful == Policy.errors = "stop" /\ agent \notin Shared \cup Wiped

(* No turn a sandboxed agent has added to a session is ever lost to a      *)
(* second seeding (the marker, pool.go:68-78 and its siblings).            *)
NoClobber ==
  [][Careful => \A s \in Slugs, c \in Sessions :
                  store'[s][c].flar >= store[s][c].flar]_vars

(* A store that counts as seeded has every session that the host had of    *)
(* the project when its seeding began and that the seeding could read,     *)
(* whatever crashed before: the marker comes last.  (Sessions that cannot  *)
(* be attributed are omitted, pool.go:126-131.)                            *)
SeedComplete ==
  Careful => \A r \in Runs : pc[r] = "sandbox" =>
               \A c \in had[Slug(r)] : Present(store[Slug(r)][c])

(* What the resume index of a store names is there to be resumed (the      *)
(* index is rebuilt from what was copied, kimi.go:156-188).                *)
IndexNamesPresent ==
  Careful => \A r \in Runs : pc[r] = "sandbox" =>
               \A c \in index[Slug(r)] : Present(store[Slug(r)][c])

(* Copilot's sandbox starts with the files of the host's configuration as  *)
(* this very run found them, also when its sessions were seeded long ago   *)
(* and whatever an earlier sandbox made of the files (copilot.go:27).      *)
ConfigCurrent ==
  [][Careful /\ agent = "copilot" =>
       \A r \in Runs : pc[r] # "sandbox" /\ pc'[r] = "sandbox" /\ temp[r] > 0
                          => storeConfig'[Slug(r)] = temp[r]]_vars

(* A seeded store is a fork of the host's sessions, made once; an unseeded *)
(* one is nothing yet, and so is one that nothing is said of.              *)
Forked == IF Careful THEN seeded ELSE {}
Forks == [s \in Slugs |-> IF s \in Forked THEN store[s]
                                        ELSE [c \in Sessions |-> Nothing]]

F == INSTANCE ForkOnce WITH Stores <- Slugs, forked <- Forked, fork <- Forks

(* The stores implement ForkOnce: filtered at the time of the fork, never  *)
(* refreshed from the host, and changed by the sandboxed agent alone.      *)
ForksOnce == F!Spec
=============================================================================
