-------------------------- MODULE SeedStoreProofs --------------------------
(***************************************************************************)
(* Proofs about SeedStore, for every set of projects, sessions and runs,   *)
(* every slug function and every number of turns.                          *)
(***************************************************************************)
EXTENDS SeedStore, TLAPS

(* What the six policies have in common. *)
LEMMA PolicyFacts ==
  ASSUME agent \in Agents
  PROVE  Policy.index \in {"copied", "host", "none"}
  <1>1. agent \in {"pool", "codex", "kimi", "mimo", "copilot", "agy"}
    BY ConstantsAssumption DEF Policies
  <1>2. CASE agent = "pool"
    BY <1>2 DEF Policy, Policies, PoolPolicy
  <1>3. CASE agent = "codex"
    BY <1>3 DEF Policy, Policies, CodexPolicy
  <1>4. CASE agent = "kimi"
    BY <1>4 DEF Policy, Policies, KimiPolicy
  <1>5. CASE agent = "mimo"
    BY <1>5 DEF Policy, Policies, MimoPolicy
  <1>6. CASE agent = "copilot"
    BY <1>6 DEF Policy, Policies, CopilotPolicy
  <1>7. CASE agent = "agy"
    BY <1>7 DEF Policy, Policies, AgyPolicy
  <1> QED BY <1>1, <1>2, <1>3, <1>4, <1>5, <1>6, <1>7

(* What the steps write in a store are entries. *)
LEMMA EntryTypes ==
  ASSUME TypeOK
  PROVE  /\ Nothing \in Entry
         /\ \A s \in Slugs, c \in Sessions : FromHost(s, c) \in Entry
         /\ \A r \in Runs : Slug(r) \in Slugs
         /\ \A p \in Projects : Attributed(p) \subseteq Sessions
  BY ConstantsAssumption
     DEF TypeOK, Entry, Nothing, FromHost, Slug, Attributed, Of

(* So is an entry with one more turn. *)
LEMMA EntryTurn ==
  ASSUME NEW e \in Entry
  PROVE  /\ e.flar < MaxFlarTurns => [e EXCEPT !.flar = @ + 1] \in Entry
         /\ MaxFlarTurns > 0 => [e EXCEPT !.flar = 1] \in Entry
  <1>1. /\ e.flar \in 0..MaxFlarTurns /\ e.host \in 0..MaxHostTurns
        /\ e = [host |-> e.host, flar |-> e.flar]
    BY DEF Entry
  <1>2. ASSUME NEW n \in 0..MaxFlarTurns PROVE [e EXCEPT !.flar = n] \in Entry
    BY <1>1 DEF Entry
  <1> QED BY <1>1, <1>2, ConstantsAssumption

(* The type invariant holds in every reachable state. *)
THEOREM TypeCorrect == Spec => []TypeOK
<1> USE ConstantsAssumption
<1>1. Init => TypeOK
  <2>1. Nothing \in Entry
    BY DEF Nothing, Entry
  <2> SUFFICES ASSUME Init PROVE TypeOK
    OBVIOUS
  <2>2. /\ agent \in Agents /\ seeded \subseteq Slugs
        /\ hostDb \in {"there", "gone"} /\ hostConfig \in 0..MaxConfig
    BY DEF Init
  <2>3. host \in [Sessions -> 0..MaxHostTurns]
    <3>1. host \in [Sessions -> {0, 1}] /\ {0, 1} \subseteq 0..MaxHostTurns
      BY DEF Init
    <3> QED BY <3>1
  <2>4. store \in [Slugs -> [Sessions -> Entry]]
    BY <2>1 DEF Init
  <2>5. /\ storeConfig \in [Slugs -> 0..MaxConfig + 1] /\ index \in [Slugs -> SUBSET Sessions]
        /\ had \in [Slugs -> SUBSET Sessions]
    BY DEF Init
  <2>6. pc \in [Runs -> Stages] /\ proj \in [Runs -> Projects]
    BY DEF Init, Stages
  <2>7. /\ temp \in [Runs -> 0..MaxConfig] /\ todo \in [Runs -> SUBSET Sessions]
        /\ copied \in [Runs -> SUBSET Sessions]
    BY DEF Init
  <2> QED BY <2>2, <2>3, <2>4, <2>5, <2>6, <2>7 DEF TypeOK
<1>2. TypeOK /\ [Next]_vars => TypeOK'
  <2> SUFFICES ASSUME TypeOK, [Next]_vars PROVE TypeOK'
    OBVIOUS
  <2>0. /\ Nothing \in Entry
        /\ \A s \in Slugs, c \in Sessions : FromHost(s, c) \in Entry
        /\ \A r \in Runs : Slug(r) \in Slugs
        /\ \A p \in Projects : Attributed(p) \subseteq Sessions
        /\ store \in [Slugs -> [Sessions -> Entry]]
    BY EntryTypes DEF TypeOK, Entry
  <2> USE DEF TypeOK, Goto, Stages, Preparing, hostVars, storeVars, runVars,
          setting
  <2>1. ASSUME NEW r \in Runs, Start(r) PROVE TypeOK'
    BY <2>1 DEF Start
  <2>2. ASSUME NEW r \in Runs, CheckMarker(r) PROVE TypeOK'
    <3> DEFINE a == Attributed(proj[r])
    <3>1. a \subseteq Sessions
      BY <2>0
    <3>2. had' = had \/ had' = [had EXCEPT ![Slug(r)] = a]
      BY <2>2 DEF CheckMarker
    <3> HIDE DEF a
    <3>3. had' \in [Slugs -> SUBSET Sessions]
      BY <3>1, <3>2
    <3>4. pc' \in [Runs -> Stages]
      BY <2>2 DEF CheckMarker, SeedingStage
    <3> QED BY <2>2, <3>3, <3>4 DEF CheckMarker
  <2>3. ASSUME NEW r \in Runs, CopyConfig(r) PROVE TypeOK'
    <3>1. Refreshed(r) \in [Slugs -> 0..MaxConfig + 1]
      BY <2>0 DEF Refreshed
    <3> QED BY <2>3, <3>1 DEF CopyConfig, SeedingStage
  <2>4. ASSUME NEW r \in Runs, NoDatabase(r) PROVE TypeOK'
    BY <2>4 DEF NoDatabase, AfterRows
  <2>5. ASSUME NEW r \in Runs, Snapshot(r) PROVE TypeOK'
    BY <2>0, <2>5 DEF Snapshot
  <2>6. ASSUME NEW r \in Runs, Filter(r) PROVE TypeOK'
    BY <2>0, <2>6 DEF Filter, AfterRows, Kept, Of
  <2>7. ASSUME NEW r \in Runs, RemoveDatabase(r) PROVE TypeOK'
    BY <2>0, <2>7 DEF RemoveDatabase
  <2>8. ASSUME NEW r \in Runs, InsertRows(r) PROVE TypeOK'
    BY <2>0, <2>8 DEF InsertRows
  <2>9. ASSUME NEW r \in Runs, AttributeSessions(r) PROVE TypeOK'
    BY <2>0, <2>9 DEF AttributeSessions
  <2>10. ASSUME NEW r \in Runs, NEW c \in Sessions, CopySession(r, c)
          PROVE  TypeOK'
    BY <2>0, <2>10 DEF CopySession
  <2>11. ASSUME NEW r \in Runs, NEW c \in Sessions, SkipSession(r, c)
          PROVE  TypeOK'
    BY <2>11 DEF SkipSession
  <2>12. ASSUME NEW r \in Runs, CopyDone(r) PROVE TypeOK'
    BY <2>12 DEF CopyDone
  <2>13. ASSUME NEW r \in Runs, WriteIndex(r) PROVE TypeOK'
    BY <2>0, PolicyFacts, <2>13 DEF WriteIndex, Indexed
  <2>14. ASSUME NEW r \in Runs, WriteMarker(r) PROVE TypeOK'
    BY <2>0, <2>14 DEF WriteMarker
  <2>15. ASSUME NEW r \in Runs, MarkerFails(r) PROVE TypeOK'
    <3>1. CASE Exit(r)
      BY <2>15, <3>1 DEF MarkerFails, Exit
    <3>2. CASE pc' = [pc EXCEPT ![r] = "sandbox"] /\ UNCHANGED <<temp, todo, copied>>
      BY <2>15, <3>2 DEF MarkerFails
    <3> QED BY <2>15, <3>1, <3>2 DEF MarkerFails
  <2>16. ASSUME NEW r \in Runs, Abandon(r) PROVE TypeOK'
    BY <2>16 DEF Abandon, Exit
  <2>17. ASSUME NEW r \in Runs, NEW c \in Sessions, ContinueSession(r, c)
          PROVE  TypeOK'
    <3> DEFINE e == store[Slug(r)][c]
    <3>1. e \in Entry /\ e.flar < MaxFlarTurns
      BY <2>0, <2>17 DEF ContinueSession
    <3>2. [e EXCEPT !.flar = @ + 1] \in Entry
      BY <3>1, EntryTurn
    <3>3. store' = [store EXCEPT ![Slug(r)] =
                     [@ EXCEPT ![c] = [e EXCEPT !.flar = @ + 1]]]
      BY <2>0, <2>17 DEF ContinueSession
    <3> HIDE DEF e
    <3>4. store' \in [Slugs -> [Sessions -> Entry]]
      BY <2>0, <3>2, <3>3
    <3> QED BY <2>17, <3>4 DEF ContinueSession
  <2>18. ASSUME NEW r \in Runs, NEW c \in Sessions, NewSession(r, c)
          PROVE  TypeOK'
    <3> DEFINE e == store[Slug(r)][c]
    <3>1. e \in Entry /\ MaxFlarTurns > 0
      BY <2>0, <2>18 DEF NewSession
    <3>2. [e EXCEPT !.flar = 1] \in Entry
      BY <3>1, EntryTurn
    <3>3. store' = [store EXCEPT ![Slug(r)] =
                     [@ EXCEPT ![c] = [e EXCEPT !.flar = 1]]]
      BY <2>0, <2>18 DEF NewSession
    <3> HIDE DEF e
    <3>4. store' \in [Slugs -> [Sessions -> Entry]]
      BY <2>0, <3>2, <3>3
    <3> QED BY <2>0, <2>18, <3>4 DEF NewSession
  <2>19. ASSUME NEW r \in Runs, EndRun(r) PROVE TypeOK'
    BY <2>19 DEF EndRun, Exit
  <2>24. ASSUME NEW r \in Runs, EditConfig(r) PROVE TypeOK'
    <3>1. PICK own \in {0, MaxConfig + 1} :
             storeConfig' = [storeConfig EXCEPT ![Slug(r)] = own]
      BY <2>24 DEF EditConfig
    <3>2. own \in 0..MaxConfig + 1
      OBVIOUS
    <3>3. storeConfig' \in [Slugs -> 0..MaxConfig + 1]
      BY <3>1, <3>2
    <3> QED BY <2>24, <3>3 DEF EditConfig
  <2>20. ASSUME NEW c \in Sessions, HostTurn(c) PROVE TypeOK'
    BY <2>20 DEF HostTurn
  <2>21. CASE HostConfigChange
    BY <2>21 DEF HostConfigChange
  <2>22. CASE HostWiped
    BY <2>22 DEF HostWiped
  <2>23. CASE UNCHANGED vars
    BY <2>23 DEF vars
  <2> QED
    BY <2>1, <2>2, <2>3, <2>4, <2>5, <2>6, <2>7, <2>8, <2>9, <2>10,
       <2>11, <2>12, <2>13, <2>14, <2>15, <2>16, <2>17, <2>18, <2>19,
       <2>20, <2>21, <2>22, <2>23, <2>24
       DEF Next, Prepare, Sandbox
<1> QED BY <1>1, <1>2, PTL DEF Spec

-----------------------------------------------------------------------------
(* What is in the stores, and who is at work on them.  Isolation is not    *)
(* inductive: between a snapshot and its filter a store holds the sessions *)
(* of every project, and what keeps them from a sandbox is that the store  *)
(* is then unmarked and in the hands of one run.                           *)

Clean(s) == \A c \in Sessions : Present(store[s][c]) => Belongs(c, s)

Seeding(r) == \/ pc[r] \in {"rows", "filter", "insert", "files", "copy",
                            "index", "mark"}
              \/ pc[r] = "config" /\ Policy.config # "always"

Seeded == {"insert", "files", "copy", "index", "mark", "sandbox"}

OwnTodo == \A r \in Runs : todo[r] \subseteq Of(proj[r])

Alone ==
  agent \notin Shared =>
    \A q, r \in Runs : q # r /\ Active(q) /\ Active(r) => Slug(q) # Slug(r)

Unmarked ==
  agent \notin Shared => \A r \in Runs : Seeding(r) => Slug(r) \notin seeded

PureFiles == Policy.rows # "snapshot" => \A s \in Slugs : Clean(s)

PureSnapshots ==
  agent \notin Shared \cup Wiped =>
    /\ hostDb = "gone" => \A s \in Slugs : Clean(s)
    /\ \A s \in seeded : Clean(s)
    /\ \A r \in Runs : pc[r] \in Seeded => Clean(Slug(r))

(* No step changes the agent or the project of a run. *)
LEMMA AgentStays ==
  ASSUME [Next]_vars
  PROVE  UNCHANGED setting
BY DEF Next, Prepare, Sandbox, vars, setting, Start, CheckMarker, CopyConfig,
       NoDatabase, Snapshot, Filter, RemoveDatabase, InsertRows,
       AttributeSessions, CopySession, SkipSession, CopyDone, WriteIndex,
       WriteMarker, MarkerFails, Abandon, ContinueSession, NewSession, EditConfig, EndRun, Exit,
       HostTurn, HostConfigChange, HostWiped

(* A run copies sessions of its own project only. *)
LEMMA OwnTodoInvariant == Spec => []OwnTodo
<1>1. Init => OwnTodo
  BY DEF Init, OwnTodo
<1>2. TypeOK /\ OwnTodo /\ [Next]_vars => OwnTodo'
  <2> SUFFICES ASSUME TypeOK, OwnTodo, [Next]_vars PROVE OwnTodo'
    OBVIOUS
  <2>0. \A p : Attributed(p) \subseteq Of(p)
    BY DEF Attributed
  <2> USE DEF TypeOK, OwnTodo, Of, setting, runVars
  <2>1. ASSUME NEW r \in Runs, Start(r) PROVE OwnTodo'
    BY <2>1 DEF Start
  <2>2. ASSUME NEW r \in Runs, CheckMarker(r) PROVE OwnTodo'
    BY <2>2 DEF CheckMarker
  <2>3. ASSUME NEW r \in Runs, CopyConfig(r) PROVE OwnTodo'
    BY <2>3 DEF CopyConfig
  <2>4. ASSUME NEW r \in Runs, NoDatabase(r) PROVE OwnTodo'
    BY <2>4 DEF NoDatabase
  <2>5. ASSUME NEW r \in Runs, Snapshot(r) PROVE OwnTodo'
    BY <2>5 DEF Snapshot
  <2>6. ASSUME NEW r \in Runs, Filter(r) PROVE OwnTodo'
    BY <2>6 DEF Filter
  <2>7. ASSUME NEW r \in Runs, RemoveDatabase(r) PROVE OwnTodo'
    BY <2>7 DEF RemoveDatabase
  <2>8. ASSUME NEW r \in Runs, InsertRows(r) PROVE OwnTodo'
    BY <2>0, <2>8 DEF InsertRows
  <2>9. ASSUME NEW r \in Runs, AttributeSessions(r) PROVE OwnTodo'
    BY <2>0, <2>9 DEF AttributeSessions
  <2>10. ASSUME NEW r \in Runs, NEW c \in Sessions, CopySession(r, c)
          PROVE  OwnTodo'
    BY <2>10 DEF CopySession
  <2>11. ASSUME NEW r \in Runs, NEW c \in Sessions, SkipSession(r, c)
          PROVE  OwnTodo'
    BY <2>11 DEF SkipSession
  <2>12. ASSUME NEW r \in Runs, CopyDone(r) PROVE OwnTodo'
    BY <2>12 DEF CopyDone
  <2>13. ASSUME NEW r \in Runs, WriteIndex(r) PROVE OwnTodo'
    BY <2>13 DEF WriteIndex
  <2>14. ASSUME NEW r \in Runs, WriteMarker(r) PROVE OwnTodo'
    BY <2>14 DEF WriteMarker
  <2>15. ASSUME NEW r \in Runs, MarkerFails(r) PROVE OwnTodo'
    BY <2>15 DEF MarkerFails, Exit
  <2>16. ASSUME NEW r \in Runs, Abandon(r) PROVE OwnTodo'
    BY <2>16 DEF Abandon, Exit
  <2>17. ASSUME NEW r \in Runs, NEW c \in Sessions, ContinueSession(r, c)
          PROVE  OwnTodo'
    BY <2>17 DEF ContinueSession
  <2>18. ASSUME NEW r \in Runs, NEW c \in Sessions, NewSession(r, c)
          PROVE  OwnTodo'
    BY <2>18 DEF NewSession
  <2>19. ASSUME NEW r \in Runs, EndRun(r) PROVE OwnTodo'
    BY <2>19 DEF EndRun, Exit
  <2>24. ASSUME NEW r \in Runs, EditConfig(r) PROVE OwnTodo'
    BY <2>24 DEF EditConfig
  <2>20. ASSUME NEW c \in Sessions, HostTurn(c) PROVE OwnTodo'
    BY <2>20 DEF HostTurn
  <2>21. CASE HostConfigChange
    BY <2>21 DEF HostConfigChange
  <2>22. CASE HostWiped
    BY <2>22 DEF HostWiped
  <2>23. CASE UNCHANGED vars
    BY <2>23 DEF vars
  <2> QED
    BY <2>1, <2>2, <2>3, <2>4, <2>5, <2>6, <2>7, <2>8, <2>9, <2>10,
       <2>11, <2>12, <2>13, <2>14, <2>15, <2>16, <2>17, <2>18, <2>19,
       <2>20, <2>21, <2>22, <2>23, <2>24
       DEF Next, Prepare, Sandbox
<1> QED BY <1>1, <1>2, TypeCorrect, PTL DEF Spec

(* Stores that are not shared are in the hands of one run at a time. *)
LEMMA AloneInvariant == Spec => []Alone
<1>1. Init => Alone
  BY DEF Init, Alone, Active
<1>2. TypeOK /\ Alone /\ [Next]_vars => Alone'
  <2> SUFFICES ASSUME TypeOK, Alone, [Next]_vars PROVE Alone'
    OBVIOUS
  <2> USE DEF TypeOK, Alone, Active, Slug, Goto, Stages, Preparing, setting,
          runVars
  <2>1. ASSUME NEW r \in Runs, Start(r) PROVE Alone'
    BY <2>1 DEF Start
  <2>2. ASSUME NEW r \in Runs, CheckMarker(r) PROVE Alone'
    BY <2>2 DEF CheckMarker
  <2>3. ASSUME NEW r \in Runs, CopyConfig(r) PROVE Alone'
    BY <2>3 DEF CopyConfig
  <2>4. ASSUME NEW r \in Runs, NoDatabase(r) PROVE Alone'
    BY <2>4 DEF NoDatabase
  <2>5. ASSUME NEW r \in Runs, Snapshot(r) PROVE Alone'
    BY <2>5 DEF Snapshot
  <2>6. ASSUME NEW r \in Runs, Filter(r) PROVE Alone'
    BY <2>6 DEF Filter
  <2>7. ASSUME NEW r \in Runs, RemoveDatabase(r) PROVE Alone'
    BY <2>7 DEF RemoveDatabase
  <2>8. ASSUME NEW r \in Runs, InsertRows(r) PROVE Alone'
    BY <2>8 DEF InsertRows
  <2>9. ASSUME NEW r \in Runs, AttributeSessions(r) PROVE Alone'
    BY <2>9 DEF AttributeSessions
  <2>10. ASSUME NEW r \in Runs, NEW c \in Sessions, CopySession(r, c)
          PROVE  Alone'
    BY <2>10 DEF CopySession
  <2>11. ASSUME NEW r \in Runs, NEW c \in Sessions, SkipSession(r, c)
          PROVE  Alone'
    BY <2>11 DEF SkipSession
  <2>12. ASSUME NEW r \in Runs, CopyDone(r) PROVE Alone'
    BY <2>12 DEF CopyDone
  <2>13. ASSUME NEW r \in Runs, WriteIndex(r) PROVE Alone'
    BY <2>13 DEF WriteIndex
  <2>14. ASSUME NEW r \in Runs, WriteMarker(r) PROVE Alone'
    BY <2>14 DEF WriteMarker
  <2>15. ASSUME NEW r \in Runs, MarkerFails(r) PROVE Alone'
    BY <2>15 DEF MarkerFails, Exit
  <2>16. ASSUME NEW r \in Runs, Abandon(r) PROVE Alone'
    BY <2>16 DEF Abandon, Exit
  <2>17. ASSUME NEW r \in Runs, NEW c \in Sessions, ContinueSession(r, c)
          PROVE  Alone'
    BY <2>17 DEF ContinueSession
  <2>18. ASSUME NEW r \in Runs, NEW c \in Sessions, NewSession(r, c)
          PROVE  Alone'
    BY <2>18 DEF NewSession
  <2>19. ASSUME NEW r \in Runs, EndRun(r) PROVE Alone'
    BY <2>19 DEF EndRun, Exit
  <2>24. ASSUME NEW r \in Runs, EditConfig(r) PROVE Alone'
    BY <2>24 DEF EditConfig
  <2>20. ASSUME NEW c \in Sessions, HostTurn(c) PROVE Alone'
    BY <2>20 DEF HostTurn
  <2>21. CASE HostConfigChange
    BY <2>21 DEF HostConfigChange
  <2>22. CASE HostWiped
    BY <2>22 DEF HostWiped
  <2>23. CASE UNCHANGED vars
    BY <2>23 DEF vars
  <2> QED
    BY <2>1, <2>2, <2>3, <2>4, <2>5, <2>6, <2>7, <2>8, <2>9, <2>10,
       <2>11, <2>12, <2>13, <2>14, <2>15, <2>16, <2>17, <2>18, <2>19,
       <2>20, <2>21, <2>22, <2>23, <2>24
       DEF Next, Prepare, Sandbox
<1> QED BY <1>1, <1>2, TypeCorrect, PTL DEF Spec

(* A run that seeds a store seeds one that is not marked. *)
LEMMA UnmarkedInvariant == Spec => []Unmarked
<1>1. Init => Unmarked
  BY DEF Init, Unmarked, Seeding
<1>2. TypeOK /\ Alone /\ Unmarked /\ [Next]_vars => Unmarked'
  <2> SUFFICES ASSUME TypeOK, Alone, Unmarked, [Next]_vars PROVE Unmarked'
    OBVIOUS
  <2> USE DEF TypeOK, Unmarked, Seeding, Slug, Goto, Stages, Preparing,
          Policy, hostVars, storeVars, setting, runVars
  <2>1. ASSUME NEW r \in Runs, Start(r) PROVE Unmarked'
    BY <2>1 DEF Start
  <2>2. ASSUME NEW r \in Runs, CheckMarker(r) PROVE Unmarked'
    BY <2>2 DEF CheckMarker, SeedingStage, MarkerFound
  <2>3. ASSUME NEW r \in Runs, CopyConfig(r) PROVE Unmarked'
    BY <2>3 DEF CopyConfig, SeedingStage
  <2>4. ASSUME NEW r \in Runs, NoDatabase(r) PROVE Unmarked'
    BY <2>4 DEF NoDatabase, AfterRows
  <2>5. ASSUME NEW r \in Runs, Snapshot(r) PROVE Unmarked'
    BY <2>5 DEF Snapshot
  <2>6. ASSUME NEW r \in Runs, Filter(r) PROVE Unmarked'
    BY <2>6 DEF Filter, AfterRows
  <2>7. ASSUME NEW r \in Runs, RemoveDatabase(r) PROVE Unmarked'
    BY <2>7 DEF RemoveDatabase
  <2>8. ASSUME NEW r \in Runs, InsertRows(r) PROVE Unmarked'
    BY <2>8 DEF InsertRows
  <2>9. ASSUME NEW r \in Runs, AttributeSessions(r) PROVE Unmarked'
    BY <2>9 DEF AttributeSessions
  <2>10. ASSUME NEW r \in Runs, NEW c \in Sessions, CopySession(r, c)
          PROVE  Unmarked'
    BY <2>10 DEF CopySession
  <2>11. ASSUME NEW r \in Runs, NEW c \in Sessions, SkipSession(r, c)
          PROVE  Unmarked'
    BY <2>11 DEF SkipSession
  <2>12. ASSUME NEW r \in Runs, CopyDone(r) PROVE Unmarked'
    BY <2>12 DEF CopyDone
  <2>13. ASSUME NEW r \in Runs, WriteIndex(r) PROVE Unmarked'
    BY <2>13 DEF WriteIndex
  <2>14. ASSUME NEW r \in Runs, WriteMarker(r) PROVE Unmarked'
    BY <2>14 DEF WriteMarker, Alone, Active
  <2>15. ASSUME NEW r \in Runs, MarkerFails(r) PROVE Unmarked'
    BY <2>15 DEF MarkerFails, Exit
  <2>16. ASSUME NEW r \in Runs, Abandon(r) PROVE Unmarked'
    BY <2>16 DEF Abandon, Exit
  <2>17. ASSUME NEW r \in Runs, NEW c \in Sessions, ContinueSession(r, c)
          PROVE  Unmarked'
    BY <2>17 DEF ContinueSession
  <2>18. ASSUME NEW r \in Runs, NEW c \in Sessions, NewSession(r, c)
          PROVE  Unmarked'
    BY <2>18 DEF NewSession
  <2>19. ASSUME NEW r \in Runs, EndRun(r) PROVE Unmarked'
    BY <2>19 DEF EndRun, Exit
  <2>24. ASSUME NEW r \in Runs, EditConfig(r) PROVE Unmarked'
    BY <2>24 DEF EditConfig
  <2>20. ASSUME NEW c \in Sessions, HostTurn(c) PROVE Unmarked'
    BY <2>20 DEF HostTurn
  <2>21. CASE HostConfigChange
    BY <2>21 DEF HostConfigChange
  <2>22. CASE HostWiped
    BY <2>22 DEF HostWiped
  <2>23. CASE UNCHANGED vars
    BY <2>23 DEF vars
  <2> QED
    BY <2>1, <2>2, <2>3, <2>4, <2>5, <2>6, <2>7, <2>8, <2>9, <2>10,
       <2>11, <2>12, <2>13, <2>14, <2>15, <2>16, <2>17, <2>18, <2>19,
       <2>20, <2>21, <2>22, <2>23, <2>24
       DEF Next, Prepare, Sandbox
<1> QED BY <1>1, <1>2, TypeCorrect, AloneInvariant, PTL DEF Spec

(* A store that holds its own project's sessions only goes on to do so,    *)
(* unless a snapshot is put in it.                                         *)
LEMMA CleanStep ==
  ASSUME TypeOK, OwnTodo, [Next]_vars, NEW s \in Slugs, Clean(s),
         \A r \in Runs : Slug(r) = s => ~Snapshot(r)
  PROVE  Clean(s)'
<1> USE DEF TypeOK
<1>0. /\ ~Present(Nothing)
      /\ \A r \in Runs : Slug(r) \in Slugs
      /\ \A r \in Runs : \A c \in Of(proj[r]) : Belongs(c, Slug(r))
      /\ \A p : Attributed(p) \subseteq Of(p)
      /\ \A r \in Runs : todo[r] \subseteq Of(proj[r])
  BY ConstantsAssumption
     DEF Present, Nothing, Slug, Of, Belongs, Attributed, OwnTodo
<1>1. ASSUME store'[s] = store[s] PROVE Clean(s)'
  BY <1>1 DEF Clean, Belongs
<1>2. ASSUME \A c \in Sessions : Present(store'[s][c]) =>
               Present(store[s][c]) \/ Belongs(c, s)
      PROVE  Clean(s)'
  BY <1>2 DEF Clean, Belongs
<1>3. CASE UNCHANGED store
  BY <1>1, <1>3
<1>4. ASSUME NEW r \in Runs, Snapshot(r) PROVE Clean(s)'
  BY <1>0, <1>1, <1>4 DEF Snapshot
<1>5. ASSUME NEW r \in Runs, Filter(r) PROVE Clean(s)'
  BY <1>0, <1>2, <1>5 DEF Filter
<1>6. ASSUME NEW r \in Runs, RemoveDatabase(r) PROVE Clean(s)'
  BY <1>0, <1>2, <1>6 DEF RemoveDatabase
<1>7. ASSUME NEW r \in Runs, InsertRows(r) PROVE Clean(s)'
  BY <1>0, <1>2, <1>7 DEF InsertRows
<1>8. ASSUME NEW r \in Runs, NEW c \in Sessions, CopySession(r, c)
      PROVE  Clean(s)'
  BY <1>0, <1>2, <1>8 DEF CopySession
<1>9. ASSUME NEW r \in Runs, NEW c \in Sessions, ContinueSession(r, c)
      PROVE  Clean(s)'
  BY <1>0, <1>2, <1>9 DEF ContinueSession
<1>10. ASSUME NEW r \in Runs, NEW c \in Sessions, NewSession(r, c)
       PROVE  Clean(s)'
  BY <1>0, <1>2, <1>10 DEF NewSession, Of
<1> QED
  <2> USE DEF storeVars
  <2>1. ASSUME NEW r \in Runs, Prepare(r) PROVE Clean(s)'
    BY <2>1, <1>3, <1>4, <1>5, <1>6, <1>7, <1>8
       DEF Prepare, Start, CheckMarker, CopyConfig, NoDatabase, CopyDone,
           AttributeSessions, SkipSession, WriteIndex, WriteMarker,
           MarkerFails, Abandon
  <2>2. ASSUME NEW r \in Runs, Sandbox(r) PROVE Clean(s)'
    BY <2>2, <1>3, <1>9, <1>10 DEF Sandbox, EditConfig, EndRun
  <2> QED BY <1>3, <2>1, <2>2
             DEF Next, vars, HostTurn, HostConfigChange, HostWiped

(* Stores that are filled without a snapshot are pure at all times, under  *)
(* any interleaving of runs, errors and crashes.                           *)
LEMMA PureFilesInvariant == Spec => []PureFiles
<1>1. Init => PureFiles
  BY DEF Init, PureFiles, Clean, Nothing, Present
<1>2. TypeOK /\ OwnTodo /\ PureFiles /\ [Next]_vars => PureFiles'
  <2> SUFFICES ASSUME TypeOK, OwnTodo, PureFiles, [Next]_vars,
                      Policy'.rows # "snapshot", NEW s \in Slugs
               PROVE  Clean(s)'
    BY DEF PureFiles
  <2>1. Policy' = Policy
    BY AgentStays DEF Policy, setting
  <2>2. Clean(s) /\ \A r \in Runs : ~Snapshot(r)
    BY <2>1 DEF PureFiles, Snapshot
  <2> QED BY <2>2, CleanStep
<1> QED BY <1>1, <1>2, TypeCorrect, OwnTodoInvariant, PTL DEF Spec

(* A store filled with a snapshot is impure only while one run has it and  *)
(* no sandbox does.                                                        *)
LEMMA PureSnapshotsInvariant == Spec => []PureSnapshots
<1>1. Init => PureSnapshots
  BY DEF Init, PureSnapshots, Clean, Nothing, Present, Seeded, Slug
<1>2. /\ TypeOK /\ OwnTodo /\ Alone /\ Unmarked /\ PureFiles /\ PureSnapshots
      /\ [Next]_vars /\ PureFiles'
      => PureSnapshots'
  <2> SUFFICES ASSUME TypeOK, OwnTodo, Alone, Unmarked, PureFiles,
                      PureSnapshots, [Next]_vars, PureFiles',
                      agent' \notin Shared \cup Wiped
               PROVE  PureSnapshots'
    BY DEF PureSnapshots
  <2>0. /\ agent' = agent /\ proj' = proj /\ Policy' = Policy
        /\ \A r \in Runs : Slug(r) \in Slugs /\ Slug(r)' = Slug(r)
    BY AgentStays, ConstantsAssumption DEF setting, Policy, Slug, TypeOK
  <2>1. ASSUME NEW s \in Slugs, Clean(s),
               \A r \in Runs : Slug(r) = s => ~Snapshot(r)
        PROVE  Clean(s)'
    BY <2>1, CleanStep
  <2>2. ASSUME hostDb' = "gone", NEW s \in Slugs PROVE Clean(s)'
    <3>1. hostDb = "gone"
      BY <2>0, <2>2 DEF Next, Prepare, Sandbox, vars, hostVars, Start,
         CheckMarker, CopyConfig, NoDatabase, Snapshot, Filter,
         RemoveDatabase, InsertRows, AttributeSessions, CopySession,
         SkipSession, CopyDone, WriteIndex, WriteMarker, MarkerFails, Abandon,
         ContinueSession, NewSession, EditConfig, EndRun, Exit, HostTurn, HostConfigChange,
         HostWiped
    <3>2. Clean(s) /\ \A r \in Runs : ~Snapshot(r)
      BY <2>0, <3>1 DEF PureSnapshots, Snapshot
    <3> QED BY <2>1, <3>2
  <2>3. ASSUME NEW s \in seeded PROVE Clean(s)'
    <3>1. s \in Slugs /\ Clean(s)
      BY <2>0 DEF PureSnapshots, TypeOK
    <3>2. \A r \in Runs : Slug(r) = s => ~Snapshot(r)
      BY <2>0 DEF Unmarked, Seeding, Snapshot
    <3> QED BY <2>1, <3>1, <3>2
  <2>4. ASSUME NEW r \in Runs, pc[r] \in Seeded PROVE Clean(Slug(r))'
    <3>1. Clean(Slug(r))
      BY <2>0, <2>4 DEF PureSnapshots
    <3>2. \A q \in Runs : Slug(q) = Slug(r) => ~Snapshot(q)
      BY <2>0, <2>4 DEF Alone, Active, Snapshot, Seeded
    <3>3. \A s \in Slugs : s = Slug(r) => Clean(s)'
      BY <2>1, <3>1, <3>2
    <3> QED BY <2>0, <3>3 DEF Clean, Belongs
  <2>5. ASSUME NEW r \in Runs, pc[r] \notin Seeded, pc'[r] \in Seeded
        PROVE  Clean(Slug(r))'
    <3> USE DEF Goto, Seeded, runVars, TypeOK
    <3>1. CASE Policy.rows # "snapshot"
      BY <2>0, <3>1 DEF PureFiles
    <3>2. CASE CheckMarker(r) /\ MarkerFound(r)
      <4>1. Slug(r) \in seeded
        BY <3>2 DEF MarkerFound
      <4> QED BY <2>0, <2>3, <4>1 DEF Clean, Belongs
    <3>3. CASE CheckMarker(r) /\ ~MarkerFound(r) /\ Policy.rows = "snapshot"
      BY <2>5, <3>3 DEF CheckMarker, SeedingStage
    <3>4. CASE CopyConfig(r) /\ Policy.rows = "snapshot"
      BY <2>5, <3>4 DEF CopyConfig, SeedingStage
    <3>5. CASE NoDatabase(r)
      <4>1. hostDb' = "gone"
        BY <3>5 DEF NoDatabase, hostVars
      <4> QED BY <2>0, <2>2, <4>1 DEF Clean, Belongs
    <3>6. CASE Filter(r)
      <4>1. \A c \in Sessions : store'[Slug(r)][c] =
              IF c \in Of(proj[r]) THEN store[Slug(r)][c] ELSE Nothing
        BY <2>0, <3>6 DEF Filter, Kept
      <4>2. \A c \in Sessions : Present(store'[Slug(r)][c]) =>
                                  Belongs(c, Slug(r))
        BY <4>1 DEF Present, Nothing, Of, Belongs, Slug
      <4> QED BY <2>0, <4>2 DEF Clean, Belongs
    <3>7. CASE RemoveDatabase(r)
      <4>1. \A c \in Sessions : ~Present(store'[Slug(r)][c])
        BY <2>0, <3>7 DEF RemoveDatabase, Present, Nothing
      <4> QED BY <2>0, <4>1 DEF Clean
    <3>8. CheckMarker(r) \/ CopyConfig(r) \/ NoDatabase(r) \/ Filter(r)
            \/ RemoveDatabase(r)
      BY <2>5 DEF Next, Prepare, Sandbox, vars, Start, CheckMarker,
         CopyConfig, NoDatabase, Snapshot, Filter, RemoveDatabase,
         InsertRows, AttributeSessions, CopySession, SkipSession, CopyDone,
         WriteIndex, WriteMarker, MarkerFails, Abandon, ContinueSession,
         NewSession, EditConfig, EndRun, Exit, HostTurn, HostConfigChange, HostWiped
    <3> QED BY <3>1, <3>2, <3>3, <3>4, <3>5, <3>6, <3>7, <3>8
  <2>6. ASSUME NEW s \in seeded' \ seeded PROVE Clean(s)'
    <3>1. PICK r \in Runs : WriteMarker(r)
      BY <2>6 DEF Next, Prepare, Sandbox, vars, storeVars, Start, CheckMarker,
         CopyConfig, NoDatabase, Snapshot, Filter, RemoveDatabase,
         InsertRows, AttributeSessions, CopySession, SkipSession, CopyDone,
         WriteIndex, WriteMarker, MarkerFails, Abandon, ContinueSession,
         NewSession, EditConfig, EndRun, Exit, HostTurn, HostConfigChange, HostWiped
    <3>2. s = Slug(r) /\ pc[r] \in Seeded
      BY <2>6, <3>1 DEF WriteMarker, Seeded
    <3>3. Clean(Slug(r))'
      BY <2>4, <3>2
    <3> QED BY <2>0, <3>2, <3>3 DEF Clean, Belongs
  <2> QED BY <2>2, <2>3, <2>4, <2>5, <2>6 DEF PureSnapshots
<1> QED BY <1>1, <1>2, TypeCorrect, OwnTodoInvariant, AloneInvariant,
           UnmarkedInvariant, PureFilesInvariant, PTL DEF Spec

(* Of the four stores that take no snapshot of a database, none ever shows *)
(* a sandbox a session of a project with another slug: whatever runs work  *)
(* in it at the same time, wherever they crash, and whatever becomes of    *)
(* the host's data.                                                        *)
THEOREM IsolationHolds ==
  ASSUME \A a \in Agents : Policies[a].rows # "snapshot"
  PROVE  Spec => []Isolation
<1>1. TypeOK /\ PureFiles => Isolation
  <2> SUFFICES ASSUME TypeOK, PureFiles, NEW r \in Runs,
                      NEW c \in Sessions, Present(store[Slug(r)][c])
               PROVE  Belongs(c, Slug(r))
    BY DEF Isolation
  <2>1. Slug(r) \in Slugs
    BY ConstantsAssumption DEF TypeOK, Slug
  <2>2. Clean(Slug(r))
    BY <2>1 DEF PureFiles, Policy, TypeOK
  <2> QED BY <2>2 DEF Clean
<1> QED BY <1>1, TypeCorrect, PureFilesInvariant, PTL

(* The two that do are isolated where one run at a time has the store and  *)
(* the host keeps its data, which the code does not see to.                *)
LEMMA IsolationOfSnapshots ==
  ASSUME Agents \cap (Shared \cup Wiped) = {}
  PROVE  Spec => []Isolation
<1>1. TypeOK /\ PureSnapshots => Isolation
  <2> SUFFICES ASSUME TypeOK, PureSnapshots, NEW r \in Runs, pc[r] = "sandbox",
                      NEW c \in Sessions, Present(store[Slug(r)][c])
               PROVE  Belongs(c, Slug(r))
    BY DEF Isolation
  <2>1. Clean(Slug(r))
    BY DEF PureSnapshots, TypeOK, Seeded
  <2> QED BY <2>1 DEF Clean
<1> QED BY <1>1, TypeCorrect, PureSnapshotsInvariant, PTL

-----------------------------------------------------------------------------
(* Where errors stop the run, only a marked store has met a sandbox.       *)

Marked ==
  Careful => \A r \in Runs : pc[r] = "sandbox" => Slug(r) \in seeded

Fresh ==
  Careful => \A s \in Slugs \ seeded, c \in Sessions :
               store[s][c].flar = 0 /\ store[s][c].host <= host[c]

(* Marked holds in every reachable state. *)
LEMMA MarkedInvariant == Spec => []Marked
<1>1. Init => Marked
  BY DEF Init, Marked
<1>2. TypeOK /\ Marked /\ [Next]_vars => Marked'
  <2> SUFFICES ASSUME TypeOK, Marked, [Next]_vars PROVE Marked'
    OBVIOUS
  <2>0. UNCHANGED setting
    BY AgentStays
  <2> USE DEF TypeOK, Marked, Careful, Slug, Policy, Goto, Stages, Preparing,
          storeVars, setting, runVars
  <2>1. ASSUME NEW r \in Runs, Start(r) PROVE Marked'
    BY <2>0, <2>1 DEF Start
  <2>2. ASSUME NEW r \in Runs, CheckMarker(r) PROVE Marked'
    BY <2>0, <2>2 DEF CheckMarker, MarkerFound, SeedingStage
  <2>3. ASSUME NEW r \in Runs, CopyConfig(r) PROVE Marked'
    BY <2>0, <2>3 DEF CopyConfig, SeedingStage
  <2>4. ASSUME NEW r \in Runs, NoDatabase(r) PROVE Marked'
    BY <2>0, <2>4 DEF NoDatabase, AfterRows
  <2>5. ASSUME NEW r \in Runs, Snapshot(r) PROVE Marked'
    BY <2>0, <2>5 DEF Snapshot
  <2>6. ASSUME NEW r \in Runs, Filter(r) PROVE Marked'
    BY <2>0, <2>6 DEF Filter, AfterRows
  <2>7. ASSUME NEW r \in Runs, RemoveDatabase(r) PROVE Marked'
    BY <2>0, <2>7 DEF RemoveDatabase
  <2>8. ASSUME NEW r \in Runs, InsertRows(r) PROVE Marked'
    BY <2>0, <2>8 DEF InsertRows
  <2>9. ASSUME NEW r \in Runs, AttributeSessions(r) PROVE Marked'
    BY <2>0, <2>9 DEF AttributeSessions
  <2>10. ASSUME NEW r \in Runs, NEW c \in Sessions, CopySession(r, c)
          PROVE  Marked'
    BY <2>0, <2>10 DEF CopySession
  <2>11. ASSUME NEW r \in Runs, NEW c \in Sessions, SkipSession(r, c)
          PROVE  Marked'
    BY <2>0, <2>11 DEF SkipSession
  <2>12. ASSUME NEW r \in Runs, CopyDone(r) PROVE Marked'
    BY <2>0, <2>12 DEF CopyDone
  <2>13. ASSUME NEW r \in Runs, WriteIndex(r) PROVE Marked'
    BY <2>0, <2>13 DEF WriteIndex
  <2>14. ASSUME NEW r \in Runs, WriteMarker(r) PROVE Marked'
    BY <2>0, <2>14 DEF WriteMarker
  <2>15. ASSUME NEW r \in Runs, MarkerFails(r) PROVE Marked'
    BY <2>0, <2>15 DEF MarkerFails, Exit
  <2>16. ASSUME NEW r \in Runs, Abandon(r) PROVE Marked'
    BY <2>0, <2>16 DEF Abandon, Exit
  <2>17. ASSUME NEW r \in Runs, NEW c \in Sessions, ContinueSession(r, c)
          PROVE  Marked'
    BY <2>0, <2>17 DEF ContinueSession
  <2>18. ASSUME NEW r \in Runs, NEW c \in Sessions, NewSession(r, c)
          PROVE  Marked'
    BY <2>0, <2>18 DEF NewSession
  <2>19. ASSUME NEW r \in Runs, EndRun(r) PROVE Marked'
    BY <2>0, <2>19 DEF EndRun, Exit
  <2>24. ASSUME NEW r \in Runs, EditConfig(r) PROVE Marked'
    BY <2>0, <2>24 DEF EditConfig
  <2>20. ASSUME NEW c \in Sessions, HostTurn(c) PROVE Marked'
    BY <2>0, <2>20 DEF HostTurn
  <2>21. CASE HostConfigChange
    BY <2>0, <2>21 DEF HostConfigChange
  <2>22. CASE HostWiped
    BY <2>0, <2>22 DEF HostWiped
  <2>23. CASE UNCHANGED vars
    BY <2>0, <2>23 DEF vars
  <2> QED
    BY <2>1, <2>2, <2>3, <2>4, <2>5, <2>6, <2>7, <2>8, <2>9, <2>10,
       <2>11, <2>12, <2>13, <2>14, <2>15, <2>16, <2>17, <2>18, <2>19,
       <2>20, <2>21, <2>22, <2>23, <2>24
       DEF Next, Prepare, Sandbox
<1> QED BY <1>1, <1>2, TypeCorrect, PTL DEF Spec

(* A seeding step works on a store without a marker. *)
LEMMA SeedingStep ==
  ASSUME Careful, Unmarked, NEW r \in Runs,
         pc[r] \in {"rows", "filter", "insert", "files", "copy", "index", "mark"}
  PROVE  Slug(r) \notin seeded
BY DEF Careful, Unmarked, Seeding

(* Nothing in a store without a marker is from a sandbox, or newer than    *)
(* what the host has.                                                      *)
LEMMA FreshInvariant == Spec => []Fresh
<1>1. Init => Fresh
  BY DEF Init, Fresh, Nothing
<1>2. TypeOK /\ Marked /\ Fresh /\ [Next]_vars => Fresh'
  <2> SUFFICES ASSUME TypeOK, Marked, Fresh, [Next]_vars, Careful'
               PROVE  \A s \in Slugs \ seeded', c \in Sessions :
                        /\ store'[s][c].flar = 0
                        /\ store'[s][c].host <= host'[c]
    BY DEF Fresh
  <2> DEFINE Goal == \A s \in Slugs \ seeded', c \in Sessions :
                        /\ store'[s][c].flar = 0
                        /\ store'[s][c].host <= host'[c]
  <2>0. /\ Careful
        /\ \A c \in Sessions : host[c] \in Nat
        /\ \A s \in Slugs \ seeded, c \in Sessions :
             /\ store[s][c].flar = 0
             /\ store[s][c].host <= host[c]
             /\ store[s][c].host \in Nat
        /\ \A c \in Sessions, s \in Slugs :
             FromHost(s, c).flar = 0 /\ FromHost(s, c).host = host[c]
        /\ \A c \in Sessions : Nothing.flar = 0 /\ Nothing.host <= host[c]
        /\ \A r \in Runs : Slug(r) \in Slugs
    BY AgentStays, ConstantsAssumption
       DEF setting, Careful, Policy, TypeOK, Fresh, Entry, FromHost, Nothing,
           Slug
  <2> USE DEF TypeOK, hostVars, storeVars
  <2>1. ASSUME NEW r \in Runs, Start(r) PROVE Goal
    BY <2>0, <2>1 DEF Start
  <2>2. ASSUME NEW r \in Runs, CheckMarker(r) PROVE Goal
    BY <2>0, <2>2 DEF CheckMarker
  <2>3. ASSUME NEW r \in Runs, CopyConfig(r) PROVE Goal
    BY <2>0, <2>3 DEF CopyConfig
  <2>4. ASSUME NEW r \in Runs, NoDatabase(r) PROVE Goal
    BY <2>0, <2>4 DEF NoDatabase
  <2>5. ASSUME NEW r \in Runs, Snapshot(r) PROVE Goal
    BY <2>0, <2>5 DEF Snapshot
  <2>6. ASSUME NEW r \in Runs, Filter(r) PROVE Goal
    BY <2>0, <2>6 DEF Filter
  <2>7. ASSUME NEW r \in Runs, RemoveDatabase(r) PROVE Goal
    BY <2>0, <2>7 DEF RemoveDatabase
  <2>8. ASSUME NEW r \in Runs, InsertRows(r) PROVE Goal
    BY <2>0, <2>8 DEF InsertRows
  <2>9. ASSUME NEW r \in Runs, AttributeSessions(r) PROVE Goal
    BY <2>0, <2>9 DEF AttributeSessions
  <2>10. ASSUME NEW r \in Runs, NEW c \in Sessions, CopySession(r, c)
          PROVE  Goal
    BY <2>0, <2>10 DEF CopySession
  <2>11. ASSUME NEW r \in Runs, NEW c \in Sessions, SkipSession(r, c)
          PROVE  Goal
    BY <2>0, <2>11 DEF SkipSession
  <2>12. ASSUME NEW r \in Runs, CopyDone(r) PROVE Goal
    BY <2>0, <2>12 DEF CopyDone
  <2>13. ASSUME NEW r \in Runs, WriteIndex(r) PROVE Goal
    BY <2>0, <2>13 DEF WriteIndex
  <2>14. ASSUME NEW r \in Runs, WriteMarker(r) PROVE Goal
    BY <2>0, <2>14 DEF WriteMarker
  <2>15. ASSUME NEW r \in Runs, MarkerFails(r) PROVE Goal
    BY <2>0, <2>15 DEF MarkerFails, Exit
  <2>16. ASSUME NEW r \in Runs, Abandon(r) PROVE Goal
    BY <2>0, <2>16 DEF Abandon, Exit
  <2>17. ASSUME NEW r \in Runs, NEW c \in Sessions, ContinueSession(r, c)
          PROVE  Goal
    BY <2>0, <2>17 DEF ContinueSession, Marked
  <2>18. ASSUME NEW r \in Runs, NEW c \in Sessions, NewSession(r, c)
          PROVE  Goal
    BY <2>0, <2>18 DEF NewSession, Marked
  <2>19. ASSUME NEW r \in Runs, EndRun(r) PROVE Goal
    BY <2>0, <2>19 DEF EndRun, Exit
  <2>24. ASSUME NEW r \in Runs, EditConfig(r) PROVE Goal
    BY <2>0, <2>24 DEF EditConfig
  <2>20. ASSUME NEW c \in Sessions, HostTurn(c) PROVE Goal
    BY <2>0, <2>20 DEF HostTurn
  <2>21. CASE HostConfigChange
    BY <2>0, <2>21 DEF HostConfigChange
  <2>22. CASE HostWiped
    BY <2>0, <2>22 DEF HostWiped, Careful
  <2>23. CASE UNCHANGED vars
    BY <2>0, <2>23 DEF vars
  <2> QED
    BY <2>1, <2>2, <2>3, <2>4, <2>5, <2>6, <2>7, <2>8, <2>9, <2>10,
       <2>11, <2>12, <2>13, <2>14, <2>15, <2>16, <2>17, <2>18, <2>19,
       <2>20, <2>21, <2>22, <2>23, <2>24
       DEF Next, Prepare, Sandbox
<1> QED BY <1>1, <1>2, TypeCorrect, MarkedInvariant, PTL DEF Spec

(* A turn that a sandboxed agent has added is never lost. *)
THEOREM NoClobberHolds == Spec => NoClobber
<1>1. /\ TypeOK /\ TypeOK' /\ Unmarked /\ Fresh /\ [Next]_vars
      => [Careful => \A s \in Slugs, c \in Sessions :
                       store'[s][c].flar >= store[s][c].flar]_vars
  <2> SUFFICES ASSUME TypeOK, TypeOK', Unmarked, Fresh, Next, Careful,
                      NEW s \in Slugs, NEW d \in Sessions
               PROVE  store'[s][d].flar >= store[s][d].flar
    OBVIOUS
  <2>0. /\ store[s][d].flar \in Nat /\ store'[s][d].flar \in Nat
        /\ s \notin seeded => store[s][d].flar = 0
        /\ \A r \in Runs :
             pc[r] \in {"rows", "filter", "insert", "copy"} => Slug(r) \notin seeded
    BY SeedingStep DEF TypeOK, Entry, Fresh
  <2>1. CASE s \notin seeded
    BY <2>0, <2>1
  <2>2. CASE UNCHANGED store
    BY <2>0, <2>2
  <2>3. ASSUME NEW r \in Runs, NEW c \in Sessions, ContinueSession(r, c)
        PROVE  store'[s][d].flar >= store[s][d].flar
    BY <2>0, <2>3 DEF ContinueSession, TypeOK, Entry
  <2>4. ASSUME NEW r \in Runs, NEW c \in Sessions, NewSession(r, c)
        PROVE  store'[s][d].flar >= store[s][d].flar
    <3>1. \A x \in Slugs : store[x][c].flar \in Nat /\ store[x][c].host \in Nat
      BY DEF TypeOK, Entry
    <3>2. store[s][c].flar = 0
      BY <2>4, <3>1 DEF NewSession, Present
    <3> QED BY <2>0, <2>4, <3>2 DEF NewSession, TypeOK, Entry
  <2>5. ASSUME s \in seeded, NEW r \in Runs,
               Snapshot(r) \/ Filter(r) \/ RemoveDatabase(r) \/ InsertRows(r)
                 \/ \E c \in Sessions : CopySession(r, c)
        PROVE  store'[s][d].flar >= store[s][d].flar
    <3>1. pc[r] \in {"rows", "filter", "insert", "copy"}
      BY <2>5 DEF Snapshot, Filter, RemoveDatabase, InsertRows, CopySession
    <3>2. s # Slug(r)
      BY <2>0, <2>5, <3>1
    <3>3. store'[s] = store[s]
      BY <2>5, <3>2
         DEF Snapshot, Filter, RemoveDatabase, InsertRows, CopySession, TypeOK
    <3> QED BY <2>0, <3>3
  <2> QED BY <2>1, <2>2, <2>3, <2>4, <2>5
     DEF storeVars, Next, Prepare, Sandbox, Start, CheckMarker, CopyConfig,
         NoDatabase, AttributeSessions, SkipSession, CopyDone, WriteIndex,
         WriteMarker, MarkerFails, Abandon, EditConfig, EndRun, HostTurn,
         HostConfigChange, HostWiped
<1> QED BY <1>1, TypeCorrect, UnmarkedInvariant, FreshInvariant, PTL
           DEF Spec, NoClobber

-----------------------------------------------------------------------------
(* The stores implement the abstract specification ForkOnce, whose         *)
(* properties they therefore have: marking a store forks it, a turn in a   *)
(* sandbox is a turn in the fork, and nothing else touches a fork.         *)
THEOREM ForksOnceHolds == Spec => ForksOnce
<1>1. Init => F!Init
  BY DEF Init, F!Init, Forked, Forks, Nothing, F!Nothing
<1>2. /\ TypeOK /\ TypeOK' /\ Unmarked /\ PureFiles /\ PureSnapshots
      /\ Marked /\ Fresh /\ [Next]_vars
      => [F!Next]_(F!vars)
  <2> SUFFICES ASSUME TypeOK, TypeOK', Unmarked, PureFiles, PureSnapshots,
                      Marked, Fresh, [Next]_vars
               PROVE  F!Next
    OBVIOUS
  <2>0. /\ Careful' = Careful
        /\ host' \in [Sessions -> Nat]
        /\ \A r \in Runs : Slug(r) \in Slugs
        /\ Forks \in [Slugs -> [Sessions -> Entry]]
        /\ Nothing \in Entry
        /\ \A e \in Entry : ~Present(e) => e = Nothing /\ e.flar = 0
    <3>1. Careful' = Careful /\ \A r \in Runs : Slug(r) \in Slugs
      BY AgentStays, ConstantsAssumption
         DEF setting, Careful, Policy, Slug, TypeOK
    <3>2. host' \in [Sessions -> Nat]
      BY ConstantsAssumption DEF TypeOK
    <3>3. Nothing \in Entry
      BY EntryTypes
    <3>4. Forks \in [Slugs -> [Sessions -> Entry]]
      BY <3>3 DEF Forks, TypeOK
    <3>5. ASSUME NEW e \in Entry, ~Present(e)
          PROVE  e = Nothing /\ e.flar = 0
      <4>1. e.host \in Nat /\ e.flar \in Nat
            /\ e = [host |-> e.host, flar |-> e.flar]
        BY ConstantsAssumption DEF Entry
      <4>2. e.host = 0 /\ e.flar = 0
        BY <3>5, <4>1 DEF Present
      <4> QED BY <4>1, <4>2 DEF Nothing
    <3> QED BY <3>1, <3>2, <3>3, <3>4, <3>5
  <2>1. ASSUME Forked' = Forked, Forks' = Forks PROVE F!Next
    BY <2>0, <2>1 DEF F!Next, F!HostChanges
  <2>2. CASE ~Careful
    BY <2>0, <2>1, <2>2 DEF Forked, Forks
  <2>3. ASSUME seeded' = seeded, \A s \in seeded : store'[s] = store[s]
        PROVE  F!Next
    <3>1. Forked' = Forked
      BY <2>0, <2>3 DEF Forked
    <3>2. Forks' = Forks
      BY <2>0, <2>3, <3>1 DEF Forks, Forked
    <3> QED BY <2>1, <3>1, <3>2
  <2>4. ASSUME Careful, NEW r \in Runs,
               Snapshot(r) \/ Filter(r) \/ RemoveDatabase(r) \/ InsertRows(r)
                 \/ \E c \in Sessions : CopySession(r, c)
        PROVE  F!Next
    <3>1. pc[r] \in {"rows", "filter", "insert", "copy"}
      BY <2>4 DEF Snapshot, Filter, RemoveDatabase, InsertRows, CopySession
    <3>2. Slug(r) \notin seeded
      BY <2>4, <3>1, SeedingStep
    <3>3. seeded' = seeded /\ \A s \in seeded : store'[s] = store[s]
      BY <2>4, <3>2
         DEF Snapshot, Filter, RemoveDatabase, InsertRows, CopySession, TypeOK
    <3> QED BY <2>3, <3>3
  <2>5. ASSUME Careful, NEW r \in Runs, WriteMarker(r) PROVE F!Next
    <3> DEFINE s == Slug(r)
    <3>1. s \in Slugs /\ s \notin seeded
      BY <2>0, <2>5, SeedingStep DEF WriteMarker
    <3>2. Clean(s)
      BY <2>0, <2>5 DEF PureSnapshots, Careful, WriteMarker, Seeded
    <3>3. Forked = seeded /\ Forked' = Forked \cup {s} /\ store' = store
          /\ host' = host
      BY <2>0, <2>5 DEF WriteMarker, Forked, hostVars
    <3>4. Forks' = [Forks EXCEPT ![s] = store[s]]
      BY <3>1, <3>3 DEF Forks
    <3>5. Forks'[s] = store[s]
      BY <2>0, <3>1, <3>4
    <3>6. ASSUME NEW c \in Sessions
          PROVE  /\ Forks'[s][c].host <= host[c]
                 /\ Forks'[s][c].flar = 0
                 /\ ~Belongs(c, s) => Forks'[s][c] = F!Nothing
      <4>1. store[s][c].host <= host[c] /\ store[s][c].flar = 0
        BY <2>5, <3>1 DEF Fresh
      <4>2. ~Belongs(c, s) => store[s][c] = Nothing
        BY <2>0, <3>1, <3>2 DEF Clean, TypeOK
      <4> QED BY <3>5, <4>1, <4>2 DEF Nothing, F!Nothing
    <3>7. F!Fork(s)
      BY <3>1, <3>3, <3>4, <3>5, <3>6 DEF F!Fork
    <3> QED BY <3>1, <3>7 DEF F!Next
  <2>6. ASSUME Careful, NEW r \in Runs, NEW c \in Sessions,
               ContinueSession(r, c) \/ NewSession(r, c)
        PROVE  F!Next
    <3> DEFINE s == Slug(r)
    <3>1. s \in Slugs /\ s \in seeded /\ Clean(s) /\ Forked = seeded
      BY <2>0, <2>6
         DEF Marked, PureSnapshots, Careful, Seeded, Forked, ContinueSession,
             NewSession
    <3>2. Belongs(c, s)
      BY <2>6, <3>1
         DEF ContinueSession, NewSession, Clean, Belongs, Slug
    <3>3. seeded' = seeded /\ host' = host /\ Forked' = Forked
      BY <2>0, <2>6 DEF ContinueSession, NewSession, Forked, hostVars
    <3>4. store' = [store EXCEPT ![s][c].flar = @ + 1]
      <4>1. CASE ContinueSession(r, c)
        BY <4>1 DEF ContinueSession
      <4>2. CASE NewSession(r, c)
        <5>1. store[s][c] \in Entry /\ ~Present(store[s][c])
          BY <3>1, <4>2 DEF NewSession, TypeOK
        <5>2. store[s][c].flar = 0
          BY <2>0, <5>1
        <5> QED BY <4>2, <5>2 DEF NewSession
      <4> QED BY <2>6, <4>1, <4>2
    <3>5. \A x \in Slugs : Forks'[x] = IF x = s THEN store'[s] ELSE Forks[x]
      BY <3>1, <3>3, <3>4 DEF Forks, TypeOK
    <3>6. Forks[s] = store[s]
      BY <3>1 DEF Forks
    <3>7. Forks' = [Forks EXCEPT ![s][c].flar = @ + 1]
      BY <2>0, <3>1, <3>3, <3>4, <3>5, <3>6 DEF Forks, TypeOK
    <3>8. F!FlarTurn(s, c)
      BY <3>1, <3>2, <3>3, <3>7 DEF F!FlarTurn
    <3> QED BY <3>1, <3>8 DEF F!Next
  <2> QED BY <2>2, <2>3, <2>4, <2>5, <2>6
     DEF storeVars, vars, Next, Prepare, Sandbox, Start, CheckMarker,
         CopyConfig, NoDatabase, AttributeSessions, SkipSession, CopyDone,
         WriteIndex, MarkerFails, Abandon, EditConfig, EndRun, HostTurn,
         HostConfigChange, HostWiped
<1> QED BY <1>1, <1>2, TypeCorrect, UnmarkedInvariant, PureFilesInvariant,
           PureSnapshotsInvariant, MarkedInvariant, FreshInvariant, PTL
           DEF Spec, ForksOnce, F!Spec

-----------------------------------------------------------------------------
(* Completeness.  What follows is said of careful agents: with one run at  *)
(* a time in a store, another run changes nothing of what a run has.       *)

LEMMA CarefulPolicy ==
  ASSUME agent \in Agents, Policy.errors = "stop"
  PROVE  /\ Policy.index \in {"copied", "none"}
         /\ Policy.files = "inserted" => Policy.rows # "none"
         /\ agent = "copilot" => Policy.config = "always"
  <1>1. agent \in {"pool", "codex", "kimi", "mimo", "copilot", "agy"}
    BY ConstantsAssumption DEF Policies
  <1>2. CASE agent = "pool"
    BY <1>2 DEF Policy, Policies, PoolPolicy
  <1>3. CASE agent = "codex"
    BY <1>3 DEF Policy, Policies, CodexPolicy
  <1>4. CASE agent = "kimi"
    BY <1>4 DEF Policy, Policies, KimiPolicy
  <1>5. CASE agent = "mimo"
    BY <1>5 DEF Policy, Policies, MimoPolicy
  <1>6. CASE agent = "copilot"
    BY <1>6 DEF Policy, Policies, CopilotPolicy
  <1>7. CASE agent = "agy"
    BY <1>7 DEF Policy, Policies, AgyPolicy
  <1> QED BY <1>1, <1>2, <1>3, <1>4, <1>5, <1>6, <1>7

LEMMA PresentFacts ==
  ASSUME TypeOK
  PROVE  /\ ~Present(Nothing)
         /\ \A s \in Slugs, c \in Sessions :
              host[c] > 0 => Present(FromHost(s, c))
BY ConstantsAssumption DEF TypeOK, Present, Nothing, FromHost

LEMMA CarefulStays ==
  ASSUME [Next]_vars
  PROVE  /\ Careful' = Careful /\ Policy' = Policy /\ agent' = agent
         /\ proj' = proj
         /\ \A r \in Runs : Slug(r)' = Slug(r)
BY AgentStays DEF setting, Careful, Policy, Slug

(* Of a run that is active, and of its store, the steps of another run     *)
(* change nothing.                                                         *)
LEMMA OthersLeave ==
  ASSUME TypeOK, Alone, agent \notin Shared, NEW q \in Runs, NEW r \in Runs,
         q # r, Active(r), Prepare(q) \/ Sandbox(q)
  PROVE  /\ pc'[r] = pc[r] /\ todo'[r] = todo[r]
         /\ copied'[r] = copied[r] /\ temp'[r] = temp[r]
         /\ store'[Slug(r)] = store[Slug(r)]
         /\ index'[Slug(r)] = index[Slug(r)]
         /\ storeConfig'[Slug(r)] = storeConfig[Slug(r)]
         /\ had'[Slug(r)] = had[Slug(r)]
<1> USE DEF TypeOK, Goto, runVars, storeVars
<1>1. Slug(q) \in Slugs /\ Slug(r) \in Slugs
  BY ConstantsAssumption DEF Slug
<1>2. CASE Start(q)
  BY <1>2 DEF Start
<1>3. ASSUME Active(q) PROVE Slug(q) # Slug(r)
  BY <1>3 DEF Alone
<1>4. CASE CheckMarker(q) \/ CopyConfig(q) \/ NoDatabase(q)
  <2>1. Slug(q) # Slug(r)
    BY <1>3, <1>4 DEF Active, CheckMarker, CopyConfig, NoDatabase
  <2> QED BY <1>1, <1>4, <2>1 DEF CheckMarker, CopyConfig, Refreshed, NoDatabase
<1>5. CASE Snapshot(q) \/ Filter(q)
  <2>1. Slug(q) # Slug(r)
    BY <1>3, <1>5 DEF Active, Snapshot, Filter
  <2> QED BY <1>1, <1>5, <2>1 DEF Snapshot, Filter
<1>6. CASE RemoveDatabase(q) \/ InsertRows(q)
  <2>1. Slug(q) # Slug(r)
    BY <1>3, <1>6 DEF Active, RemoveDatabase, InsertRows
  <2> QED BY <1>1, <1>6, <2>1 DEF RemoveDatabase, InsertRows
<1>7. CASE AttributeSessions(q) \/ CopyDone(q)
  <2>1. Slug(q) # Slug(r)
    BY <1>3, <1>7 DEF Active, AttributeSessions, CopyDone
  <2> QED BY <1>1, <1>7, <2>1 DEF AttributeSessions, CopyDone
<1>8. ASSUME NEW c \in Sessions, CopySession(q, c) \/ SkipSession(q, c)
      PROVE  /\ pc'[r] = pc[r] /\ todo'[r] = todo[r]
             /\ copied'[r] = copied[r] /\ temp'[r] = temp[r]
             /\ store'[Slug(r)] = store[Slug(r)]
             /\ index'[Slug(r)] = index[Slug(r)]
             /\ storeConfig'[Slug(r)] = storeConfig[Slug(r)]
             /\ had'[Slug(r)] = had[Slug(r)]
  <2>1. Slug(q) # Slug(r)
    BY <1>3, <1>8 DEF Active, CopySession, SkipSession
  <2> QED BY <1>1, <1>8, <2>1 DEF CopySession, SkipSession
<1>9. CASE WriteIndex(q)
  <2>1. Slug(q) # Slug(r)
    BY <1>3, <1>9 DEF Active, WriteIndex
  <2> QED BY <1>1, <1>9, <2>1 DEF WriteIndex
<1>10. CASE WriteMarker(q) \/ MarkerFails(q) \/ Abandon(q) \/ EndRun(q)
  BY <1>10 DEF WriteMarker, MarkerFails, Abandon, EndRun, Exit
<1>12. CASE EditConfig(q)
  <2>1. Slug(q) # Slug(r)
    BY <1>3, <1>12 DEF Active, EditConfig
  <2> QED BY <1>1, <1>12, <2>1 DEF EditConfig
<1>11. ASSUME NEW c \in Sessions, ContinueSession(q, c) \/ NewSession(q, c)
       PROVE  /\ pc'[r] = pc[r] /\ todo'[r] = todo[r]
              /\ copied'[r] = copied[r] /\ temp'[r] = temp[r]
              /\ store'[Slug(r)] = store[Slug(r)]
              /\ index'[Slug(r)] = index[Slug(r)]
              /\ storeConfig'[Slug(r)] = storeConfig[Slug(r)]
              /\ had'[Slug(r)] = had[Slug(r)]
  <2>1. Slug(q) # Slug(r)
    BY <1>3, <1>11 DEF Active, ContinueSession, NewSession
  <2> QED BY <1>1, <1>11, <2>1 DEF ContinueSession, NewSession
<1> QED BY <1>2, <1>4, <1>5, <1>6, <1>7, <1>8, <1>9, <1>10, <1>11, <1>12
           DEF Prepare, Sandbox

(* Nor do the host's steps, but for what the host itself has. *)
HostSteps == \/ \E c \in Sessions : HostTurn(c)
             \/ HostConfigChange \/ HostWiped \/ UNCHANGED vars

LEMMA HostLeaves ==
  ASSUME HostSteps
  PROVE  UNCHANGED <<storeVars, runVars, setting, had>>
BY DEF HostSteps, HostTurn, HostConfigChange, HostWiped, vars

(* A marked store is changed by sandboxes only: no session leaves it, and  *)
(* its index gains only sessions that are there.                           *)
LEMMA MarkedStoreStep ==
  ASSUME TypeOK, TypeOK', Unmarked, Careful, [Next]_vars, NEW s \in seeded
  PROVE  /\ s \in seeded'
         /\ had'[s] = had[s]
         /\ \A c \in Sessions : Present(store[s][c]) => Present(store'[s][c])
         /\ \A c \in index'[s] : c \in index[s] \/ Present(store'[s][c])
<1> DEFINE Goal == /\ s \in seeded'
                   /\ had'[s] = had[s]
                   /\ \A c \in Sessions : Present(store[s][c])
                                            => Present(store'[s][c])
                   /\ \A c \in index'[s] : c \in index[s]
                                             \/ Present(store'[s][c])
<1>1. /\ s \in Slugs /\ \A r \in Runs : Slug(r) \in Slugs
      /\ \A r \in Runs :
           pc[r] \in {"rows", "filter", "insert", "files", "copy", "index", "mark"}
             => Slug(r) # s
  BY SeedingStep, ConstantsAssumption DEF TypeOK, Slug
<1> USE DEF storeVars
<1>2. CASE HostSteps
  BY <1>2, HostLeaves
<1>3. ASSUME NEW r \in Runs,
             \/ Start(r) \/ CopyConfig(r) \/ NoDatabase(r) \/ CopyDone(r)
             \/ WriteMarker(r) \/ MarkerFails(r) \/ EditConfig(r)
             \/ Abandon(r) \/ EndRun(r) \/ \E c \in Sessions : SkipSession(r, c)
      PROVE  Goal
  BY <1>3 DEF Start, CopyConfig, NoDatabase, CopyDone, WriteMarker,
     MarkerFails, EditConfig, Abandon, EndRun, SkipSession
<1>9. ASSUME NEW r \in Runs, AttributeSessions(r) PROVE Goal
  <2>1. Slug(r) # s
    BY <1>1, <1>9 DEF AttributeSessions
  <2>2. UNCHANGED <<seeded, store, index>> /\ had'[s] = had[s]
    BY <1>1, <1>9, <2>1 DEF AttributeSessions, TypeOK
  <2> QED BY <2>2
<1>4. ASSUME NEW r \in Runs, CheckMarker(r) PROVE Goal
  BY <1>4, <1>1 DEF CheckMarker, MarkerFound, TypeOK
<1>5. ASSUME NEW r \in Runs,
             \/ Snapshot(r) \/ Filter(r) \/ RemoveDatabase(r) \/ InsertRows(r)
             \/ \E c \in Sessions : CopySession(r, c)
      PROVE  Goal
  <2>1. Slug(r) # s
    BY <1>1, <1>5
       DEF Snapshot, Filter, RemoveDatabase, InsertRows, CopySession
  <2>2. store'[s] = store[s] /\ UNCHANGED <<seeded, index, had>>
    BY <1>1, <1>5, <2>1
       DEF Snapshot, Filter, RemoveDatabase, InsertRows, CopySession, TypeOK
  <2> QED BY <2>2
<1>6. ASSUME NEW r \in Runs, WriteIndex(r) PROVE Goal
  BY <1>1, <1>6 DEF WriteIndex, TypeOK
<1>7. ASSUME NEW r \in Runs, NEW c \in Sessions, ContinueSession(r, c) PROVE Goal
  <2>1. ASSUME NEW d \in Sessions, Present(store[s][d])
        PROVE  Present(store'[s][d])
    <3>1. store[s][d].host \in Nat /\ store[s][d].flar \in Nat
      BY <1>1, ConstantsAssumption DEF TypeOK, Entry
    <3>2. CASE s = Slug(r) /\ d = c
      <4>1. /\ store'[s][d].host = store[s][d].host
            /\ store'[s][d].flar = store[s][d].flar + 1
        BY <1>1, <1>7, <3>2 DEF ContinueSession, TypeOK, Entry
      <4> QED BY <3>1, <4>1 DEF Present
    <3>3. CASE ~(s = Slug(r) /\ d = c)
      <4>1. store'[s][d] = store[s][d]
        BY <1>1, <1>7, <3>3 DEF ContinueSession, TypeOK
      <4> QED BY <2>1, <4>1
    <3> QED BY <3>2, <3>3
  <2> QED BY <1>7, <2>1 DEF ContinueSession
<1>8. ASSUME NEW r \in Runs, NEW c \in Sessions, NewSession(r, c) PROVE Goal
  <2>1. CASE Slug(r) # s
    BY <1>1, <1>8, <2>1 DEF NewSession, TypeOK
  <2>2. CASE Slug(r) = s
    <3>1. store'[s][c].flar = 1 /\ store'[s][c].host = store[s][c].host
      BY <1>1, <1>8, <2>2 DEF NewSession, TypeOK, Entry
    <3>2. store[s][c].host \in Nat
      BY <1>1, ConstantsAssumption DEF TypeOK, Entry
    <3>3. Present(store'[s][c])
      BY <3>1, <3>2 DEF Present
    <3>4. \A d \in Sessions : d # c => store'[s][d] = store[s][d]
      BY <1>1, <1>8, <2>2 DEF NewSession, TypeOK
    <3>5. index'[s] = index[s] \cup {c}
      BY <1>1, <1>8, <2>2 DEF NewSession, TypeOK
    <3>6. seeded' = seeded /\ had' = had
      BY <1>8 DEF NewSession
    <3>7. \A d \in Sessions : Present(store[s][d]) => Present(store'[s][d])
      BY <3>3, <3>4
    <3>8. \A d \in index'[s] : d \in index[s] \/ Present(store'[s][d])
      BY <3>3, <3>5
    <3> QED BY <3>6, <3>7, <3>8
  <2> QED BY <2>1, <2>2
<1> QED BY <1>2, <1>3, <1>4, <1>5, <1>6, <1>7, <1>8, <1>9
           DEF HostSteps, Next, Prepare, Sandbox

(* What a host without its database has, and what a seeding finds of its   *)
(* project: sessions that the host still has when they are copied.         *)
NoneGone == hostDb = "gone" => \A c \in Sessions : host[c] = 0

HostKeeps == Careful => \A s \in Slugs : \A c \in had[s] : host[c] > 0

HadOwn ==
  agent \notin Shared =>
    \A r \in Runs : Seeding(r) => had[Slug(r)] \subseteq Of(proj[r])

(* NoneGone holds in every reachable state. *)
LEMMA NoneGoneInvariant == Spec => []NoneGone
<1>1. Init => NoneGone
  BY DEF Init, NoneGone
<1>2. NoneGone /\ [Next]_vars => NoneGone'
  <2> SUFFICES ASSUME NoneGone, [Next]_vars PROVE NoneGone'
    OBVIOUS
  <2>1. CASE UNCHANGED <<host, hostDb>>
    BY <2>1 DEF NoneGone
  <2>2. ASSUME NEW c \in Sessions, HostTurn(c) PROVE NoneGone'
    BY <2>2 DEF HostTurn, NoneGone
  <2>3. CASE HostWiped
    BY <2>3 DEF HostWiped, NoneGone
  <2>4. CASE HostConfigChange \/ UNCHANGED vars
    BY <2>1, <2>4 DEF HostConfigChange, vars, hostVars
  <2>5. ASSUME NEW r \in Runs, Prepare(r) \/ Sandbox(r)
        PROVE  UNCHANGED <<host, hostDb>>
    BY <2>5 DEF Prepare, Sandbox, hostVars, Start, CheckMarker, CopyConfig,
       NoDatabase, Snapshot, Filter, RemoveDatabase, InsertRows,
       AttributeSessions, CopySession, SkipSession, CopyDone, WriteIndex,
       WriteMarker, MarkerFails, Abandon, ContinueSession, NewSession,
         EditConfig, EndRun, Exit
  <2> QED BY <2>1, <2>2, <2>3, <2>4, <2>5 DEF Next
<1> QED BY <1>1, <1>2, PTL DEF Spec

(* HostKeeps holds in every reachable state. *)
LEMMA HostKeepsInvariant == Spec => []HostKeeps
<1>1. Init => HostKeeps
  BY DEF Init, HostKeeps
<1>2. TypeOK /\ HostKeeps /\ [Next]_vars => HostKeeps'
  <2> SUFFICES ASSUME TypeOK, HostKeeps, [Next]_vars, Careful PROVE HostKeeps'
    BY CarefulStays DEF HostKeeps
  <2>0. /\ \A s \in Slugs : \A c \in had[s] : host[c] > 0
        /\ \A c \in Sessions : host[c] \in Nat
        /\ \A r \in Runs : Slug(r) \in Slugs
        /\ \A s \in Slugs : had[s] \subseteq Sessions
    BY ConstantsAssumption DEF HostKeeps, TypeOK, Slug
  <2>1. ASSUME had' = had, \A c \in Sessions : host'[c] >= host[c]
               /\ host'[c] \in Nat
        PROVE  HostKeeps'
    BY <2>0, <2>1 DEF HostKeeps
  <2>2. ASSUME NEW r \in Runs, CheckMarker(r) PROVE HostKeeps'
    <3>1. /\ host' = host
          /\ \/ had' = had
             \/ had' = [had EXCEPT ![Slug(r)] = Attributed(proj[r])]
      BY <2>2 DEF CheckMarker, hostVars
    <3>2. \A s \in Slugs : had'[s] = had[s] \/ had'[s] = Attributed(proj[r])
      BY <3>1 DEF TypeOK
    <3>3. \A c \in Attributed(proj[r]) : host[c] > 0
      BY DEF Attributed
    <3> QED BY <2>0, <3>1, <3>2, <3>3 DEF HostKeeps
  <2>7. ASSUME NEW r \in Runs, AttributeSessions(r) PROVE HostKeeps'
    <3>1. /\ host' = host
          /\ \E unread : had' = [had EXCEPT ![Slug(r)] = @ \ unread]
      BY <2>7 DEF AttributeSessions, hostVars
    <3>2. \A s \in Slugs : had'[s] \subseteq had[s]
      BY <3>1 DEF TypeOK
    <3> QED BY <2>0, <3>1, <3>2 DEF HostKeeps
  <2>3. ASSUME NEW c \in Sessions, HostTurn(c) PROVE HostKeeps'
    BY <2>0, <2>1, <2>3 DEF HostTurn, TypeOK
  <2>4. ~HostWiped
    BY DEF HostWiped, Careful
  <2>5. CASE HostConfigChange \/ UNCHANGED vars
    BY <2>0, <2>1, <2>5 DEF HostConfigChange, vars, hostVars
  <2>6. ASSUME NEW r \in Runs, Prepare(r) \/ Sandbox(r), ~CheckMarker(r),
               ~AttributeSessions(r)
        PROVE  host' = host /\ had' = had
    BY <2>6 DEF Prepare, Sandbox, hostVars, Start, CopyConfig,
       NoDatabase, Snapshot, Filter, RemoveDatabase, InsertRows,
       CopySession, SkipSession, CopyDone, WriteIndex,
       WriteMarker, MarkerFails, Abandon, ContinueSession, NewSession,
         EditConfig, EndRun, Exit
  <2> QED BY <2>0, <2>1, <2>2, <2>3, <2>4, <2>5, <2>6, <2>7 DEF Next
<1> QED BY <1>1, <1>2, TypeCorrect, PTL DEF Spec

(* HadOwn holds in every reachable state. *)
LEMMA HadOwnInvariant == Spec => []HadOwn
<1>1. Init => HadOwn
  BY DEF Init, HadOwn, Seeding
<1>2. TypeOK /\ Alone /\ HadOwn /\ [Next]_vars => HadOwn'
  <2> SUFFICES ASSUME TypeOK, Alone, HadOwn, [Next]_vars, agent \notin Shared,
                      NEW r \in Runs, Seeding(r)'
               PROVE  had'[Slug(r)] \subseteq Of(proj[r])
    BY CarefulStays DEF HadOwn
  <2>0. /\ Slug(r) \in Slugs
        /\ Seeding(r) => had[Slug(r)] \subseteq Of(proj[r])
        /\ Policy' = Policy
        /\ Seeding(r) => Active(r)
    BY CarefulStays, ConstantsAssumption DEF HadOwn, TypeOK, Slug, Seeding, Active
  <2> USE DEF TypeOK, Goto, runVars
  <2>1. ASSUME pc'[r] = pc[r] PROVE Seeding(r)
    BY <2>0, <2>1 DEF Seeding
  <2>2. CASE HostSteps
    <3>1. pc' = pc /\ had' = had
      BY <2>2, HostLeaves
    <3> QED BY <2>0, <2>1, <3>1
  <2>3. ASSUME NEW q \in Runs, q # r, Prepare(q) \/ Sandbox(q)
        PROVE  had'[Slug(r)] \subseteq Of(proj[r])
    <3>1. pc'[r] = pc[r]
      BY <2>3 DEF Prepare, Sandbox, Start, CheckMarker, CopyConfig,
         NoDatabase, Snapshot, Filter, RemoveDatabase, InsertRows,
         AttributeSessions, CopySession, SkipSession, CopyDone, WriteIndex,
         WriteMarker, MarkerFails, Abandon, ContinueSession, NewSession,
         EditConfig, EndRun, Exit
    <3>2. had'[Slug(r)] = had[Slug(r)]
      BY <2>0, <2>1, <2>3, <3>1, OthersLeave
    <3> QED BY <2>0, <2>1, <3>1, <3>2
  <2>4. CASE CheckMarker(r)
    <3>1. Attributed(proj[r]) \subseteq Of(proj[r])
      BY DEF Attributed
    <3>2. CASE MarkerFound(r) /\ pc' = [pc EXCEPT ![r] = "sandbox"]
      BY <3>2 DEF Seeding
    <3>3. CASE had' = [had EXCEPT ![Slug(r)] = Attributed(proj[r])]
      BY <2>0, <3>1, <3>3
    <3> QED BY <2>4, <3>2, <3>3 DEF CheckMarker
  <2>5. CASE Start(r)
    BY <2>0, <2>5 DEF Start, Seeding
  <2>6. CASE CopyConfig(r)
    BY <2>0, <2>6 DEF CopyConfig, Seeding
  <2>8. CASE AttributeSessions(r)
    <3>1. Seeding(r) /\ \E unread : had' = [had EXCEPT ![Slug(r)] = @ \ unread]
      BY <2>8 DEF AttributeSessions, Seeding
    <3>2. had'[Slug(r)] \subseteq had[Slug(r)]
      BY <2>0, <3>1
    <3> QED BY <2>0, <3>1, <3>2
  <2>7. ASSUME Prepare(r) \/ Sandbox(r), ~CheckMarker(r), ~Start(r),
               ~CopyConfig(r), ~AttributeSessions(r)
        PROVE  had' = had /\ Seeding(r)
    <3>1. CASE \/ NoDatabase(r) \/ Snapshot(r) \/ Filter(r)
               \/ RemoveDatabase(r) \/ InsertRows(r)
               \/ CopyDone(r) \/ WriteIndex(r)
      BY <3>1 DEF NoDatabase, Snapshot, Filter, RemoveDatabase, InsertRows,
         CopyDone, WriteIndex, Seeding
    <3>2. ASSUME NEW c \in Sessions,
                 CopySession(r, c) \/ SkipSession(r, c)
          PROVE  had' = had /\ Seeding(r)
      BY <3>2 DEF CopySession, SkipSession, Seeding
    <3>3. CASE WriteMarker(r) \/ MarkerFails(r) \/ Abandon(r)
               \/ EditConfig(r) \/ EndRun(r)
      BY <3>3 DEF WriteMarker, MarkerFails, Abandon, EditConfig, EndRun, Exit,
         Seeding
    <3>4. ASSUME NEW c \in Sessions, ContinueSession(r, c) \/ NewSession(r, c)
          PROVE  had' = had /\ Seeding(r)
      BY <3>4 DEF ContinueSession, NewSession, Seeding
    <3> QED BY <2>7, <3>1, <3>2, <3>3, <3>4 DEF Prepare, Sandbox
  <2> QED BY <2>0, <2>2, <2>3, <2>4, <2>5, <2>6, <2>7, <2>8 DEF Next, HostSteps
<1> QED BY <1>1, <1>2, TypeCorrect, AloneInvariant, PTL DEF Spec

(* The inductive invariant behind SeedComplete: how far a seeding has come *)
(* with the sessions the host had, at each of its stages.                  *)
Filled(s) == \A c \in had[s] : Present(store[s][c])

Progress(r) ==
  /\ pc[r] = "filter" => Filled(Slug(r))
  /\ pc[r] \in {"files", "copy"} /\ Policy.rows # "none" => Filled(Slug(r))
  /\ pc[r] = "copy" =>
       \A c \in had[Slug(r)] : c \in todo[r] \/ Present(store[Slug(r)][c])
  /\ pc[r] \in {"index", "mark"} => Filled(Slug(r))

Filling ==
  Careful => /\ \A s \in seeded : Filled(s)
             /\ \A r \in Runs : Progress(r)

(* Filling holds in every reachable state. *)
LEMMA FillingInvariant == Spec => []Filling
<1>1. Init => Filling
  BY DEF Init, Filling, Progress
<1>2. TypeOK /\ TypeOK' /\ Alone /\ Unmarked /\ NoneGone /\ HostKeeps /\ HadOwn
      /\ Filling /\ [Next]_vars => Filling'
  <2> SUFFICES ASSUME TypeOK, TypeOK', Alone, Unmarked, NoneGone, HostKeeps,
                      HadOwn, Filling, [Next]_vars, Careful
               PROVE  /\ \A s \in seeded' : Filled(s)'
                      /\ \A r \in Runs : Progress(r)'
    BY CarefulStays DEF Filling
  <2>0. /\ agent \notin Shared /\ Policy' = Policy /\ proj' = proj
        /\ agent \in Agents /\ Policy.errors = "stop"
        /\ \A r \in Runs : Slug(r) \in Slugs /\ Slug(r)' = Slug(r)
        /\ \A r \in Runs : Progress(r)
        /\ \A s \in seeded : Filled(s)
        /\ \A c \in Sessions : host[c] \in Nat
        /\ \A s \in Slugs : had[s] \subseteq Sessions
    BY CarefulStays, ConstantsAssumption DEF Careful, TypeOK, Slug, Filling
  <2> USE DEF TypeOK, Goto, runVars
  <2>1. ASSUME NEW s \in seeded PROVE Filled(s)'
    <3>1. had'[s] = had[s] /\ s \in Slugs
      BY MarkedStoreStep
    <3>2. \A c \in Sessions : Present(store[s][c]) => Present(store'[s][c])
      BY MarkedStoreStep
    <3>3. \A c \in had[s] : Present(store[s][c])
      BY <2>0 DEF Filled
    <3> QED BY <2>0, <3>1, <3>2, <3>3 DEF Filled, Present
  <2>2. ASSUME NEW s \in seeded' \ seeded PROVE Filled(s)'
    <3>1. PICK r \in Runs : WriteMarker(r)
      BY <2>2 DEF Next, Prepare, Sandbox, vars, storeVars, Start, CheckMarker,
         CopyConfig, NoDatabase, Snapshot, Filter, RemoveDatabase,
         InsertRows, AttributeSessions, CopySession, SkipSession, CopyDone,
         WriteIndex, WriteMarker, MarkerFails, Abandon, ContinueSession,
         NewSession, EditConfig, EndRun, Exit, HostTurn, HostConfigChange, HostWiped
    <3>2. /\ s = Slug(r) /\ pc[r] = "mark" /\ store' = store /\ had' = had
      BY <2>2, <3>1 DEF WriteMarker
    <3>3. Filled(s)
      BY <2>0, <3>2 DEF Progress
    <3> QED BY <3>2, <3>3 DEF Filled, Present
  <2>3. ASSUME NEW r \in Runs, pc'[r] = pc[r],
               \/ pc[r] \notin {"filter", "files", "copy", "index", "mark"}
               \/ /\ todo'[r] = todo[r]
                  /\ store'[Slug(r)] = store[Slug(r)]
                  /\ had'[Slug(r)] = had[Slug(r)]
        PROVE  Progress(r)'
    BY <2>0, <2>3 DEF Progress, Filled, Present
  <2>4. ASSUME HostSteps, NEW r \in Runs PROVE Progress(r)'
    <3>1. UNCHANGED <<pc, todo, store, had>>
      BY <2>4, HostLeaves DEF storeVars
    <3> QED BY <2>3, <3>1
  <2>5. ASSUME NEW r \in Runs, NEW q \in Runs, q # r, Prepare(q) \/ Sandbox(q)
        PROVE  Progress(r)'
    <3>1. pc'[r] = pc[r]
      BY <2>5 DEF Prepare, Sandbox, Start, CheckMarker, CopyConfig,
         NoDatabase, Snapshot, Filter, RemoveDatabase, InsertRows,
         AttributeSessions, CopySession, SkipSession, CopyDone, WriteIndex,
         WriteMarker, MarkerFails, Abandon, ContinueSession, NewSession,
         EditConfig, EndRun, Exit
    <3>2. CASE Active(r)
      BY <2>0, <2>3, <2>5, <3>1, <3>2, OthersLeave
    <3>3. CASE ~Active(r)
      BY <2>3, <3>1, <3>3 DEF Active
    <3> QED BY <3>2, <3>3
  <2>6. ASSUME NEW r \in Runs, Prepare(r) \/ Sandbox(r) PROVE Progress(r)'
    <3> DEFINE s == Slug(r)
    <3>0. /\ s \in Slugs /\ Slug(r)' = s /\ had[s] \subseteq Sessions
          /\ Progress(r)
          /\ \A c \in had[s] : host[c] > 0
          /\ \A c \in Sessions : host[c] > 0 => Present(FromHost(s, c))
          /\ ~Present(Nothing)
      BY <2>0, PresentFacts DEF HostKeeps
    <3>a. Seeding(r) => had[s] \subseteq Of(proj[r])
                        /\ had[s] \subseteq Attributed(proj[r])
      BY <2>0, <3>0 DEF HadOwn, Attributed
    <3>b. ASSUME store' = store, had' = had, todo' = todo,
                 pc' = [pc EXCEPT ![r] = "index"] \/ pc' = [pc EXCEPT ![r] = "mark"],
                 Filled(s)
          PROVE  Progress(r)'
      BY <2>0, <3>0, <3>b DEF Progress, Filled
    <3>c. ASSUME pc'[r] \notin {"filter", "files", "copy", "index", "mark"}
          PROVE  Progress(r)'
      BY <3>c DEF Progress
    <3> HIDE DEF s
    <3>1. CASE Start(r) \/ Abandon(r) \/ EndRun(r) \/ MarkerFails(r) \/ WriteMarker(r)
      BY <2>0, <3>1, <3>c DEF Start, Abandon, EndRun, Exit, MarkerFails, WriteMarker
    <3>2. CASE CheckMarker(r)
      <4>1. pc'[r] \in {"sandbox", "config", SeedingStage}
        BY <3>2 DEF CheckMarker
      <4>2. CASE Policy.rows # "none"
        BY <4>1, <4>2, <3>c DEF SeedingStage
      <4>3. CASE Policy.rows = "none"
        BY <2>0, <4>1, <4>3 DEF SeedingStage, Progress
      <4> QED BY <4>2, <4>3
    <3>3. CASE CopyConfig(r)
      <4>1. pc'[r] \in {"check", SeedingStage}
        BY <3>3 DEF CopyConfig
      <4>2. CASE Policy.rows # "none"
        BY <4>1, <4>2, <3>c DEF SeedingStage
      <4>3. CASE Policy.rows = "none"
        BY <2>0, <4>1, <4>3 DEF SeedingStage, Progress
      <4> QED BY <4>2, <4>3
    <3>4. CASE NoDatabase(r)
      <4>1. had'[s] = {}
        BY <3>0, <3>4 DEF NoDatabase, NoneGone
      <4> QED BY <2>0, <3>0, <4>1 DEF Progress, Filled
    <3>5. CASE Snapshot(r)
      <4>1. /\ \A c \in Sessions : store'[s][c] = FromHost(s, c)
            /\ pc'[r] = "filter" /\ had' = had
        BY <3>0, <3>5 DEF Snapshot, s
      <4>2. \A c \in had[s] : Present(store'[s][c])
        BY <3>0, <4>1
      <4> QED BY <3>0, <4>1, <4>2 DEF Progress, Filled
    <3>6. CASE Filter(r)
      <4>1. /\ \A c \in Of(proj[r]) : store'[s][c] = store[s][c]
            /\ had' = had /\ pc[r] = "filter"
        BY <3>0, <3>6 DEF Filter, Kept, s, Of
      <4>2. Filled(s) /\ had[s] \subseteq Of(proj[r])
        BY <3>0, <3>a, <4>1 DEF Progress, Seeding, s
      <4>3. \A c \in had[s] : Present(store'[s][c])
        BY <4>1, <4>2 DEF Filled
      <4> QED BY <3>0, <4>1, <4>3 DEF Progress, Filled
    <3>7. CASE RemoveDatabase(r)
      BY <3>7, <3>c DEF RemoveDatabase
    <3>8. CASE InsertRows(r)
      <4>1. /\ \A c \in Attributed(proj[r]) : store'[s][c] = FromHost(s, c)
            /\ had' = had /\ pc[r] = "insert"
        BY <3>0, <3>8 DEF InsertRows, s, Attributed, Of
      <4>2. had[s] \subseteq Attributed(proj[r])
        BY <3>a, <4>1 DEF Seeding
      <4>3. \A c \in had[s] : Present(store'[s][c])
        BY <3>0, <4>1, <4>2
      <4> QED BY <3>0, <4>1, <4>3 DEF Progress, Filled
    <3>9. CASE AttributeSessions(r)
      <4>0. PICK unread \in SUBSET Attributed(proj[r]) :
               /\ todo'[r] = Attributed(proj[r]) \ unread
               /\ had'[s] = had[s] \ unread
        BY <3>0, <3>9 DEF AttributeSessions, s
      <4>1. /\ pc[r] = "files" /\ pc'[r] = "copy" /\ store' = store
            /\ had'[s] \subseteq had[s]
        BY <3>9, <4>0 DEF AttributeSessions, storeVars
      <4>2. had'[s] \subseteq todo'[r]
        BY <3>a, <4>0, <4>1 DEF Seeding
      <4>3. Policy.rows # "none" => Filled(s)
        BY <3>0, <4>1 DEF Progress, s
      <4> QED BY <2>0, <3>0, <4>1, <4>2, <4>3 DEF Progress, Filled
    <3>10. ASSUME NEW c \in Sessions, CopySession(r, c) PROVE Progress(r)'
      <4>1. /\ pc' = pc /\ pc[r] = "copy" /\ had' = had /\ host[c] > 0
            /\ todo'[r] = todo[r] \ {c}
            /\ store'[s][c] = FromHost(s, c)
            /\ \A d \in Sessions : d # c => store'[s][d] = store[s][d]
        BY <3>0, <3>10 DEF CopySession, s
      <4>2. \A d \in Sessions : Present(store[s][d]) => Present(store'[s][d])
        BY <3>0, <4>1
      <4>3. Present(store'[s][c])
        BY <3>0, <4>1
      <4>4. \A d \in had[s] : d \in todo[r] \/ Present(store[s][d])
        BY <3>0, <4>1 DEF Progress, s
      <4>5. \A d \in had[s] : d \in todo'[r] \/ Present(store'[s][d])
        BY <3>0, <4>1, <4>2, <4>3, <4>4
      <4>6. Policy.rows # "none" => \A d \in had[s] : Present(store'[s][d])
        BY <3>0, <4>1, <4>2 DEF Progress, Filled, s
      <4> QED BY <2>0, <3>0, <4>1, <4>5, <4>6 DEF Progress, Filled
    <3>11. ASSUME NEW c \in Sessions, SkipSession(r, c) PROVE Progress(r)'
      <4>1. /\ pc' = pc /\ pc[r] = "copy" /\ had' = had /\ store' = store
            /\ Policy.files = "inserted"
        BY <2>0, <3>11 DEF SkipSession, storeVars
      <4>2. Filled(s)
        BY <2>0, <3>0, <4>1, CarefulPolicy DEF Progress, s
      <4> QED BY <2>0, <3>0, <4>1, <4>2 DEF Progress, Filled
    <3>12. CASE CopyDone(r)
      <4>1. pc[r] = "copy" /\ todo[r] = {}
        BY <3>12 DEF CopyDone
      <4>2. Filled(s)
        BY <3>0, <4>1 DEF Progress, Filled, s
      <4> QED BY <3>12, <3>b, <4>2 DEF CopyDone, storeVars
    <3>13. CASE WriteIndex(r)
      <4>1. Filled(s)
        BY <3>0, <3>13 DEF WriteIndex, Progress, s
      <4> QED BY <3>13, <3>b, <4>1 DEF WriteIndex
    <3>14. ASSUME NEW c \in Sessions, ContinueSession(r, c) \/ NewSession(r, c)
           PROVE  Progress(r)'
      BY <3>14, <3>c DEF ContinueSession, NewSession
    <3>15. CASE EditConfig(r)
      BY <3>15, <3>c DEF EditConfig
    <3> QED BY <2>6, <3>1, <3>2, <3>3, <3>4, <3>5, <3>6, <3>7, <3>8, <3>9,
               <3>10, <3>11, <3>12, <3>13, <3>14, <3>15 DEF Prepare, Sandbox
  <2> QED BY <2>1, <2>2, <2>4, <2>5, <2>6 DEF Next, HostSteps
<1> QED BY <1>1, <1>2, TypeCorrect, AloneInvariant, UnmarkedInvariant,
           NoneGoneInvariant, HostKeepsInvariant, HadOwnInvariant, PTL DEF Spec

(* A store that counts as seeded has every session the host had of the     *)
(* project when its seeding began, whatever failed or crashed before: the  *)
(* marker comes last in all of the stores (pool.go:68-78, codex.go:39-51,  *)
(* kimi.go:72-89, mimo.go:81-91, copilot.go:34-41).                        *)
THEOREM SeedCompleteHolds == Spec => []SeedComplete
<1>1. TypeOK /\ Marked /\ Filling => SeedComplete
  BY DEF Marked, Filling, Filled, SeedComplete
<1> QED BY <1>1, TypeCorrect, MarkedInvariant, FillingInvariant, PTL

(* The inductive invariant behind IndexNamesPresent: what was copied is    *)
(* there, and so is what an index written from it names.  (The index of a  *)
(* store whose seeding was interrupted may name more.)                     *)
Named(s) == \A c \in index[s] : Present(store[s][c])

CopiedPresent(r) ==
  /\ pc[r] = "mark" => Named(Slug(r))
  /\ \/ pc[r] \in {"copy", "index"}
     \/ pc[r] = "files" /\ Policy.rows # "none"
     => \A c \in copied[r] : Present(store[Slug(r)][c])

Naming ==
  Careful => /\ \A s \in seeded : Named(s)
             /\ \A r \in Runs : CopiedPresent(r)

(* Naming holds in every reachable state. *)
LEMMA NamingInvariant == Spec => []Naming
<1>1. Init => Naming
  BY DEF Init, Naming, CopiedPresent
<1>2. TypeOK /\ TypeOK' /\ Alone /\ Unmarked /\ Naming /\ [Next]_vars => Naming'
  <2> SUFFICES ASSUME TypeOK, TypeOK', Alone, Unmarked, Naming, [Next]_vars,
                      Careful
               PROVE  /\ \A s \in seeded' : Named(s)'
                      /\ \A r \in Runs : CopiedPresent(r)'
    BY CarefulStays DEF Naming
  <2>0. /\ agent \notin Shared /\ Policy' = Policy /\ proj' = proj
        /\ agent \in Agents /\ Policy.errors = "stop"
        /\ \A r \in Runs : Slug(r) \in Slugs /\ Slug(r)' = Slug(r)
        /\ \A r \in Runs : CopiedPresent(r)
        /\ \A s \in seeded : Named(s)
        /\ \A c \in Sessions : host[c] \in Nat
        /\ \A r \in Runs : copied[r] \subseteq Sessions
    BY CarefulStays, ConstantsAssumption DEF Careful, TypeOK, Slug, Naming
  <2> USE DEF TypeOK, Goto, runVars
  <2>1. ASSUME NEW s \in seeded PROVE Named(s)'
    <3>1. s \in Slugs /\ index'[s] \subseteq Sessions
      BY DEF TypeOK
    <3>2. \A c \in Sessions : Present(store[s][c]) => Present(store'[s][c])
      BY MarkedStoreStep
    <3>3. \A c \in index'[s] : c \in index[s] \/ Present(store'[s][c])
      BY MarkedStoreStep
    <3>4. \A c \in index[s] : Present(store[s][c])
      BY <2>0 DEF Named
    <3>5. \A c \in index'[s] : Present(store'[s][c])
      BY <3>1, <3>2, <3>3, <3>4
    <3> QED BY <3>5 DEF Named, Present
  <2>2. ASSUME NEW s \in seeded' \ seeded PROVE Named(s)'
    <3>1. PICK r \in Runs : WriteMarker(r)
      BY <2>2 DEF Next, Prepare, Sandbox, vars, storeVars, Start, CheckMarker,
         CopyConfig, NoDatabase, Snapshot, Filter, RemoveDatabase,
         InsertRows, AttributeSessions, CopySession, SkipSession, CopyDone,
         WriteIndex, WriteMarker, MarkerFails, Abandon, ContinueSession,
         NewSession, EditConfig, EndRun, Exit, HostTurn, HostConfigChange, HostWiped
    <3>2. /\ s = Slug(r) /\ pc[r] = "mark" /\ store' = store /\ index' = index
      BY <2>2, <3>1 DEF WriteMarker
    <3>3. Named(s)
      BY <2>0, <3>2 DEF CopiedPresent
    <3> QED BY <3>2, <3>3 DEF Named, Present
  <2>3. ASSUME NEW r \in Runs, pc'[r] = pc[r],
               \/ pc[r] \notin {"files", "copy", "index", "mark"}
               \/ /\ copied'[r] = copied[r]
                  /\ store'[Slug(r)] = store[Slug(r)]
                  /\ index'[Slug(r)] = index[Slug(r)]
        PROVE  CopiedPresent(r)'
    BY <2>0, <2>3 DEF CopiedPresent, Named, Present
  <2>4. ASSUME HostSteps, NEW r \in Runs PROVE CopiedPresent(r)'
    <3>1. UNCHANGED <<pc, copied, store, index>>
      BY <2>4, HostLeaves DEF storeVars
    <3> QED BY <2>3, <3>1
  <2>5. ASSUME NEW r \in Runs, NEW q \in Runs, q # r, Prepare(q) \/ Sandbox(q)
        PROVE  CopiedPresent(r)'
    <3>1. pc'[r] = pc[r]
      BY <2>5 DEF Prepare, Sandbox, Start, CheckMarker, CopyConfig,
         NoDatabase, Snapshot, Filter, RemoveDatabase, InsertRows,
         AttributeSessions, CopySession, SkipSession, CopyDone, WriteIndex,
         WriteMarker, MarkerFails, Abandon, ContinueSession, NewSession,
         EditConfig, EndRun, Exit
    <3>2. CASE Active(r)
      BY <2>0, <2>3, <2>5, <3>1, <3>2, OthersLeave
    <3>3. CASE ~Active(r)
      BY <2>3, <3>1, <3>3 DEF Active
    <3> QED BY <3>2, <3>3
  <2>6. ASSUME NEW r \in Runs, Prepare(r) \/ Sandbox(r)
        PROVE  CopiedPresent(r)'
    <3> DEFINE s == Slug(r)
    <3>0. /\ s \in Slugs /\ Slug(r)' = s /\ copied[r] \subseteq Sessions
          /\ CopiedPresent(r)
          /\ \A c \in Sessions : host[c] > 0 => Present(FromHost(s, c))
      BY <2>0, PresentFacts
    <3>a. ASSUME pc'[r] \notin {"files", "copy", "index", "mark"}
          PROVE  CopiedPresent(r)'
      BY <3>a DEF CopiedPresent
    <3>b. ASSUME pc'[r] \in {"files", "copy", "index"},
                 \A c \in copied'[r] : Present(store'[s][c])
          PROVE  CopiedPresent(r)'
      BY <2>0, <3>0, <3>b DEF CopiedPresent
    <3> HIDE DEF s
    <3>1. CASE Start(r) \/ Abandon(r) \/ EndRun(r) \/ MarkerFails(r) \/ WriteMarker(r)
      BY <2>0, <3>1, <3>a DEF Start, Abandon, EndRun, Exit, MarkerFails, WriteMarker
    <3>2. CASE CheckMarker(r)
      <4>1. pc'[r] \in {"sandbox", "config", SeedingStage}
        BY <3>2 DEF CheckMarker
      <4>2. CASE Policy.rows # "none"
        BY <4>1, <4>2, <3>a DEF SeedingStage
      <4>3. CASE Policy.rows = "none"
        BY <2>0, <4>1, <4>3 DEF SeedingStage, CopiedPresent
      <4> QED BY <4>2, <4>3
    <3>3. CASE CopyConfig(r)
      <4>1. pc'[r] \in {"check", SeedingStage}
        BY <3>3 DEF CopyConfig
      <4>2. CASE Policy.rows # "none"
        BY <4>1, <4>2, <3>a DEF SeedingStage
      <4>3. CASE Policy.rows = "none"
        BY <2>0, <4>1, <4>3 DEF SeedingStage, CopiedPresent
      <4> QED BY <4>2, <4>3
    <3>4. CASE NoDatabase(r)
      <4>1. copied'[r] = {} /\ pc'[r] \in {"files", "index"}
        BY <3>4 DEF NoDatabase, AfterRows
      <4> QED BY <3>b, <4>1
    <3>5. CASE Snapshot(r) \/ RemoveDatabase(r)
      BY <3>5, <3>a DEF Snapshot, RemoveDatabase
    <3>6. CASE Filter(r)
      <4>1. /\ \A c \in Kept(r) : store'[s][c] = store[s][c]
            /\ copied'[r] = {c \in Kept(r) : Present(store[s][c])}
            /\ pc'[r] \in {"files", "index"}
        BY <3>0, <3>6 DEF Filter, Kept, s, Of, AfterRows
      <4>2. \A c \in copied'[r] : Present(store'[s][c])
        BY <4>1
      <4> QED BY <3>b, <4>1, <4>2
    <3>7. CASE InsertRows(r)
      <4>1. copied'[r] = {} /\ pc'[r] = "copy"
        BY <3>7 DEF InsertRows
      <4> QED BY <3>b, <4>1
    <3>8. CASE AttributeSessions(r)
      <4>1. /\ pc[r] = "files" /\ pc'[r] = "copy" /\ store' = store
            /\ copied'[r] = IF Policy.rows = "none" THEN {} ELSE copied[r]
        BY <3>8 DEF AttributeSessions, storeVars
      <4>2. \A c \in copied'[r] : Present(store'[s][c])
        BY <3>0, <4>1 DEF CopiedPresent, s
      <4> QED BY <3>b, <4>1, <4>2
    <3>9. ASSUME NEW c \in Sessions, CopySession(r, c) PROVE CopiedPresent(r)'
      <4>1. /\ pc' = pc /\ pc[r] = "copy" /\ host[c] > 0
            /\ copied'[r] = copied[r] \cup {c}
            /\ store'[s][c] = FromHost(s, c)
            /\ \A d \in Sessions : d # c => store'[s][d] = store[s][d]
        BY <3>0, <3>9 DEF CopySession, s
      <4>2. \A d \in copied[r] : Present(store[s][d])
        BY <3>0, <4>1 DEF CopiedPresent, s
      <4>3. Present(store'[s][c])
        BY <3>0, <4>1
      <4>4. \A d \in copied'[r] : Present(store'[s][d])
        BY <3>0, <4>1, <4>2, <4>3
      <4> QED BY <3>b, <4>1, <4>4
    <3>10. ASSUME NEW c \in Sessions, SkipSession(r, c) PROVE CopiedPresent(r)'
      BY <2>0, <3>0, <3>10 DEF SkipSession, storeVars, CopiedPresent, Named
    <3>11. CASE CopyDone(r)
      <4>1. /\ pc[r] = "copy" /\ pc'[r] = "index"
            /\ store' = store /\ copied' = copied
        BY <3>11 DEF CopyDone, storeVars
      <4>2. \A c \in copied'[r] : Present(store'[s][c])
        BY <3>0, <4>1 DEF CopiedPresent, s
      <4> QED BY <3>b, <4>1, <4>2
    <3>12. CASE WriteIndex(r)
      <4>1. /\ index'[s] = Indexed(r) /\ store' = store
            /\ pc[r] = "index" /\ pc'[r] = "mark"
        BY <3>0, <3>12 DEF WriteIndex, s
      <4>2. Indexed(r) \subseteq copied[r]
        BY <2>0, CarefulPolicy DEF Indexed
      <4>3. \A c \in index'[s] : Present(store'[s][c])
        BY <3>0, <4>1, <4>2 DEF CopiedPresent, s
      <4> QED BY <3>0, <4>1, <4>3 DEF CopiedPresent, Named
    <3>13. ASSUME NEW c \in Sessions, ContinueSession(r, c) \/ NewSession(r, c)
           PROVE  CopiedPresent(r)'
      BY <3>13, <3>a DEF ContinueSession, NewSession
    <3>14. CASE EditConfig(r)
      BY <3>14, <3>a DEF EditConfig
    <3> QED BY <2>6, <3>1, <3>2, <3>3, <3>4, <3>5, <3>6, <3>7, <3>8, <3>9,
               <3>10, <3>11, <3>12, <3>13, <3>14 DEF Prepare, Sandbox
  <2> QED BY <2>1, <2>2, <2>4, <2>5, <2>6 DEF Next, HostSteps
<1> QED BY <1>1, <1>2, TypeCorrect, AloneInvariant, UnmarkedInvariant, PTL
           DEF Spec

(* What the resume index of a store names is there to be resumed: the      *)
(* index of a seeding is rebuilt from what it copied (kimi.go:156-188,     *)
(* codex.go:185-215), and no session leaves a marked store.                *)
THEOREM IndexNamesPresentHolds == Spec => []IndexNamesPresent
<1>1. TypeOK /\ Marked /\ Naming => IndexNamesPresent
  BY DEF Marked, Naming, Named, IndexNamesPresent
<1> QED BY <1>1, TypeCorrect, MarkedInvariant, NamingInvariant, PTL

-----------------------------------------------------------------------------
(* Once a run of copilot has copied its configuration, its store has what  *)
(* the host had of it, until a sandbox changes it.                         *)
Unrefreshed == {"idle", "config", "sandbox", "done"}

InPlace ==
  Careful /\ agent = "copilot" =>
    \A r \in Runs : pc[r] \notin Unrefreshed /\ temp[r] > 0 =>
                     storeConfig[Slug(r)] = temp[r]

(* InPlace holds in every reachable state. *)
LEMMA InPlaceInvariant == Spec => []InPlace
<1>1. Init => InPlace
  BY DEF Init, InPlace, Unrefreshed
<1>2. TypeOK /\ Alone /\ InPlace /\ [Next]_vars => InPlace'
  <2> SUFFICES ASSUME TypeOK, Alone, InPlace, [Next]_vars,
                      Careful, agent = "copilot", NEW r \in Runs,
                      pc'[r] \notin Unrefreshed, temp'[r] > 0
               PROVE  storeConfig'[Slug(r)] = temp'[r]
    BY CarefulStays DEF InPlace
  <2>0. /\ agent \notin Shared /\ Slug(r) \in Slugs
        /\ Policy.config = "always"
        /\ pc[r] \notin Unrefreshed /\ temp[r] > 0
             => storeConfig[Slug(r)] = temp[r]
    BY CarefulPolicy, ConstantsAssumption DEF Careful, TypeOK, Slug, InPlace
  <2> USE DEF TypeOK, Goto, runVars, storeVars, Unrefreshed
  <2>1. CASE HostSteps
    <3>1. UNCHANGED <<pc, temp, storeConfig>>
      BY <2>1, HostLeaves
    <3> QED BY <2>0, <3>1
  <2>2. ASSUME NEW q \in Runs, q # r, Prepare(q) \/ Sandbox(q)
        PROVE  storeConfig'[Slug(r)] = temp'[r]
    <3>1. pc'[r] = pc[r]
      BY <2>2 DEF Prepare, Sandbox, Start, CheckMarker, CopyConfig,
         NoDatabase, Snapshot, Filter, RemoveDatabase, InsertRows,
         AttributeSessions, CopySession, SkipSession, CopyDone, WriteIndex,
         WriteMarker, MarkerFails, Abandon, ContinueSession, NewSession,
         EditConfig, EndRun, Exit
    <3>2. Active(r)
      BY <3>1 DEF Active
    <3>3. temp'[r] = temp[r] /\ storeConfig'[Slug(r)] = storeConfig[Slug(r)]
      BY <2>0, <2>2, <3>2, OthersLeave
    <3> QED BY <2>0, <3>1, <3>3
  <2>3. ~Start(r)
    BY <2>0 DEF Start
  <2>4. CASE CopyConfig(r)
    BY <2>0, <2>4 DEF CopyConfig, Refreshed
  <2>5. ASSUME Prepare(r) \/ Sandbox(r), ~CopyConfig(r)
        PROVE  storeConfig' = storeConfig /\ temp' = temp
               /\ pc[r] \notin Unrefreshed
    <3>1. CASE \/ CheckMarker(r) \/ NoDatabase(r) \/ Snapshot(r) \/ Filter(r)
               \/ RemoveDatabase(r) \/ InsertRows(r) \/ AttributeSessions(r)
               \/ CopyDone(r) \/ WriteIndex(r)
      BY <3>1 DEF CheckMarker, NoDatabase, Snapshot, Filter, RemoveDatabase,
         InsertRows, AttributeSessions, CopyDone, WriteIndex
    <3>2. ASSUME NEW c \in Sessions, CopySession(r, c) \/ SkipSession(r, c)
          PROVE  storeConfig' = storeConfig /\ temp' = temp
                 /\ pc[r] \notin Unrefreshed
      BY <3>2 DEF CopySession, SkipSession
    <3>3. /\ ~WriteMarker(r) /\ ~MarkerFails(r) /\ ~Abandon(r) /\ ~EndRun(r)
          /\ ~EditConfig(r)
          /\ \A c \in Sessions : ~ContinueSession(r, c) /\ ~NewSession(r, c)
      BY DEF WriteMarker, MarkerFails, Abandon, EndRun, EditConfig, Exit,
         ContinueSession, NewSession
    <3> QED BY <2>3, <2>5, <3>1, <3>2, <3>3 DEF Prepare, Sandbox
  <2> QED BY <2>0, <2>1, <2>2, <2>4, <2>5 DEF Next, HostSteps
<1> QED BY <1>1, <1>2, TypeCorrect, AloneInvariant, PTL DEF Spec

(* Copilot's sandbox starts with the files of the host's configuration as  *)
(* this very run found them, also when its sessions were seeded long ago   *)
(* (copilot.go:27).                                                        *)
THEOREM ConfigCurrentHolds == Spec => ConfigCurrent
<1>1. TypeOK /\ InPlace /\ [Next]_vars
      => [Careful /\ agent = "copilot" =>
            \A r \in Runs : pc[r] # "sandbox" /\ pc'[r] = "sandbox" /\ temp[r] > 0
                               => storeConfig'[Slug(r)] = temp[r]]_vars
  <2> SUFFICES ASSUME TypeOK, InPlace, Next, Careful, agent = "copilot",
                      NEW r \in Runs, pc[r] # "sandbox", pc'[r] = "sandbox",
                      temp[r] > 0
               PROVE  storeConfig'[Slug(r)] = temp[r]
    OBVIOUS
  <2>1. /\ Policy.config = "always"
        /\ pc[r] \notin Unrefreshed => storeConfig[Slug(r)] = temp[r]
    BY CarefulPolicy DEF Careful, TypeOK, InPlace
  <2> USE DEF TypeOK, Goto
  <2>a. pc' # pc
    OBVIOUS
  <2>b. ~HostSteps
    BY <2>a, HostLeaves DEF runVars
  <2>c. PICK q \in Runs : Prepare(q) \/ Sandbox(q)
    BY <2>b DEF Next, HostSteps
  <2>d. q = r
    BY <2>c DEF Prepare, Sandbox, runVars, Start, CheckMarker, CopyConfig,
       NoDatabase, Snapshot, Filter, RemoveDatabase, InsertRows,
       AttributeSessions, CopySession, SkipSession, CopyDone, WriteIndex,
       WriteMarker, MarkerFails, Abandon, ContinueSession, NewSession,
       EditConfig, EndRun, Exit
  <2>e. /\ ~Start(r) /\ ~CopyConfig(r) /\ ~NoDatabase(r) /\ ~Snapshot(r)
        /\ ~Filter(r) /\ ~RemoveDatabase(r) /\ ~InsertRows(r)
        /\ ~AttributeSessions(r) /\ ~CopyDone(r) /\ ~WriteIndex(r)
        /\ ~Abandon(r) /\ ~Sandbox(r)
        /\ \A c \in Sessions : ~CopySession(r, c) /\ ~SkipSession(r, c)
    BY <2>1 DEF Sandbox, Exit, SeedingStage, AfterRows, Start, CopyConfig,
       NoDatabase, Snapshot, Filter, RemoveDatabase, InsertRows,
       AttributeSessions, CopySession, SkipSession, CopyDone, WriteIndex,
       Abandon, ContinueSession, NewSession, EditConfig, EndRun
  <2>2. CheckMarker(r) \/ WriteMarker(r) \/ MarkerFails(r)
    BY <2>c, <2>d, <2>e DEF Prepare
  <2>3. pc[r] \notin Unrefreshed /\ storeConfig' = storeConfig
    BY <2>2 DEF Unrefreshed, CheckMarker, WriteMarker, MarkerFails, storeVars,
       Exit
  <2> QED BY <2>1, <2>3
<1> QED BY <1>1, TypeCorrect, InPlaceInvariant, PTL DEF Spec, ConfigCurrent
=============================================================================
