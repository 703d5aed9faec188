----------------------- MODULE PluginSupervisor_proofs -----------------------
(***************************************************************************)
(* Proofs about the plugin supervisor, for any plugins, tools, policies,   *)
(* processes, commands and faults: its state keeps its types, a name in    *)
(* the registry always leads to a process of its owner, and the router,    *)
(* once it has read all notices, offers what can be dispatched.            *)
(***************************************************************************)
EXTENDS PluginSupervisor, TLAPS

\* A plugin that is being started is configured, and the process the
\* supervisor shakes hands with is its own.
StartInv ==
  /\ \A p \in toBoot : configs[p].restart # "none"
  /\ sv.at # "idle" => sv.p \in Plugins /\ configs[sv.p].restart # "none"
  /\ sv.at \in {"hello", "list"} => sv.n \in Procs /\ proc[sv.n].plugin = sv.p

\* A call that was made names a tool, and a process that runs has a plugin.
CallsKnown == \A c \in Calls : call[c].at # "new" => call[c].tool \in Tools

ProcsKnown == \A n \in Procs : proc[n].state \in {"up", "mute"} => proc[n].plugin \in Plugins

IInv == TypeOK /\ StartInv /\ CallsKnown /\ ProcsKnown /\ RegistryIsBacked

-----------------------------------------------------------------------------
(* The broadcast keeps its type and its capacity, dropping or not.          *)
LEMMA EmitTyped ==
  ASSUME TypeOK, NEW e \in Notice, Emit(e)
  PROVE  feed' \in Seq(Notice) /\ Len(feed') <= FeedCap /\ lost' \in BOOLEAN
<1> USE PluginAssumption
<1>1. feed \in Seq(Notice) /\ Len(feed) <= FeedCap /\ lost \in BOOLEAN /\ FeedCap \in Nat \ {0}
  BY DEF TypeOK
<1>2. CASE Len(feed) < FeedCap
  <2>1. feed' = Append(feed, e) /\ lost' = lost
    BY <1>2 DEF Emit
  <2>. QED BY <1>1, <1>2, <2>1
<1>3. CASE ~(Len(feed) < FeedCap)
  <2>1. feed' = Append(Tail(feed), e) /\ lost' = TRUE
    BY <1>3 DEF Emit
  <2>2. Len(feed) = FeedCap /\ feed # <<>>
    BY <1>1, <1>3
  <2>3. Tail(feed) \in Seq(Notice) /\ Len(Tail(feed)) = FeedCap - 1
    BY <1>1, <2>2
  <2>. QED BY <1>1, <2>1, <2>3
<1>. QED BY <1>2, <1>3

(* Taking a plugin down leaves typed state behind.                          *)
LEMMA TakeDownTyped ==
  ASSUME TypeOK, NEW p \in Plugins, TakeDown(p)
  PROVE  /\ registry' \in [Tools -> Plugins \cup {None}]
         /\ plugins' \in [Plugins -> 0..MaxProcs]
         /\ feed' \in Seq(Notice) /\ Len(feed') <= FeedCap /\ lost' \in BOOLEAN
<1>1. registry' \in [Tools -> Plugins \cup {None}]
  BY DEF TakeDown, Without, TypeOK
<1>2. plugins' \in [Plugins -> 0..MaxProcs]
  BY PluginAssumption DEF TakeDown, TypeOK
<1>3. CASE plugins[p] # 0
  <2>1. [plugin |-> p, tools |-> {}] \in Notice
    BY DEF Notice
  <2>2. Emit([plugin |-> p, tools |-> {}])
    BY <1>3 DEF TakeDown, PluginDown
  <2>. QED BY <1>1, <1>2, <2>1, <2>2, EmitTyped
<1>4. CASE plugins[p] = 0
  BY <1>1, <1>2, <1>4 DEF TakeDown, Quiet, TypeOK
<1>. QED BY <1>3, <1>4

(* What taking a plugin down does to the registry and the entries.          *)
LEMMA TakeDownClears ==
  ASSUME TypeOK, RegistryIsBacked, NEW p \in Plugins, TakeDown(p)
  PROVE  \A q \in Plugins :
           /\ Owned(q)' # {} => q # p /\ Owned(q) # {}
           /\ plugins'[q] = IF q = p THEN 0 ELSE plugins[q]
<1> SUFFICES ASSUME NEW q \in Plugins
             PROVE  /\ Owned(q)' # {} => q # p /\ Owned(q) # {}
                    /\ plugins'[q] = IF q = p THEN 0 ELSE plugins[q]
  OBVIOUS
<1>1. plugins'[q] = IF q = p THEN 0 ELSE plugins[q]
  BY DEF TakeDown, TypeOK
<1>2. ASSUME NEW t \in Tools, registry'[t] = q
      PROVE  q # p /\ registry[t] = q
  BY <1>2, PluginAssumption DEF TakeDown, Without, TypeOK
<1>. QED BY <1>1, <1>2 DEF Owned

-----------------------------------------------------------------------------
(* Nothing runs at first, and every plugin to boot is configured.           *)
LEMMA InitHolds == Init => IInv
<1> SUFFICES ASSUME Init PROVE IInv
  OBVIOUS
<1>1. TypeOK
  <2>1. sv \in Doing /\ budget \in Spent /\ proc \in [Procs -> Process]
    BY PluginAssumption DEF Init, IdleSv, FreeProc, Doing, Spent, Process
  <2>2. call \in [Calls -> Request]
    BY PluginAssumption DEF Init, Request
  <2>3. /\ configs \in [Plugins -> Config]
        /\ plugins \in [Plugins -> 0..MaxProcs] /\ registry \in [Tools -> Plugins \cup {None}]
    BY PluginAssumption DEF Init, Config
  <2>3a. mirror \in [Plugins -> SUBSET Tools] /\ lost \in BOOLEAN
    <3>1. {} \in SUBSET Tools
      OBVIOUS
    <3>. QED BY <3>1, Zenon DEF Init
  <2>4. cmds \in Seq(Command) /\ feed \in Seq(Notice) /\ Len(feed) <= FeedCap
    BY PluginAssumption DEF Init
  <2>. QED BY <2>1, <2>2, <2>3, <2>3a, <2>4 DEF Init, TypeOK
<1>2. StartInv
  <2>1. \A p \in toBoot : configs[p].restart # "none"
    BY PluginAssumption DEF Init
  <2>. QED BY <2>1 DEF Init, StartInv, IdleSv
<1>3. RegistryIsBacked
  BY PluginAssumption DEF Init, RegistryIsBacked, Owned
<1>4. CallsKnown /\ ProcsKnown
  BY DEF Init, CallsKnown, ProcsKnown, FreeProc
<1>. QED BY <1>1, <1>2, <1>3, <1>4 DEF IInv

(* Steps that touch neither configurations, entries, registry nor what the  *)
(* supervisor is doing, and give no process another plugin.                 *)
LEMMA AsideKeepsBacked ==
  ASSUME IInv, UNCHANGED <<configs, plugins, registry, sv, toBoot>>,
         \A n \in Procs : proc'[n].plugin = proc[n].plugin
  PROVE  StartInv' /\ RegistryIsBacked'
<1>1. StartInv'
  BY DEF IInv, StartInv
<1>2. \A p \in Plugins : plugins[p] # 0 => plugins[p] \in Procs
  BY PluginAssumption DEF IInv, TypeOK, Procs
<1>3. RegistryIsBacked'
  BY <1>2 DEF IInv, RegistryIsBacked, Owned
<1>. QED BY <1>1, <1>3

(* Steps that leave the calls and the processes alone.                      *)
LEMMA OthersKeepKnown ==
  ASSUME IInv, UNCHANGED <<call, proc>>
  PROVE  CallsKnown' /\ ProcsKnown'
BY DEF IInv, CallsKnown, ProcsKnown

(* A lost event leaves the supervisor alone.                                *)
LEMMA LagStep == IInv /\ Lag => IInv'
<1> SUFFICES ASSUME IInv, Lag PROVE IInv'
  OBVIOUS
<1>1. feed' \in Seq(Notice) /\ Len(feed') <= FeedCap /\ lost' \in BOOLEAN
  BY PluginAssumption DEF IInv, TypeOK, Lag
<1>2. TypeOK'
  BY <1>1 DEF IInv, TypeOK, Lag
<1>. QED BY <1>2, AsideKeepsBacked, OthersKeepKnown DEF IInv, Lag

(* So does one the router reads.                                            *)
LEMMA RouterReadsStep == IInv /\ RouterReads => IInv'
<1> SUFFICES ASSUME IInv, RouterReads PROVE IInv'
  OBVIOUS
<1>1. Head(feed) \in Notice /\ feed' \in Seq(Notice) /\ Len(feed') <= FeedCap
  BY PluginAssumption DEF IInv, TypeOK, RouterReads
<1>2. mirror' \in [Plugins -> SUBSET Tools]
  BY <1>1 DEF IInv, TypeOK, RouterReads, Notice
<1>3. TypeOK'
  BY <1>1, <1>2 DEF IInv, TypeOK, RouterReads
<1>. QED BY <1>3, AsideKeepsBacked, OthersKeepKnown DEF IInv, RouterReads

(* run() starts only configured plugins.                                    *)
LEMMA BootNextStep == IInv /\ BootNext => IInv'
<1> SUFFICES ASSUME IInv, BootNext PROVE IInv'
  OBVIOUS
<1>1. PICK p \in toBoot : sv' = StartOf(p) /\ toBoot' = toBoot \ {p}
  BY DEF BootNext
<1>2. TypeOK'
  <2>1. sv' \in Doing
    BY <1>1, PluginAssumption DEF IInv, TypeOK, StartOf, Doing
  <2>. QED BY <1>1, <2>1 DEF IInv, TypeOK, BootNext
<1>3. StartInv'
  BY <1>1 DEF IInv, TypeOK, StartInv, BootNext, StartOf
<1>4. RegistryIsBacked'
  BY DEF IInv, RegistryIsBacked, Owned, BootNext
<1>. QED BY <1>2, <1>3, <1>4, OthersKeepKnown DEF IInv, BootNext

(* A new process takes a slot nobody holds a client of.                     *)
LEMMA AttachStep == IInv /\ Attach => IInv'
<1> SUFFICES ASSUME IInv, Attach PROVE IInv'
  OBVIOUS
<1>1. PICK n \in Procs :
        /\ ~ClientHeld(n)
        /\ proc' = [proc EXCEPT ![n] = [plugin |-> sv.p, state |-> "up"]]
        /\ sv' = [at |-> "hello", p |-> sv.p, n |-> n]
  BY DEF Attach, FreeSlot
<1>2. sv.p \in Plugins /\ configs[sv.p].restart # "none" /\ n \in 0..MaxProcs
  BY PluginAssumption DEF IInv, StartInv, Attach, Procs
<1>3. TypeOK'
  <2>1. sv' \in Doing
    BY <1>1, <1>2 DEF Doing
  <2>2. proc' \in [Procs -> Process]
    BY <1>1, <1>2 DEF IInv, TypeOK, Process
  <2>. QED BY <2>1, <2>2 DEF IInv, TypeOK, Attach
<1>4. StartInv'
  BY <1>1, <1>2 DEF IInv, TypeOK, StartInv, Attach
<1>5. RegistryIsBacked'
  <2>1. \A p \in Plugins : plugins[p] # 0 => plugins[p] \in Procs /\ plugins[p] # n
    BY <1>1, PluginAssumption DEF IInv, TypeOK, Procs, ClientHeld
  <2>2. \A p \in Plugins : plugins[p] # 0 => proc'[plugins[p]] = proc[plugins[p]]
    BY <1>1, <2>1 DEF IInv, TypeOK
  <2>. QED BY <2>2 DEF IInv, RegistryIsBacked, Owned, Attach
<1>6. CallsKnown' /\ ProcsKnown'
  BY <1>1, <1>2 DEF IInv, TypeOK, CallsKnown, ProcsKnown, Attach
<1>. QED BY <1>3, <1>4, <1>5, <1>6 DEF IInv

(* A start that fails changes no entry and no name.                         *)
LEMMA AttachFailsStep == IInv /\ AttachFails => IInv'
<1> SUFFICES ASSUME IInv, AttachFails PROVE IInv'
  OBVIOUS
<1>1. sv.p \in Plugins
  BY DEF IInv, StartInv, AttachFails
<1>2. budget' \in Spent /\ sv' \in Doing
  BY PluginAssumption DEF IInv, TypeOK, AttachFails, Spent, Doing, IdleSv
<1>3. late' \subseteq Plugins /\ unstarted' \subseteq Plugins
  BY <1>1 DEF IInv, TypeOK, AttachFails
<1>3a. TypeOK'
  BY <1>2, <1>3 DEF IInv, TypeOK, AttachFails
<1>4. StartInv'
  BY DEF IInv, StartInv, AttachFails, IdleSv
<1>5. RegistryIsBacked'
  BY DEF IInv, RegistryIsBacked, Owned, AttachFails
<1>. QED BY <1>3a, <1>4, <1>5, OthersKeepKnown DEF IInv, AttachFails

(* The late report of a failed connect names a plugin.                      *)
LEMMA LateReportStep ==
  ASSUME IInv, NEW p \in Plugins, LateReport(p)
  PROVE  IInv'
<1>1. [kind |-> "died", p |-> p, success |-> FALSE] \in Command
  BY DEF Command
<1>2. cmds' \in Seq(Command)
  BY <1>1 DEF IInv, TypeOK, LateReport
<1>3. TypeOK'
  BY <1>2 DEF IInv, TypeOK, LateReport
<1>. QED BY <1>3, AsideKeepsBacked, OthersKeepKnown DEF IInv, LateReport

(* The first answer of the handshake changes no entry.                      *)
LEMMA InitializedStep == IInv /\ Initialized => IInv'
<1> SUFFICES ASSUME IInv, Initialized PROVE IInv'
  OBVIOUS
<1>1. TypeOK'
  <2>1. sv' \in Doing
    BY DEF IInv, TypeOK, Initialized, Doing
  <2>. QED BY <2>1 DEF IInv, TypeOK, Initialized
<1>2. StartInv'
  BY DEF IInv, TypeOK, StartInv, Initialized
<1>3. RegistryIsBacked'
  BY DEF IInv, RegistryIsBacked, Owned, Initialized
<1>. QED BY <1>1, <1>2, <1>3, OthersKeepKnown DEF IInv, Initialized

(* A handshake that fails leaves the older entry, if any, as it was.        *)
LEMMA HandshakeFailsStep == IInv /\ HandshakeFails => IInv'
<1> SUFFICES ASSUME IInv, HandshakeFails PROVE IInv'
  OBVIOUS
<1>1. TypeOK'
  <2>1. sv' \in Doing
    BY PluginAssumption DEF HandshakeFails, IdleSv, Doing
  <2>2. budget' \in Spent
    BY PluginAssumption DEF IInv, TypeOK, HandshakeFails, Spent
  <2>. QED BY <2>1, <2>2 DEF IInv, TypeOK, HandshakeFails
<1>2. StartInv'
  BY DEF IInv, StartInv, HandshakeFails, IdleSv
<1>3. RegistryIsBacked'
  BY DEF IInv, RegistryIsBacked, Owned, HandshakeFails
<1>. QED BY <1>1, <1>2, <1>3, OthersKeepKnown DEF IInv, HandshakeFails

(* New names and the new entry come together, and take nothing from others. *)
LEMMA ToolsListedStep == IInv /\ ToolsListed => IInv'
<1> SUFFICES ASSUME IInv, ToolsListed PROVE IInv'
  OBVIOUS
<1>1. /\ sv.p \in Plugins /\ configs[sv.p].restart # "none"
      /\ sv.n \in Procs /\ proc[sv.n].plugin = sv.p
      /\ sv.n \in 0..MaxProcs /\ sv.n # 0
  BY PluginAssumption DEF IInv, StartInv, ToolsListed, Procs
<1>2. PICK offered \in Offers[sv.p] :
        /\ registry' = [t \in Tools |-> IF t \in Claimable(sv.p, offered) THEN sv.p
                                        ELSE registry[t]]
        /\ PluginUp(sv.p, Claimable(sv.p, offered))
  BY DEF ToolsListed
<1>2a. Claimable(sv.p, offered) \subseteq Tools
  BY <1>1, <1>2, PluginAssumption DEF Claimable
<1>3. feed' \in Seq(Notice) /\ Len(feed') <= FeedCap /\ lost' \in BOOLEAN
  <2>1. [plugin |-> sv.p, tools |-> Claimable(sv.p, offered)] \in Notice
    BY <1>1, <1>2a DEF Notice
  <2>. QED BY <1>2, <2>1, EmitTyped DEF IInv, PluginUp
<1>4. registry' \in [Tools -> Plugins \cup {None}]
  BY <1>1, <1>2 DEF IInv, TypeOK
<1>5. plugins' \in [Plugins -> 0..MaxProcs]
  BY <1>1 DEF IInv, TypeOK, ToolsListed
<1>6. TypeOK'
  <2>1. sv' \in Doing
    BY PluginAssumption DEF ToolsListed, IdleSv, Doing
  <2>2. unstarted' \subseteq Plugins
    BY DEF IInv, TypeOK, ToolsListed
  <2>. QED BY <1>3, <1>4, <1>5, <2>1, <2>2 DEF IInv, TypeOK, ToolsListed
<1>7. StartInv'
  BY DEF IInv, StartInv, ToolsListed, IdleSv
<1>8. RegistryIsBacked'
  <2> SUFFICES ASSUME NEW q \in Plugins
               PROVE  /\ Owned(q)' # {} => plugins'[q] # 0
                      /\ plugins'[q] # 0 => proc'[plugins'[q]].plugin = q /\ configs'[q].restart # "none"
    BY DEF RegistryIsBacked, Owned
  <2>1. plugins'[q] = IF q = sv.p THEN sv.n ELSE plugins[q]
    BY <1>1 DEF IInv, TypeOK, ToolsListed
  <2>2. UNCHANGED <<proc, configs>>
    BY DEF ToolsListed
  <2>3. CASE q = sv.p
    BY <1>1, <2>1, <2>2, <2>3
  <2>4. CASE q # sv.p
    <3>1. Owned(q)' # {} => Owned(q) # {}
      BY <1>1, <1>2, <2>4 DEF Owned, IInv, TypeOK
    <3>. QED BY <2>1, <2>2, <2>4, <3>1 DEF IInv, RegistryIsBacked
  <2>. QED BY <2>3, <2>4
<1>. QED BY <1>6, <1>7, <1>8, OthersKeepKnown DEF IInv, ToolsListed

-----------------------------------------------------------------------------
(* The handlers of the command channel.                                     *)

\* What a handler has to establish besides the type of its queue.
HandlerLeaves ==
  /\ configs' \in [Plugins -> Config]
  /\ registry' \in [Tools -> Plugins \cup {None}]
  /\ plugins' \in [Plugins -> 0..MaxProcs]
  /\ feed' \in Seq(Notice) /\ Len(feed') <= FeedCap /\ lost' \in BOOLEAN
  /\ sv' \in Doing
  /\ sv'.at \in {"idle", "start"}
  /\ sv'.at # "idle" => sv'.p \in Plugins /\ configs'[sv'.p].restart # "none"
  /\ \A q \in Plugins :
       /\ Owned(q)' # {} => plugins'[q] # 0
       /\ plugins'[q] # 0 => plugins'[q] = plugins[q] /\ configs'[q].restart # "none"

(* The two things a handler leaves the supervisor with.                     *)
LEMMA NextDoing ==
  ASSUME NEW p \in Plugins
  PROVE  /\ IdleSv \in Doing /\ IdleSv.at = "idle"
         /\ StartOf(p) \in Doing /\ StartOf(p).at = "start" /\ StartOf(p).p = p
BY PluginAssumption DEF IdleSv, StartOf, Doing

(* Entries and names that are left after a plugin was taken down are the    *)
(* others', as they were.                                                   *)
LEMMA TakeDownLeaves ==
  ASSUME IInv, NEW p \in Plugins, TakeDown(p),
         \A q \in Plugins : q # p => configs'[q] = configs[q]
  PROVE  \A q \in Plugins :
           /\ Owned(q)' # {} => plugins'[q] # 0
           /\ plugins'[q] # 0 => plugins'[q] = plugins[q] /\ configs'[q].restart # "none"
<1> SUFFICES ASSUME NEW q \in Plugins
             PROVE  /\ Owned(q)' # {} => plugins'[q] # 0
                    /\ plugins'[q] # 0 => plugins'[q] = plugins[q] /\ configs'[q].restart # "none"
  OBVIOUS
<1>1. /\ Owned(q)' # {} => q # p /\ Owned(q) # {}
      /\ plugins'[q] = IF q = p THEN 0 ELSE plugins[q]
  BY TakeDownClears DEF IInv
<1>. QED BY <1>1 DEF IInv, RegistryIsBacked

(* A death report.                                                          *)
LEMMA HandleDiedLeaves ==
  ASSUME IInv, NEW p \in Plugins, NEW success \in BOOLEAN, HandleDied(p, success)
  PROVE  HandlerLeaves
<1>1. TakeDown(p) /\ configs' = configs
  BY DEF HandleDied
<1>2. CASE ShouldRestart(configs[p].restart, success)
  <2>1. sv' = StartOf(p) /\ configs[p].restart # "none"
    BY <1>2 DEF HandleDied, ShouldRestart
  <2>. QED BY <1>1, <2>1, NextDoing, TakeDownTyped, TakeDownLeaves DEF IInv, TypeOK, HandlerLeaves
<1>3. CASE ~ShouldRestart(configs[p].restart, success)
  <2>1. sv' = IdleSv
    BY <1>3 DEF HandleDied
  <2>. QED BY <1>1, <2>1, NextDoing, TakeDownTyped, TakeDownLeaves DEF IInv, TypeOK, HandlerLeaves
<1>. QED BY <1>2, <1>3

(* A registration.                                                          *)
LEMMA SpawnPluginLeaves ==
  ASSUME IInv, NEW p \in Plugins, SpawnPlugin(p)
  PROVE  HandlerLeaves
<1>1. configs' \in [Plugins -> Config]
  BY DEF IInv, TypeOK, SpawnPlugin, Config
<1>2. \A q \in Plugins : configs'[q].restart # "none" \/ configs'[q] = configs[q]
  BY DEF IInv, TypeOK, SpawnPlugin
<1>3. configs'[p].restart # "none"
  BY DEF IInv, TypeOK, SpawnPlugin
<1>4. sv' = StartOf(p) /\ UNCHANGED <<plugins, registry, feed, lost>>
  BY DEF SpawnPlugin, Quiet
<1>5. \A q \in Plugins :
        /\ Owned(q)' # {} => plugins'[q] # 0
        /\ plugins'[q] # 0 => plugins'[q] = plugins[q] /\ configs'[q].restart # "none"
  BY <1>2, <1>4 DEF IInv, RegistryIsBacked, Owned
<1>. QED BY <1>1, <1>3, <1>4, <1>5, NextDoing DEF IInv, TypeOK, HandlerLeaves

(* A removal.                                                               *)
LEMMA KillPluginLeaves ==
  ASSUME IInv, NEW p \in Plugins, KillPlugin(p)
  PROVE  HandlerLeaves
<1>1. configs' \in [Plugins -> Config]
  BY DEF IInv, TypeOK, KillPlugin, Config
<1>2. \A q \in Plugins : q # p => configs'[q] = configs[q]
  BY DEF IInv, TypeOK, KillPlugin
<1>3. TakeDown(p) /\ sv' = IdleSv
  BY DEF KillPlugin
<1>. QED BY <1>1, <1>2, <1>3, NextDoing, TakeDownTyped, TakeDownLeaves
        DEF IInv, HandlerLeaves

(* A reload.                                                                *)
LEMMA HotReloadLeaves ==
  ASSUME IInv, NEW p \in Plugins, HotReload(p)
  PROVE  HandlerLeaves
<1>1. TakeDown(p) /\ configs' = configs
  BY DEF HotReload
<1>2. CASE configs[p].restart \in {"on_failure", "never"}
  <2>1. sv' = StartOf(p) /\ configs[p].restart # "none"
    BY <1>2 DEF HotReload
  <2>. QED BY <1>1, <2>1, NextDoing, TakeDownTyped, TakeDownLeaves DEF IInv, TypeOK, HandlerLeaves
<1>3. CASE configs[p].restart \notin {"on_failure", "never"}
  <2>1. sv' = IdleSv
    BY <1>3 DEF HotReload
  <2>. QED BY <1>1, <2>1, NextDoing, TakeDownTyped, TakeDownLeaves DEF IInv, TypeOK, HandlerLeaves
<1>. QED BY <1>2, <1>3

(* Every handler of the command channel preserves the invariant.            *)
LEMMA TakeCommandStep == IInv /\ TakeCommand => IInv'
<1> SUFFICES ASSUME IInv, TakeCommand PROVE IInv'
  OBVIOUS
<1>1. Head(cmds) \in Command /\ cmds' \in Seq(Command)
  BY DEF IInv, TypeOK, TakeCommand
<1>2. PICK m \in Command : m = Head(cmds)
  BY <1>1
<1>3. m.p \in Plugins /\ m.success \in BOOLEAN /\ HandleCommand(m)
  BY <1>2 DEF TakeCommand, Command
<1>4. HandlerLeaves
  <2>1. CASE m.kind = "died"
    BY <1>3, <2>1, HandleDiedLeaves DEF HandleCommand
  <2>2. CASE m.kind = "spawn"
    BY <1>3, <2>2, SpawnPluginLeaves DEF HandleCommand
  <2>3. CASE m.kind = "kill"
    BY <1>3, <2>3, KillPluginLeaves DEF HandleCommand
  <2>4. CASE m.kind = "reload"
    BY <1>3, <2>4, HotReloadLeaves DEF HandleCommand
  <2>. QED BY <2>1, <2>2, <2>3, <2>4 DEF Command
<1>5. UNCHANGED <<toBoot, late, proc, call, mirror, unstarted, budget>> /\ toBoot = {}
  BY DEF TakeCommand, Ready
<1>6. TypeOK'
  BY <1>1, <1>4, <1>5 DEF IInv, TypeOK, HandlerLeaves
<1>7. StartInv'
  BY <1>4, <1>5 DEF StartInv, HandlerLeaves
<1>8. RegistryIsBacked'
  BY <1>4, <1>5 DEF IInv, RegistryIsBacked, HandlerLeaves
<1>. QED BY <1>6, <1>7, <1>8, OthersKeepKnown DEF IInv, TakeCommand

(* Commands name plugins.                                                   *)
LEMMA SendCommandStep ==
  ASSUME IInv, NEW p \in Plugins, NEW kind \in Commands, SendCommand(kind, p)
  PROVE  IInv'
<1>1. [kind |-> kind, p |-> p, success |-> FALSE] \in Command
  BY PluginAssumption DEF Command
<1>2. cmds' \in Seq(Command)
  BY <1>1 DEF IInv, TypeOK, SendCommand
<1>3. budget' \in Spent
  BY PluginAssumption DEF IInv, TypeOK, SendCommand, Spent
<1>4. TypeOK'
  BY <1>2, <1>3 DEF IInv, TypeOK, SendCommand
<1>. QED BY <1>4, AsideKeepsBacked, OthersKeepKnown DEF IInv, SendCommand

-----------------------------------------------------------------------------
(* Calls and processes.                                                     *)

(* A call names a tool.                                                     *)
LEMMA AskStep ==
  ASSUME IInv, NEW c \in Calls, NEW t \in Tools, Ask(c, t)
  PROVE  IInv'
<1>1. call' \in [Calls -> Request]
  BY PluginAssumption DEF IInv, TypeOK, Ask, Request
<1>2. TypeOK'
  BY <1>1 DEF IInv, TypeOK, Ask
<1>3. CallsKnown' /\ ProcsKnown'
  BY DEF IInv, TypeOK, CallsKnown, ProcsKnown, Ask
<1>. QED BY <1>2, <1>3, AsideKeepsBacked DEF IInv, Ask

(* Dispatching changes the call only.                                       *)
LEMMA DispatchStep ==
  ASSUME IInv, NEW c \in Calls, Dispatch(c)
  PROVE  IInv'
<1> DEFINE owner == registry[call[c].tool]
           n == IF owner = None THEN 0 ELSE plugins[owner]
<1>1. call[c].tool \in Tools /\ call[c] \in Request
  BY DEF IInv, TypeOK, CallsKnown, Dispatch
<1>2. n \in 0..MaxProcs /\ 0 \in 0..MaxProcs
  BY <1>1, PluginAssumption DEF IInv, TypeOK
<1>3. PICK at \in {"sent", "told"}, k \in 0..MaxProcs :
        call' = [call EXCEPT ![c] = [at |-> at, tool |-> call[c].tool, n |-> k]]
  BY <1>1, <1>2 DEF Dispatch
<1>4. [at |-> at, tool |-> call[c].tool, n |-> k] \in Request
  BY <1>1, <1>3 DEF Request
<1>5. TypeOK'
  BY <1>3, <1>4 DEF IInv, TypeOK, Dispatch
<1>6. CallsKnown' /\ ProcsKnown'
  BY <1>1, <1>3 DEF IInv, TypeOK, CallsKnown, ProcsKnown, Dispatch
<1>. QED BY <1>5, <1>6, AsideKeepsBacked DEF IInv, Dispatch

(* Answering changes the call only.                                         *)
LEMMA ReplyStep ==
  ASSUME IInv, NEW c \in Calls, Reply(c)
  PROVE  IInv'
<1>1. call' \in [Calls -> Request]
  BY PluginAssumption DEF IInv, TypeOK, Reply, Request
<1>2. TypeOK'
  BY <1>1 DEF IInv, TypeOK, Reply
<1>3. CallsKnown' /\ ProcsKnown'
  BY DEF IInv, TypeOK, CallsKnown, ProcsKnown, Reply
<1>. QED BY <1>2, <1>3, AsideKeepsBacked DEF IInv, Reply

(* The end of a process changes no entry until its report is read.          *)
LEMMA EndsStep ==
  ASSUME IInv, NEW n \in Procs, NEW success \in BOOLEAN, Ends(n, success),
         proc[n].state \in {"up", "mute"}, budget' \in Spent
  PROVE  IInv'
<1>1. proc' \in [Procs -> Process] /\ \A k \in Procs : proc'[k].plugin = proc[k].plugin
  BY DEF IInv, TypeOK, Ends, Process
<1>2. [kind |-> "died", p |-> proc[n].plugin,
       success |-> success /\ ~configs[proc[n].plugin].socket] \in Command
  BY DEF IInv, ProcsKnown, Command
<1>3. cmds' \in Seq(Command)
  BY <1>2 DEF IInv, TypeOK, Ends
<1>4. TypeOK'
  BY <1>1, <1>3 DEF IInv, TypeOK, Ends
<1>5. CallsKnown' /\ ProcsKnown'
  BY DEF IInv, TypeOK, CallsKnown, ProcsKnown, Ends
<1>. QED BY <1>1, <1>4, <1>5, AsideKeepsBacked DEF IInv, Ends

(* ... after a crash.                                                       *)
LEMMA CrashStep ==
  ASSUME IInv, NEW n \in Procs, Crash(n)
  PROVE  IInv'
<1>1. budget' \in Spent
  BY PluginAssumption DEF IInv, TypeOK, Crash, Spent
<1>2. PICK success \in BOOLEAN : Ends(n, success)
  BY DEF Crash
<1>. QED BY <1>1, <1>2, EndsStep DEF Crash

(* ... after its stdin was closed.                                          *)
LEMMA ExitsOnEofStep ==
  ASSUME IInv, NEW n \in Procs, ExitsOnEof(n)
  PROVE  IInv'
<1>1. budget' \in Spent
  BY DEF IInv, TypeOK, ExitsOnEof
<1>. QED BY <1>1, EndsStep DEF ExitsOnEof

(* A process that hangs stays the process of its plugin.                    *)
LEMMA HangStep ==
  ASSUME IInv, NEW n \in Procs, Hang(n)
  PROVE  IInv'
<1>1. budget' \in Spent
  BY PluginAssumption DEF IInv, TypeOK, Hang, Spent
<1>2. proc' \in [Procs -> Process] /\ \A k \in Procs : proc'[k].plugin = proc[k].plugin
  BY DEF IInv, TypeOK, Hang, Process
<1>3. TypeOK'
  BY <1>1, <1>2 DEF IInv, TypeOK, Hang
<1>4. CallsKnown' /\ ProcsKnown'
  BY DEF IInv, TypeOK, CallsKnown, ProcsKnown, Hang
<1>. QED BY <1>2, <1>3, <1>4, AsideKeepsBacked DEF IInv, Hang

-----------------------------------------------------------------------------
(* Every step preserves the invariant.                                      *)
LEMMA NextStep == IInv /\ [Next]_vars => IInv'
<1> SUFFICES ASSUME IInv, [Next]_vars PROVE IInv'
  OBVIOUS
<1>1. CASE UNCHANGED vars
  <2>1. TypeOK'
    BY <1>1 DEF IInv, TypeOK, vars
  <2>. QED BY <1>1, <2>1, AsideKeepsBacked, OthersKeepKnown DEF IInv, vars
<1>2. CASE BootNext \/ Attach \/ AttachFails \/ Initialized \/ ToolsListed \/ HandshakeFails
  BY <1>2, BootNextStep, AttachStep, AttachFailsStep, InitializedStep, ToolsListedStep,
     HandshakeFailsStep
<1>3. CASE TakeCommand \/ Lag \/ RouterReads
  BY <1>3, TakeCommandStep, LagStep, RouterReadsStep
<1>4. CASE \E p \in Plugins : LateReport(p) \/ \E kind \in Commands : SendCommand(kind, p)
  BY <1>4, LateReportStep, SendCommandStep
<1>5. CASE \E c \in Calls : Dispatch(c) \/ Reply(c) \/ \E t \in Tools : Ask(c, t)
  BY <1>5, DispatchStep, ReplyStep, AskStep
<1>6. CASE \E n \in Procs : Crash(n) \/ Hang(n) \/ ExitsOnEof(n)
  BY <1>6, CrashStep, HangStep, ExitsOnEofStep
<1>. QED BY <1>1, <1>2, <1>3, <1>4, <1>5, <1>6 DEF Next

(* The inductive invariant of the supervisor: types, what is being started,  *)
(* and where the names of the registry lead.                                 *)
THEOREM PluginInvariant == Spec => []IInv
BY InitHolds, NextStep, PTL DEF Spec

(* A name of the registry leads to an entry of its owner and on to a process *)
(* of that plugin, through every start, death report, kill and reload.       *)
THEOREM RegistryAlwaysBacked == Spec => []RegistryIsBacked
<1>1. IInv => RegistryIsBacked
  BY DEF IInv
<1>. QED BY <1>1, PluginInvariant, PTL

-----------------------------------------------------------------------------
(* The router's view.                                                       *)

\* The death of a process of p is reported and not yet read.
DeathReported(p) == \E i \in 1..Len(cmds) : cmds[i].kind = "died" /\ cmds[i].p = p

\* A process of p runs that is not the one of its entry.
OtherRuns(p) ==
  \E n \in Procs : proc[n].plugin = p /\ proc[n].state \in {"up", "mute"} /\ plugins[p] # n

\* The process of an entry runs, or its end will be read.
EntryReported ==
  \A p \in Plugins : plugins[p] # 0 => \/ proc[plugins[p]].state \in {"up", "mute"}
                                       \/ DeathReported(p)

\* A handshake is with a process no entry holds yet.
HandshakeIsNew == sv.n # 0 => \A q \in Plugins : plugins[q] # sv.n

\* What RouterAgrees says of a plugin, were tools what the router offers for it.
Agrees(p, tools) == tools \subseteq Owned(p) /\ (Owned(p) \subseteq tools \/ Replaced(p))

LastOf(p, i) == feed[i].plugin = p /\ \A j \in 1..Len(feed) : j > i => feed[j].plugin # p

\* Unless an event was lost, the last notice of a plugin on its way to the
\* router agrees with the registry; without one, what the router has does.
NewsAgrees ==
  ~lost => \A p \in Plugins :
    /\ \A i \in 1..Len(feed) : LastOf(p, i) => Agrees(p, feed[i].tools)
    /\ (\A i \in 1..Len(feed) : feed[i].plugin # p) => Agrees(p, mirror[p])

NewsInv == EntryReported /\ HandshakeIsNew /\ NewsAgrees

\* A step that changes nothing the router should hear of p.
Steady(p) == Owned(p)' = Owned(p) /\ (Replaced(p) => Replaced(p)' \/ Owned(p) = {})

LEMMA ReplacedParts ==
  ASSUME cmds \in Seq(Command), NEW p
  PROVE  Replaced(p) <=> OtherRuns(p) \/ DeathReported(p)
BY DEF Replaced, OtherRuns, DeathReported

LEMMA ReplacedPartsNext ==
  ASSUME cmds' \in Seq(Command), NEW p
  PROVE  Replaced(p)' <=> OtherRuns(p)' \/ DeathReported(p)'
BY DEF Replaced, OtherRuns, DeathReported

(* A report is read in its turn: it stays while other commands are sent and *)
(* read.                                                                    *)
LEMMA SentStays ==
  ASSUME cmds \in Seq(Command), NEW m \in Command, cmds' = Append(cmds, m), NEW p
  PROVE  /\ DeathReported(p) => DeathReported(p)'
         /\ m.kind = "died" /\ m.p = p => DeathReported(p)'
<1>1. Len(cmds') = Len(cmds) + 1 /\ cmds'[Len(cmds) + 1] = m /\ Len(cmds) \in Nat
  OBVIOUS
<1>2. \A i \in 1..Len(cmds) : cmds'[i] = cmds[i]
  OBVIOUS
<1>3. DeathReported(p) => DeathReported(p)'
  BY <1>1, <1>2 DEF DeathReported
<1>4. m.kind = "died" /\ m.p = p => DeathReported(p)'
  BY <1>1 DEF DeathReported
<1>. QED BY <1>3, <1>4

LEMMA UnreadStays ==
  ASSUME cmds \in Seq(Command), cmds # <<>>, cmds' = Tail(cmds), NEW p, DeathReported(p),
         Head(cmds).kind # "died" \/ Head(cmds).p # p
  PROVE  DeathReported(p)'
<1>1. PICK i \in 1..Len(cmds) : cmds[i].kind = "died" /\ cmds[i].p = p
  BY DEF DeathReported
<1>2. i # 1
  BY <1>1
<1>3. i - 1 \in 1..Len(cmds') /\ cmds'[i - 1] = cmds[i]
  BY <1>1, <1>2
<1>. QED BY <1>1, <1>3 DEF DeathReported

(* The view of plugins nothing happens to.                                  *)
LEMMA SilentKeepsNews ==
  ASSUME NewsAgrees, UNCHANGED <<feed, mirror, lost>>, \A p \in Plugins : Steady(p)
  PROVE  NewsAgrees'
<1> SUFFICES ASSUME ~lost, NEW p \in Plugins
             PROVE  /\ \A i \in 1..Len(feed) : LastOf(p, i) => Agrees(p, feed[i].tools)'
                    /\ (\A i \in 1..Len(feed) : feed[i].plugin # p) => Agrees(p, mirror[p])'
  BY DEF NewsAgrees, LastOf
<1>1. Steady(p)
  OBVIOUS
<1>2. \A tools : Agrees(p, tools) => Agrees(p, tools)'
  BY <1>1 DEF Steady, Agrees
<1>3. /\ \A i \in 1..Len(feed) : LastOf(p, i) => Agrees(p, feed[i].tools)
      /\ (\A i \in 1..Len(feed) : feed[i].plugin # p) => Agrees(p, mirror[p])
  BY DEF NewsAgrees
<1>. QED BY <1>2, <1>3 DEF Agrees

(* A notice that agrees with the registry.                                  *)
LEMMA NoticeKeepsNews ==
  ASSUME TypeOK, NewsAgrees, mirror' = mirror, NEW e \in Notice, Emit(e),
         \A p \in Plugins : p # e.plugin => Steady(p),
         Agrees(e.plugin, e.tools)'
  PROVE  NewsAgrees'
<1> SUFFICES ASSUME ~lost', NEW p \in Plugins
             PROVE  /\ \A i \in 1..Len(feed') : LastOf(p, i)' => Agrees(p, feed[i].tools)'
                    /\ (\A i \in 1..Len(feed') : feed'[i].plugin # p) => Agrees(p, mirror[p])'
  BY DEF NewsAgrees
<1>1. feed' = Append(feed, e) /\ ~lost
  BY DEF Emit
<1>2. /\ feed \in Seq(Notice) /\ Len(feed) \in Nat /\ Len(feed') = Len(feed) + 1
      /\ feed'[Len(feed) + 1] = e /\ \A i \in 1..Len(feed) : feed'[i] = feed[i]
  BY <1>1 DEF TypeOK
<1>3. CASE p = e.plugin
  <2>1. \A i \in 1..Len(feed') : LastOf(p, i)' => i = Len(feed) + 1
    BY <1>2, <1>3 DEF LastOf
  <2>2. ~ \A i \in 1..Len(feed') : feed'[i].plugin # p
    BY <1>2, <1>3
  <2>4. ASSUME NEW i \in 1..Len(feed'), LastOf(p, i)' PROVE Agrees(p, feed[i].tools)'
    <3>1. feed'[i] = e
      BY <1>2, <2>1, <2>4
    <3>. QED BY <1>3, <3>1 DEF Agrees
  <2>. QED BY <2>2, <2>4
<1>4. CASE p # e.plugin
  <2>1. \A tools : Agrees(p, tools) => Agrees(p, tools)'
    BY <1>4 DEF Steady, Agrees
  <2>2. ASSUME NEW i \in 1..Len(feed'), LastOf(p, i)' PROVE Agrees(p, feed[i].tools)'
    <3>1. i \in 1..Len(feed)
      BY <1>2, <1>4, <2>2 DEF LastOf
    <3>2. LastOf(p, i)
      BY <1>2, <2>2, <3>1 DEF LastOf
    <3>3. Agrees(p, feed[i].tools)
      BY <1>1, <3>1, <3>2 DEF NewsAgrees
    <3>4. feed'[i] = feed[i]
      BY <1>2, <3>1
    <3>. QED BY <2>1, <3>3, <3>4 DEF Agrees
  <2>3. ASSUME \A i \in 1..Len(feed') : feed'[i].plugin # p PROVE Agrees(p, mirror[p])'
    <3>1. \A i \in 1..Len(feed) : feed[i].plugin # p
      BY <1>2, <2>3
    <3>2. Agrees(p, mirror[p])
      BY <1>1, <3>1 DEF NewsAgrees
    <3>. QED BY <2>1, <3>2 DEF Agrees
  <2>. QED BY <2>2, <2>3
<1>. QED BY <1>3, <1>4

(* The router reads a notice: it was the last of its plugin, or a later one *)
(* is on its way.                                                           *)
LEMMA ReadKeepsNews ==
  ASSUME TypeOK, NewsAgrees, RouterReads
  PROVE  NewsAgrees'
<1> SUFFICES ASSUME ~lost', NEW p \in Plugins
             PROVE  /\ \A i \in 1..Len(feed') : LastOf(p, i)' => Agrees(p, feed[i].tools)'
                    /\ (\A i \in 1..Len(feed') : feed'[i].plugin # p) => Agrees(p, mirror[p])'
  BY DEF NewsAgrees
<1>1. /\ feed \in Seq(Notice) /\ feed # <<>> /\ feed' = Tail(feed)
      /\ mirror' = [mirror EXCEPT ![feed[1].plugin] = feed[1].tools] /\ ~lost
      /\ UNCHANGED <<plugins, registry, cmds, proc>>
  <2>1. feed \in Seq(Notice) /\ feed # <<>>
    BY DEF RouterReads, TypeOK
  <2>2. Head(feed) = feed[1]
    BY <2>1
  <2>. QED BY <2>1, <2>2, Zenon DEF RouterReads
<1>2. /\ Len(feed) \in Nat /\ Len(feed) >= 1 /\ Len(feed') = Len(feed) - 1
      /\ \A i \in 1..Len(feed') : feed'[i] = feed[i + 1]
      /\ feed[1] \in Notice
  BY <1>1
<1>3. Owned(p)' = Owned(p) /\ (Replaced(p)' <=> Replaced(p))
  <2>1. Owned(p)' = Owned(p)
    BY <1>1 DEF Owned
  <2>2. Replaced(p)' <=> Replaced(p)
    BY <1>1, Zenon DEF Replaced
  <2>. QED BY <2>1, <2>2
<1>4. \A tools : Agrees(p, tools) <=> tools \subseteq Owned(p)' /\ (Owned(p)' \subseteq tools \/ Replaced(p)')
  BY <1>3 DEF Agrees
<1>5. ASSUME NEW i \in 1..Len(feed'), LastOf(p, i)' PROVE Agrees(p, feed[i].tools)'
  <2>1. i + 1 \in 1..Len(feed)
    BY <1>2
  <2>2. LastOf(p, i + 1)
    <3>1. feed[i + 1].plugin = p
      BY <1>2, <1>5 DEF LastOf
    <3>2. ASSUME NEW j \in 1..Len(feed), j > i + 1 PROVE feed[j].plugin # p
      <4>1. j - 1 \in 1..Len(feed') /\ j - 1 > i
        BY <1>2, <3>2
      <4>2. feed'[j - 1] = feed[j]
        BY <1>2, <4>1
      <4>. QED BY <1>5, <4>1, <4>2 DEF LastOf
    <3>. QED BY <3>1, <3>2 DEF LastOf
  <2>3. Agrees(p, feed[i + 1].tools)
    BY <1>1, <2>1, <2>2 DEF NewsAgrees
  <2>4. feed'[i] = feed[i + 1]
    BY <1>2
  <2>. QED BY <1>4, <2>3, <2>4 DEF Agrees
<1>6. ASSUME \A i \in 1..Len(feed') : feed'[i].plugin # p PROVE Agrees(p, mirror[p])'
  <2>1. ASSUME NEW j \in 1..Len(feed), j # 1 PROVE feed[j].plugin # p
    <3>1. j - 1 \in 1..Len(feed') /\ (j - 1) + 1 = j
      BY <1>2, <2>1
    <3>. QED BY <1>2, <1>6, <3>1
  <2>2. CASE feed[1].plugin = p
    <3>1. 1 \in 1..Len(feed) /\ LastOf(p, 1)
      BY <1>2, <2>1, <2>2 DEF LastOf
    <3>2. Agrees(p, feed[1].tools)
      BY <1>1, <3>1 DEF NewsAgrees
    <3>3. mirror'[p] = feed[1].tools
      BY <1>1, <2>2 DEF TypeOK
    <3>. QED BY <1>4, <3>2, <3>3 DEF Agrees
  <2>3. CASE feed[1].plugin # p
    <3>1. \A j \in 1..Len(feed) : feed[j].plugin # p
      BY <1>2, <2>1, <2>3
    <3>2. Agrees(p, mirror[p])
      BY <1>1, <3>1 DEF NewsAgrees
    <3>3. mirror'[p] = mirror[p]
      BY <1>1, <2>3 DEF TypeOK
    <3>. QED BY <1>4, <3>2, <3>3 DEF Agrees
  <2>. QED BY <2>2, <2>3
<1>. QED BY <1>5, <1>6

\* A process that runs goes on running for its plugin, or its end is reported.
NoDeathUnreported ==
  \A n \in Procs : proc[n].state \in {"up", "mute"} =>
    \/ proc'[n].plugin = proc[n].plugin /\ proc'[n].state \in {"up", "mute"}
    \/ \E p \in Plugins : p = proc[n].plugin /\ DeathReported(p)'

(* Steps that change neither entries nor names nor what the router reads.   *)
LEMMA AsideKeepsNews ==
  ASSUME IInv, IInv', NewsInv, UNCHANGED <<plugins, registry, feed, mirror, lost>>,
         \A p \in Plugins : DeathReported(p) => DeathReported(p)',
         NoDeathUnreported, HandshakeIsNew'
  PROVE  NewsInv'
<1>1. TypeOK /\ RegistryIsBacked /\ EntryReported /\ NewsAgrees
  BY DEF IInv, NewsInv
<1>2. cmds \in Seq(Command) /\ cmds' \in Seq(Command)
  BY DEF IInv, TypeOK
<1>3. \A p \in Plugins : plugins[p] # 0 => plugins[p] \in Procs
  BY <1>1, PluginAssumption DEF TypeOK, Procs
<1>4. EntryReported'
  <2> SUFFICES ASSUME NEW p \in Plugins, plugins[p] # 0
               PROVE  proc'[plugins[p]].state \in {"up", "mute"} \/ DeathReported(p)'
    BY DEF EntryReported
  <2>1. proc[plugins[p]].plugin = p /\ plugins[p] \in Procs
    BY <1>1, <1>3 DEF RegistryIsBacked
  <2>. QED BY <1>1, <2>1 DEF EntryReported, NoDeathUnreported
<1>5. ASSUME NEW p \in Plugins PROVE Steady(p)
  <2>1. Owned(p)' = Owned(p)
    BY DEF Owned
  <2>2. ASSUME OtherRuns(p) PROVE OtherRuns(p)' \/ DeathReported(p)'
    <3>1. PICK n \in Procs : proc[n].plugin = p /\ proc[n].state \in {"up", "mute"} /\ plugins[p] # n
      BY <2>2 DEF OtherRuns
    <3>. QED BY <3>1 DEF NoDeathUnreported, OtherRuns
  <2>. QED BY <1>2, <2>1, <2>2, ReplacedParts, ReplacedPartsNext DEF Steady
<1>6. NewsAgrees'
  BY <1>1, <1>5, SilentKeepsNews
<1>. QED BY <1>4, <1>6 DEF NewsInv

LEMMA StartStepsKeepNews ==
  ASSUME IInv, IInv', NewsInv,
         BootNext \/ AttachFails \/ Initialized \/ HandshakeFails
  PROVE  NewsInv'
<1>1. UNCHANGED <<plugins, registry, feed, mirror, lost, cmds, proc>>
  BY DEF BootNext, AttachFails, Initialized, HandshakeFails
<1>2. sv'.n \in {0, sv.n}
  BY DEF BootNext, AttachFails, Initialized, HandshakeFails, StartOf, IdleSv
<1>3. HandshakeIsNew'
  BY <1>1, <1>2 DEF NewsInv, HandshakeIsNew
<1>4. NoDeathUnreported /\ \A p \in Plugins : DeathReported(p) => DeathReported(p)'
  BY <1>1 DEF NoDeathUnreported, DeathReported
<1>. QED BY <1>1, <1>3, <1>4, AsideKeepsNews

LEMMA AttachKeepsNews ==
  ASSUME IInv, IInv', NewsInv, Attach
  PROVE  NewsInv'
<1>1. PICK n \in Procs :
        /\ FreeSlot(n)
        /\ proc' = [proc EXCEPT ![n] = [plugin |-> sv.p, state |-> "up"]]
        /\ sv' = [at |-> "hello", p |-> sv.p, n |-> n]
  BY DEF Attach
<1>2. UNCHANGED <<plugins, registry, feed, mirror, lost, cmds>>
  BY DEF Attach
<1>3. HandshakeIsNew'
  BY <1>1, <1>2 DEF HandshakeIsNew, FreeSlot, ClientHeld
<1>4. NoDeathUnreported
  BY <1>1 DEF NoDeathUnreported, FreeSlot, IInv, TypeOK
<1>5. \A p \in Plugins : DeathReported(p) => DeathReported(p)'
  BY <1>2 DEF DeathReported
<1>. QED BY <1>2, <1>3, <1>4, <1>5, AsideKeepsNews

LEMMA CallStepsKeepNews ==
  ASSUME IInv, IInv', NewsInv, NEW c \in Calls,
         Dispatch(c) \/ Reply(c) \/ \E t \in Tools : Ask(c, t)
  PROVE  NewsInv'
<1>1. UNCHANGED <<plugins, registry, feed, mirror, lost, cmds, proc, sv>>
  BY DEF Dispatch, Reply, Ask
<1>2. HandshakeIsNew' /\ NoDeathUnreported /\ \A p \in Plugins : DeathReported(p) => DeathReported(p)'
  BY <1>1 DEF NoDeathUnreported, DeathReported, NewsInv, HandshakeIsNew
<1>. QED BY <1>1, <1>2, AsideKeepsNews

LEMMA SentKeepsNews ==
  ASSUME IInv, IInv', NewsInv, NEW p \in Plugins,
         LateReport(p) \/ \E kind \in Commands : SendCommand(kind, p)
  PROVE  NewsInv'
<1>1. UNCHANGED <<plugins, registry, feed, mirror, lost, proc, sv>>
  BY DEF LateReport, SendCommand
<1>2. PICK m \in Command : cmds' = Append(cmds, m)
  <2>1. [kind |-> "died", p |-> p, success |-> FALSE] \in Command
    BY DEF Command
  <2>2. \A kind \in Commands : [kind |-> kind, p |-> p, success |-> FALSE] \in Command
    BY PluginAssumption DEF Command
  <2>. QED BY <2>1, <2>2 DEF LateReport, SendCommand
<1>3. \A q \in Plugins : DeathReported(q) => DeathReported(q)'
  BY <1>2, SentStays DEF IInv, TypeOK
<1>4. HandshakeIsNew' /\ NoDeathUnreported
  BY <1>1 DEF NoDeathUnreported, NewsInv, HandshakeIsNew
<1>. QED BY <1>1, <1>3, <1>4, AsideKeepsNews

LEMMA EndsKeepsNews ==
  ASSUME IInv, IInv', NewsInv, NEW n \in Procs, NEW success \in BOOLEAN, Ends(n, success),
         proc[n].state \in {"up", "mute"}
  PROVE  NewsInv'
<1> DEFINE m == [kind |-> "died", p |-> proc[n].plugin,
                 success |-> success /\ ~configs[proc[n].plugin].socket]
<1>1. UNCHANGED <<plugins, registry, feed, mirror, lost, sv>>
  BY DEF Ends
<1>2. m \in Command /\ m.kind = "died" /\ m.p = proc[n].plugin
  BY DEF IInv, ProcsKnown, Command
<1>3. cmds' = Append(cmds, m)
  BY DEF Ends
<1> HIDE DEF m
<1>4. PICK p \in Plugins : p = proc[n].plugin
  BY DEF IInv, ProcsKnown
<1>4a. \A q \in Plugins : DeathReported(q) => DeathReported(q)'
  BY <1>2, <1>3, SentStays DEF IInv, TypeOK
<1>4b. DeathReported(p)'
  BY <1>2, <1>3, <1>4, SentStays DEF IInv, TypeOK
<1>5. NoDeathUnreported
  <2>1. \A k \in Procs : k # n => proc'[k] = proc[k]
    BY DEF Ends, IInv, TypeOK
  <2>. QED BY <1>4, <1>4b, <2>1 DEF NoDeathUnreported
<1>6. HandshakeIsNew'
  BY <1>1 DEF NewsInv, HandshakeIsNew
<1>. QED BY <1>1, <1>4a, <1>5, <1>6, AsideKeepsNews

LEMMA ProcessStepsKeepNews ==
  ASSUME IInv, IInv', NewsInv, NEW n \in Procs, Crash(n) \/ Hang(n) \/ ExitsOnEof(n)
  PROVE  NewsInv'
<1>1. CASE Crash(n)
  BY <1>1, EndsKeepsNews DEF Crash
<1>2. CASE ExitsOnEof(n)
  BY <1>2, EndsKeepsNews DEF ExitsOnEof
<1>3. CASE Hang(n)
  <2>1. UNCHANGED <<plugins, registry, feed, mirror, lost, cmds, sv>>
    BY <1>3 DEF Hang
  <2>2. NoDeathUnreported
    <3>1. \A k \in Procs : proc'[k].plugin = proc[k].plugin /\ (k # n => proc'[k] = proc[k])
      BY <1>3 DEF Hang, IInv, TypeOK, Process
    <3>2. proc'[n].state = "mute"
      BY <1>3 DEF Hang, IInv, TypeOK, Process
    <3>. QED BY <3>1, <3>2 DEF NoDeathUnreported
  <2>3. HandshakeIsNew' /\ \A p \in Plugins : DeathReported(p) => DeathReported(p)'
    BY <2>1 DEF DeathReported, NewsInv, HandshakeIsNew
  <2>. QED BY <2>1, <2>2, <2>3, AsideKeepsNews
<1>. QED BY <1>1, <1>2, <1>3

(* The entry goes with its names, and the router is told, unless there was  *)
(* neither.                                                                 *)
LEMMA TakeDownKeepsNews ==
  ASSUME IInv, IInv', NewsInv, NEW p \in Plugins, TakeDown(p),
         cmds # <<>>, Head(cmds).p = p, cmds' = Tail(cmds),
         UNCHANGED <<proc, mirror>>, sv'.n = 0
  PROVE  NewsInv'
<1>1. TypeOK /\ RegistryIsBacked /\ EntryReported /\ NewsAgrees
  BY DEF IInv, NewsInv
<1>2. cmds \in Seq(Command) /\ cmds' \in Seq(Command)
  BY DEF IInv, TypeOK
<1>3. \A q \in Plugins : plugins'[q] = IF q = p THEN 0 ELSE plugins[q]
  BY <1>1, TakeDownClears
<1>4. /\ Owned(p)' = {}
      /\ \A q \in Plugins : q # p => Owned(q)' = Owned(q)
  <2>1. registry' = [t \in Tools |-> IF registry[t] = p THEN None ELSE registry[t]]
    BY DEF TakeDown, Without
  <2>. QED BY <2>1, PluginAssumption DEF Owned
<1>5. \A q \in Plugins : q # p /\ DeathReported(q) => DeathReported(q)'
  BY <1>2, UnreadStays
<1>6. EntryReported'
  BY <1>1, <1>3, <1>5 DEF EntryReported
<1>7. HandshakeIsNew'
  BY DEF HandshakeIsNew
<1>8. ASSUME NEW q \in Plugins, q # p PROVE Steady(q)
  <2>1. OtherRuns(q) => OtherRuns(q)'
    BY <1>3, <1>8 DEF OtherRuns
  <2>2. DeathReported(q) => DeathReported(q)'
    BY <1>5, <1>8
  <2>. QED BY <1>2, <1>4, <1>8, <2>1, <2>2, ReplacedParts, ReplacedPartsNext DEF Steady
<1>9. CASE plugins[p] # 0
  <2> DEFINE e == [plugin |-> p, tools |-> {}]
  <2>1. e \in Notice /\ e.plugin = p /\ e.tools = {}
    BY DEF Notice
  <2>2. Emit(e)
    BY <1>9 DEF TakeDown, PluginDown
  <2>3. Agrees(p, {})'
    BY <1>4 DEF Agrees
  <2> HIDE DEF e
  <2>4. Agrees(e.plugin, e.tools)'
    BY <2>1, <2>3
  <2>5. NewsAgrees'
    BY <1>1, <1>8, <2>1, <2>2, <2>4, NoticeKeepsNews
  <2>. QED BY <1>6, <1>7, <2>5 DEF NewsInv
<1>10. CASE plugins[p] = 0
  <2>1. UNCHANGED <<feed, lost>>
    BY <1>10 DEF TakeDown, Quiet
  <2>2. Owned(p) = {}
    BY <1>1, <1>10 DEF RegistryIsBacked
  <2>3. Steady(p)
    BY <1>4, <2>2 DEF Steady
  <2>4. NewsAgrees'
    BY <1>1, <1>8, <2>1, <2>3, SilentKeepsNews
  <2>. QED BY <1>6, <1>7, <2>4 DEF NewsInv
<1>. QED BY <1>9, <1>10

LEMMA TakeCommandKeepsNews ==
  ASSUME IInv, IInv', NewsInv, TakeCommand
  PROVE  NewsInv'
<1>1. Head(cmds) \in Command /\ cmds \in Seq(Command) /\ cmds # <<>>
  BY DEF IInv, TypeOK, TakeCommand
<1>2. PICK m \in Command : m = Head(cmds)
  BY <1>1
<1>3. /\ m.p \in Plugins /\ HandleCommand(m) /\ cmds' = Tail(cmds)
      /\ UNCHANGED <<proc, mirror>>
  BY <1>2 DEF TakeCommand, Command
<1>4. CASE m.kind = "spawn"
  <2>1. SpawnPlugin(m.p)
    BY <1>3, <1>4 DEF HandleCommand
  <2>2. sv'.n = 0 /\ UNCHANGED <<plugins, registry, feed, lost>>
    BY <2>1 DEF SpawnPlugin, StartOf, Quiet
  <2>3. \A q \in Plugins : DeathReported(q) => DeathReported(q)'
    BY <1>1, <1>2, <1>3, <1>4, UnreadStays
  <2>4. NoDeathUnreported /\ HandshakeIsNew'
    BY <1>3, <2>2 DEF NoDeathUnreported, HandshakeIsNew
  <2>. QED BY <1>3, <2>2, <2>3, <2>4, AsideKeepsNews
<1>5. CASE m.kind # "spawn"
  <2>1. TakeDown(m.p) /\ sv' \in {IdleSv, StartOf(m.p)}
    <3>1. CASE m.kind = "died"
      BY <1>3, <3>1 DEF HandleCommand, HandleDied
    <3>2. CASE m.kind = "kill"
      BY <1>3, <3>2 DEF HandleCommand, KillPlugin
    <3>3. CASE m.kind = "reload"
      BY <1>3, <3>3 DEF HandleCommand, HotReload
    <3>. QED BY <1>5, <3>1, <3>2, <3>3 DEF Command
  <2>2. sv'.n = 0
    BY <2>1 DEF IdleSv, StartOf
  <2>. QED BY <1>1, <1>2, <1>3, <2>1, <2>2, TakeDownKeepsNews
<1>. QED BY <1>4, <1>5

(* A plugin that comes up is announced with the names it has; if an older   *)
(* entry had more, its process is still there or its end is reported.       *)
LEMMA ToolsListedKeepsNews ==
  ASSUME IInv, IInv', NewsInv, ToolsListed
  PROVE  NewsInv'
<1>1. TypeOK /\ RegistryIsBacked /\ EntryReported /\ HandshakeIsNew /\ NewsAgrees
  BY DEF IInv, NewsInv
<1>2. cmds \in Seq(Command) /\ cmds' \in Seq(Command)
  BY DEF IInv, TypeOK
<1>3. PICK p \in Plugins, n \in Procs : p = sv.p /\ n = sv.n
  BY DEF IInv, StartInv, ToolsListed
<1>4. /\ n # 0 /\ proc[n].plugin = p /\ proc[n].state = "up"
      /\ UNCHANGED <<proc, cmds, mirror>> /\ sv'.n = 0
      /\ plugins' = [plugins EXCEPT ![p] = n]
  BY <1>3, PluginAssumption DEF IInv, StartInv, ToolsListed, Procs, IdleSv
<1>5. \A q \in Plugins : plugins'[q] = IF q = p THEN n ELSE plugins[q]
  BY <1>1, <1>4 DEF TypeOK
<1>6. PICK up \in SUBSET Tools :
        /\ registry' = [t \in Tools |-> IF t \in up THEN p ELSE registry[t]]
        /\ Emit([plugin |-> p, tools |-> up])
        /\ \A t \in up : registry[t] \in {None, p}
  <2>1. PICK offered \in Offers[p] :
          /\ registry' = [t \in Tools |-> IF t \in Claimable(p, offered) THEN p ELSE registry[t]]
          /\ PluginUp(p, Claimable(p, offered))
    BY <1>3 DEF ToolsListed
  <2>2. Claimable(p, offered) \in SUBSET Tools
    BY <1>3, <2>1, PluginAssumption DEF Claimable
  <2>. QED BY <2>1, <2>2 DEF Claimable, PluginUp
<1>7. /\ Owned(p)' = Owned(p) \cup up
      /\ \A q \in Plugins : q # p => Owned(q)' = Owned(q)
  BY <1>6, PluginAssumption DEF Owned
<1>8. plugins[p] # n
  BY <1>1, <1>3, <1>4 DEF HandshakeIsNew
<1>9. EntryReported'
  <2>1. \A q : DeathReported(q)' <=> DeathReported(q)
    BY <1>4 DEF DeathReported
  <2>. QED BY <1>1, <1>4, <1>5, <2>1 DEF EntryReported
<1>10. HandshakeIsNew'
  BY <1>4 DEF HandshakeIsNew
<1>11. ASSUME NEW q \in Plugins, q # p PROVE Steady(q)
  <2>1. Replaced(q)' <=> Replaced(q)
    BY <1>4, <1>5, <1>11 DEF Replaced
  <2>. QED BY <1>7, <1>11, <2>1 DEF Steady
<1>12. Agrees(p, up)'
  <2>1. CASE plugins[p] = 0
    <3>1. Owned(p) = {}
      BY <1>1, <2>1 DEF RegistryIsBacked
    <3>. QED BY <1>7, <3>1 DEF Agrees
  <2>2. CASE plugins[p] # 0
    <3>1. plugins[p] \in Procs /\ proc[plugins[p]].plugin = p
      BY <1>1, <2>2, PluginAssumption DEF RegistryIsBacked, TypeOK, Procs
    <3>2. proc[plugins[p]].state \in {"up", "mute"} \/ DeathReported(p)
      BY <1>1, <2>2 DEF EntryReported
    <3>3. OtherRuns(p)' \/ DeathReported(p)'
      <4>1. CASE proc[plugins[p]].state \in {"up", "mute"}
        BY <1>4, <1>5, <1>8, <3>1, <4>1 DEF OtherRuns
      <4>2. CASE DeathReported(p)
        BY <1>4, <4>2 DEF DeathReported
      <4>. QED BY <3>2, <4>1, <4>2
    <3>4. Replaced(p)'
      BY <1>2, <3>3, ReplacedPartsNext
    <3>. QED BY <1>7, <3>4 DEF Agrees
  <2>. QED BY <2>1, <2>2
<1>13. NewsAgrees'
  <2> DEFINE e == [plugin |-> p, tools |-> up]
  <2>1. e \in Notice /\ e.plugin = p /\ e.tools = up
    BY DEF Notice
  <2>2. Emit(e)
    BY <1>6
  <2> HIDE DEF e
  <2>3. Agrees(e.plugin, e.tools)'
    BY <1>12, <2>1
  <2>. QED BY <1>1, <1>4, <1>11, <2>1, <2>2, <2>3, NoticeKeepsNews
<1>. QED BY <1>9, <1>10, <1>13 DEF NewsInv

-----------------------------------------------------------------------------
LEMMA NewsInit == Init => NewsInv
<1> SUFFICES ASSUME Init PROVE NewsInv
  OBVIOUS
<1>1. EntryReported /\ HandshakeIsNew
  BY DEF Init, EntryReported, HandshakeIsNew, IdleSv
<1>2. \A p \in Plugins : Owned(p) = {} /\ mirror[p] = {}
  BY PluginAssumption DEF Init, Owned
<1>3. feed = <<>>
  BY DEF Init
<1>4. NewsAgrees
  BY <1>2, <1>3 DEF NewsAgrees, Agrees
<1>. QED BY <1>1, <1>4 DEF NewsInv

LEMMA NewsStep == IInv /\ IInv' /\ NewsInv /\ [Next]_vars => NewsInv'
<1> SUFFICES ASSUME IInv, IInv', NewsInv, [Next]_vars PROVE NewsInv'
  OBVIOUS
<1>1. CASE UNCHANGED vars
  <2>1. UNCHANGED <<plugins, registry, feed, mirror, lost, cmds, proc, sv>>
    BY <1>1 DEF vars
  <2>2. HandshakeIsNew' /\ NoDeathUnreported
    BY <2>1 DEF NoDeathUnreported, NewsInv, HandshakeIsNew
  <2>3. \A p \in Plugins : DeathReported(p) => DeathReported(p)'
    BY <2>1 DEF DeathReported
  <2>. QED BY <2>1, <2>2, <2>3, AsideKeepsNews
<1>2. CASE BootNext \/ Attach \/ AttachFails \/ Initialized \/ ToolsListed \/ HandshakeFails
  BY <1>2, StartStepsKeepNews, AttachKeepsNews, ToolsListedKeepsNews
<1>3. CASE TakeCommand
  BY <1>3, TakeCommandKeepsNews
<1>4. CASE Lag \/ RouterReads
  <2>1. UNCHANGED <<plugins, registry, cmds, proc, sv>>
    BY <1>4 DEF Lag, RouterReads
  <2>2. EntryReported'
    BY <2>1 DEF NewsInv, EntryReported, DeathReported
  <2>3. HandshakeIsNew'
    BY <2>1 DEF NewsInv, HandshakeIsNew
  <2>4. CASE Lag
    BY <2>2, <2>3, <2>4 DEF NewsInv, NewsAgrees, Lag
  <2>5. CASE RouterReads
    BY <2>2, <2>3, <2>5, ReadKeepsNews DEF NewsInv, IInv
  <2>. QED BY <1>4, <2>4, <2>5
<1>5. CASE \E p \in Plugins : LateReport(p) \/ \E kind \in Commands : SendCommand(kind, p)
  BY <1>5, SentKeepsNews
<1>6. CASE \E c \in Calls : Dispatch(c) \/ Reply(c) \/ \E t \in Tools : Ask(c, t)
  BY <1>6, CallStepsKeepNews
<1>7. CASE \E n \in Procs : Crash(n) \/ Hang(n) \/ ExitsOnEof(n)
  BY <1>7, ProcessStepsKeepNews
<1>. QED BY <1>1, <1>2, <1>3, <1>4, <1>5, <1>6, <1>7 DEF Next

(* The last notice of every plugin on its way to the router agrees with the *)
(* registry, and the end of every process that had an entry is reported.    *)
THEOREM NewsInvariant == Spec => []NewsInv
BY PluginInvariant, NewsInit, NewsStep, PTL DEF Spec

(* Once the router has read all PluginUp and PluginDown events, and none    *)
(* was dropped, every tool it offers to the model can be dispatched, and    *)
(* every name of the registry is offered but those an older process of the  *)
(* plugin leaves behind until its end is handled.                           *)
THEOREM RouterAlwaysAgrees == Spec => []RouterAgrees
<1>1. ASSUME NewsInv PROVE RouterAgrees
  <2> SUFFICES ASSUME feed = <<>>, ~lost, NEW p \in Plugins PROVE Agrees(p, mirror[p])
    BY DEF RouterAgrees, Agrees
  <2>1. \A i \in 1..Len(feed) : feed[i].plugin # p
    OBVIOUS
  <2>. QED BY <1>1, <2>1 DEF NewsInv, NewsAgrees
<1>2. NewsInv => RouterAgrees
  BY <1>1
<1>. QED BY <1>2, NewsInvariant, PTL
=============================================================================
