-------------------------- MODULE PluginSupervisor --------------------------
(***************************************************************************)
(* The life of MCP plugins: the supervisor starts a process (or connects   *)
(* to a socket), shakes hands with it inside its command loop, enters its  *)
(* tools into the registry and announces them; a watcher task reports the  *)
(* end of every process; a report names the plugin, not the process.  The  *)
(* client of a plugin is shared: as long as the supervisor or a call in    *)
(* flight holds it, the process keeps its stdin.  The router builds its    *)
(* list of tools from the broadcast, which may lose events.                *)
(***************************************************************************)
EXTENDS Naturals, Sequences, FiniteSets

CONSTANTS Plugins,      \* plugin ids
          Tools,        \* tool names
          Offers,       \* Offers[p]: what processes of p may answer to tools/list
          Policy,       \* Policy[p]: the restart policy in plugins.toml
          Unix,         \* plugins reached through a socket; the others are children
          Calls,        \* tool calls, of turns and of the daemon's own tasks
          None,         \* no plugin
          Commands,     \* the commands that are sent while the daemon runs
          MaxProcs,     \* processes at a time (a slot is used again)
          MaxCommands,  \* commands sent
          MaxFaults,    \* crashes, hangs and failed starts
          FeedCap       \* capacity of the broadcast

ASSUME PluginAssumption ==
  /\ None \notin Plugins
  /\ Offers \in [Plugins -> SUBSET SUBSET Tools]
  /\ Policy \in [Plugins -> {"always", "on_failure", "never"}]
  /\ Unix \subseteq Plugins
  /\ Commands \subseteq {"spawn", "kill", "reload"}
  /\ {MaxProcs, MaxCommands, MaxFaults} \subseteq Nat /\ FeedCap \in Nat \ {0}

VARIABLES
  configs,   \* configs[p]: restart policy ("none": not configured) and transport
  plugins,   \* plugins[p]: the process whose client p's entry holds, 0 without one
  registry,  \* registry[t]: the plugin that owns the name t, or None
  sv,        \* what the supervisor is doing, for which plugin, with which process
  toBoot,    \* configured plugins run() has not started yet
  cmds,      \* the supervisor's command channel
  late,      \* plugins whose failed connect will be reported
  proc,      \* the processes (connections, for a socket)
  call,      \* the calls: where each is, its tool, the process it was sent to
  feed,      \* PluginUp and PluginDown on their way to the router
  mirror,    \* tool_reg: the tools the router offers to the model
  lost,      \* the router has lost an event
  unstarted, \* plugins whose last start failed with no child to report it
  budget     \* commands and faults so far

vars == <<configs, plugins, registry, sv, toBoot, cmds, late, proc, call, feed, mirror,
          lost, unstarted, budget>>

Procs == 1..MaxProcs

\* The process of a slot: whose it is, and whether it answers, hangs or has ended.
FreeProc == [plugin |-> None, state |-> "free"]

IdleSv == [at |-> "idle", p |-> None, n |-> 0]

Init ==
  /\ configs = [p \in Plugins |-> [restart |-> Policy[p], socket |-> p \in Unix]]
  /\ plugins = [p \in Plugins |-> 0]
  /\ registry = [t \in Tools |-> None]
  /\ sv = IdleSv /\ toBoot = Plugins
  /\ cmds = <<>> /\ late = {}
  /\ proc = [n \in Procs |-> FreeProc]
  /\ call = [c \in Calls |-> [at |-> "new", tool |-> None, n |-> 0]]
  /\ feed = <<>> /\ mirror = [p \in Plugins |-> {}] /\ lost = FALSE
  /\ unstarted = {}
  /\ budget = [commands |-> 0, faults |-> 0]

-----------------------------------------------------------------------------
(* The broadcast: a full ring drops its oldest event, which the reader      *)
(* learns of as Lagged and ignores.                                         *)
Emit(event) ==
  IF Len(feed) < FeedCap
    THEN feed' = Append(feed, event) /\ lost' = lost
    ELSE feed' = Append(Tail(feed), event) /\ lost' = TRUE

PluginUp(p, tools) == Emit([plugin |-> p, tools |-> tools])

PluginDown(p) == Emit([plugin |-> p, tools |-> {}])

Quiet == UNCHANGED <<feed, lost>>

\* Other traffic fills the ring before the router reads.
Lag ==
  /\ feed # <<>>
  /\ feed' = Tail(feed) /\ lost' = TRUE
  /\ UNCHANGED <<configs, plugins, registry, sv, toBoot, cmds, late, proc, call, mirror,
                 unstarted, budget>>

RouterReads ==
  /\ feed # <<>>
  /\ mirror' = [mirror EXCEPT ![Head(feed).plugin] = Head(feed).tools]
  /\ feed' = Tail(feed)
  /\ UNCHANGED <<configs, plugins, registry, sv, toBoot, cmds, late, proc, call, lost,
                 unstarted, budget>>

-----------------------------------------------------------------------------
(* Starting a plugin.                                                       *)

\* The supervisor goes to sleep, or straight on, to start p.
StartOf(p) == [at |-> "start", p |-> p, n |-> 0]

ClientHeld(n) ==
  \/ \E p \in Plugins : plugins[p] = n
  \/ sv.n = n
  \/ \E c \in Calls : call[c].at = "sent" /\ call[c].n = n

FreeSlot(n) == proc[n].state \in {"free", "dead"} /\ ~ClientHeld(n)

BootNext ==
  /\ sv = IdleSv
  /\ \E p \in toBoot : sv' = StartOf(p) /\ toBoot' = toBoot \ {p}
  /\ UNCHANGED <<configs, plugins, registry, cmds, late, proc, call, feed, mirror, lost,
                 unstarted, budget>>

\* The child is spawned, or the socket accepts, and the handshake begins.
Attach ==
  /\ sv.at = "start"
  /\ \E n \in Procs :
       /\ FreeSlot(n) /\ \A m \in 1..(n - 1) : ~FreeSlot(m)
       /\ proc' = [proc EXCEPT ![n] = [plugin |-> sv.p, state |-> "up"]]
       /\ sv' = [at |-> "hello", p |-> sv.p, n |-> n]
  /\ UNCHANGED <<configs, plugins, registry, toBoot, cmds, late, call, feed, mirror, lost,
                 unstarted, budget>>

\* It cannot be.  Only the socket's failure is reported, after a second.  (A plugin
\* configured for a socket without its path fails unreported: a fixed error in the
\* configuration, left out.)
AttachFails ==
  /\ sv.at = "start" /\ budget.faults < MaxFaults
  /\ late' = IF configs[sv.p].socket THEN late \cup {sv.p} ELSE late
  /\ unstarted' = IF configs[sv.p].socket THEN unstarted ELSE unstarted \cup {sv.p}
  /\ sv' = IdleSv
  /\ budget' = [commands |-> budget.commands, faults |-> budget.faults + 1]
  /\ UNCHANGED <<configs, plugins, registry, toBoot, cmds, proc, call, feed, mirror, lost>>

LateReport(p) ==
  /\ p \in late
  /\ late' = late \ {p}
  /\ cmds' = Append(cmds, [kind |-> "died", p |-> p, success |-> FALSE])
  /\ UNCHANGED <<configs, plugins, registry, sv, toBoot, proc, call, feed, mirror, lost,
                 unstarted, budget>>

Initialized ==
  /\ sv.at = "hello" /\ proc[sv.n].state = "up"
  /\ sv' = [at |-> "list", p |-> sv.p, n |-> sv.n]
  /\ UNCHANGED <<configs, plugins, registry, toBoot, cmds, late, proc, call, feed, mirror,
                 lost, unstarted, budget>>

\* claim_tool_name: a name belongs to the first plugin that claims it, until that
\* plugin is down.  The SDK's documents say that the last plugin to come up takes it.
Claimable(p, offered) == {t \in offered : registry[t] \in {None, p}}

\* Mutant of ToolsListed: every tool the plugin offers is announced, the names
\* that another plugin owns too.
ToolsListedAnnouncesAll ==
  /\ sv.at = "list" /\ proc[sv.n].state = "up"
  /\ \E offered \in Offers[sv.p] :
       /\ registry' = [t \in Tools |-> IF t \in Claimable(sv.p, offered) THEN sv.p
                                       ELSE registry[t]]
       /\ PluginUp(sv.p, offered)
  /\ plugins' = [plugins EXCEPT ![sv.p] = sv.n]
  /\ unstarted' = unstarted \ {sv.p}
  /\ sv' = IdleSv
  /\ UNCHANGED <<configs, toBoot, cmds, late, proc, call, mirror, budget>>

\* The tools are listed: names are claimed, the plugin is announced, and its
\* entry takes the new client (the client of an older process is dropped).
ToolsListed ==
  /\ sv.at = "list" /\ proc[sv.n].state = "up"
  /\ \E offered \in Offers[sv.p] :
       /\ registry' = [t \in Tools |-> IF t \in Claimable(sv.p, offered) THEN sv.p
                                       ELSE registry[t]]
       /\ PluginUp(sv.p, Claimable(sv.p, offered))
  /\ plugins' = [plugins EXCEPT ![sv.p] = sv.n]
  /\ unstarted' = unstarted \ {sv.p}
  /\ sv' = IdleSv
  /\ UNCHANGED <<configs, toBoot, cmds, late, proc, call, mirror, budget>>

\* A request of the handshake fails: its wait runs out, or (the second one) it
\* finds the writer gone.  Nobody wakes the waiter of a process that has ended.
\* Or the process, alive, answers with an error or with what is no list of tools.
HandshakeFails ==
  /\ sv.at \in {"hello", "list"}
  /\ \/ proc[sv.n].state # "up" /\ UNCHANGED budget
     \/ /\ proc[sv.n].state = "up" /\ budget.faults < MaxFaults
        /\ budget' = [commands |-> budget.commands, faults |-> budget.faults + 1]
  /\ sv' = IdleSv
  /\ UNCHANGED <<configs, plugins, registry, toBoot, cmds, late, proc, call, feed, mirror,
                 lost, unstarted>>

-----------------------------------------------------------------------------
(* The command channel, read between handlers.                              *)

Ready == sv = IdleSv /\ toBoot = {}

\* Mutant of Without: the names of a plugin that is gone stay in the registry.
WithoutNothing(p) == registry

Without(p) == [t \in Tools |-> IF registry[t] = p THEN None ELSE registry[t]]

\* The entry of p is dropped and, if there was one, p is announced as down.
TakeDown(p) ==
  /\ registry' = Without(p)
  /\ plugins' = [plugins EXCEPT ![p] = 0]
  /\ IF plugins[p] # 0 THEN PluginDown(p) ELSE Quiet

ShouldRestart(policy, success) ==
  \/ policy = "always"
  \/ policy = "on_failure" /\ ~success

\* Mutant of HandleDied: the report of a plugin that is not live is ignored.
HandleDiedOfLiveOnly(p, success) ==
  /\ TakeDown(p)
  /\ sv' = IF plugins[p] # 0 /\ ShouldRestart(configs[p].restart, success)
             THEN StartOf(p) ELSE IdleSv
  /\ UNCHANGED configs

\* handle_died: whatever entry the plugin has now goes, and the policy decides.
HandleDied(p, success) ==
  /\ TakeDown(p)
  /\ sv' = IF ShouldRestart(configs[p].restart, success) THEN StartOf(p) ELSE IdleSv
  /\ UNCHANGED configs

\* Registering a server replaces the configuration (a child process, always
\* restarted), whether the plugin is running or not.
SpawnPlugin(p) ==
  /\ configs' = [configs EXCEPT ![p] = [restart |-> "always", socket |-> FALSE]]
  /\ sv' = StartOf(p)
  /\ Quiet /\ UNCHANGED <<plugins, registry>>

KillPlugin(p) ==
  /\ configs' = [configs EXCEPT ![p].restart = "none"]
  /\ TakeDown(p)
  /\ sv' = IdleSv

\* The others restart when their process is reported; these have to be started.
HotReload(p) ==
  /\ TakeDown(p)
  /\ sv' = IF configs[p].restart \in {"on_failure", "never"} THEN StartOf(p) ELSE IdleSv
  /\ UNCHANGED configs

HandleCommand(m) ==
  CASE m.kind = "died" -> HandleDied(m.p, m.success)
    [] m.kind = "spawn" -> SpawnPlugin(m.p)
    [] m.kind = "kill" -> KillPlugin(m.p)
    [] m.kind = "reload" -> HotReload(m.p)

TakeCommand ==
  /\ Ready /\ cmds # <<>>
  /\ cmds' = Tail(cmds)
  /\ HandleCommand(Head(cmds))
  /\ UNCHANGED <<toBoot, late, proc, call, mirror, unstarted, budget>>

\* The evolution applier registers or removes a server.  A reload has a handler
\* and no sender in the repository; here it may come at any time.
SendCommand(kind, p) ==
  /\ budget.commands < MaxCommands
  /\ cmds' = Append(cmds, [kind |-> kind, p |-> p, success |-> FALSE])
  /\ budget' = [commands |-> budget.commands + 1, faults |-> budget.faults]
  /\ UNCHANGED <<configs, plugins, registry, sv, toBoot, late, proc, call, feed, mirror,
                 lost, unstarted>>

-----------------------------------------------------------------------------
(* Calls.                                                                   *)

Ask(c, t) ==
  /\ call[c].at = "new"
  /\ call' = [call EXCEPT ![c] = [at |-> "asked", tool |-> t, n |-> 0]]
  /\ UNCHANGED <<configs, plugins, registry, sv, toBoot, cmds, late, proc, feed, mirror,
                 lost, unstarted, budget>>

\* dispatch_tool and DirectCall: a task of its own makes the call through the
\* owner's client; without an owner, or once the writer to an ended process is
\* gone, the caller is told so at once.
Dispatch(c) ==
  /\ Ready /\ call[c].at = "asked"
  /\ LET owner == registry[call[c].tool]
         n == IF owner = None THEN 0 ELSE plugins[owner]
     IN \/ /\ n # 0
           /\ call' = [call EXCEPT ![c] = [at |-> "sent", tool |-> @.tool, n |-> n]]
        \/ /\ n # 0 => proc[n].state = "dead"
           /\ call' = [call EXCEPT ![c] = [at |-> "told", tool |-> @.tool, n |-> 0]]
  /\ UNCHANGED <<configs, plugins, registry, sv, toBoot, cmds, late, proc, feed, mirror,
                 lost, unstarted, budget>>

\* Mutant of Reply: a request waits for its answer without a bound.
ReplyWithoutTimeout(c) ==
  /\ call[c].at = "sent" /\ proc[call[c].n].state = "up"
  /\ call' = [call EXCEPT ![c] = [at |-> "told", tool |-> @.tool, n |-> 0]]
  /\ UNCHANGED <<configs, plugins, registry, sv, toBoot, cmds, late, proc, feed, mirror,
                 lost, unstarted, budget>>

\* The process answers, or the request times out: because the process hangs or
\* works past the window, or because it has ended.  Either way the client is let go.
\* The request's own timeout begins when its line is in the writer's channel; a call
\* that waits for room there, behind a server that does not read, is ended by the
\* timeout of its caller (call_with_timeout, the turn's wait), the same step here;
\* that its task keeps the client until the process ends is left out.
Reply(c) ==
  /\ call[c].at = "sent"
  /\ call' = [call EXCEPT ![c] = [at |-> "told", tool |-> @.tool, n |-> 0]]
  /\ UNCHANGED <<configs, plugins, registry, sv, toBoot, cmds, late, proc, feed, mirror,
                 lost, unstarted, budget>>

-----------------------------------------------------------------------------
(* Processes.                                                               *)

\* The process ends; its watcher reports it (a socket's reader: as a failure, which
\* matters for on_failure only, and a plugin registered again is not that).
Ends(n, success) ==
  /\ proc' = [proc EXCEPT ![n] = [plugin |-> @.plugin, state |-> "dead"]]
  /\ cmds' = Append(cmds, [kind |-> "died", p |-> proc[n].plugin,
                           success |-> success /\ ~configs[proc[n].plugin].socket])
  /\ UNCHANGED <<configs, plugins, registry, sv, toBoot, late, call, feed, mirror, lost,
                 unstarted>>

Crash(n) ==
  /\ proc[n].state \in {"up", "mute"} /\ budget.faults < MaxFaults
  /\ \E success \in BOOLEAN : Ends(n, success)
  /\ budget' = [commands |-> budget.commands, faults |-> budget.faults + 1]

Hang(n) ==
  /\ proc[n].state = "up" /\ budget.faults < MaxFaults
  /\ proc' = [proc EXCEPT ![n] = [plugin |-> @.plugin, state |-> "mute"]]
  /\ budget' = [commands |-> budget.commands, faults |-> budget.faults + 1]
  /\ UNCHANGED <<configs, plugins, registry, sv, toBoot, cmds, late, call, feed, mirror,
                 lost, unstarted>>

\* The last holder of the client is gone: stdin is closed, and a server that is
\* not hung leaves.
ExitsOnEof(n) ==
  /\ proc[n].state = "up" /\ ~ClientHeld(n)
  /\ Ends(n, TRUE)
  /\ UNCHANGED budget

-----------------------------------------------------------------------------
Next ==
  \/ BootNext \/ Attach \/ AttachFails \/ Initialized \/ ToolsListed \/ HandshakeFails
  \/ TakeCommand \/ Lag \/ RouterReads
  \/ \E p \in Plugins : LateReport(p) \/ \E kind \in Commands : SendCommand(kind, p)
  \/ \E c \in Calls : Dispatch(c) \/ Reply(c) \/ \E t \in Tools : Ask(c, t)
  \/ \E n \in Procs : Crash(n) \/ Hang(n) \/ ExitsOnEof(n)

Spec == Init /\ [][Next]_vars

\* The supervisor carries its handler on; select! picks its branches at random,
\* so neither channel is passed over for ever; a request is answered or times
\* out; tasks run; a closed stdin ends a server that is not hung.
Fairness ==
  /\ WF_vars(BootNext \/ Attach \/ Initialized \/ ToolsListed \/ HandshakeFails)
  /\ SF_vars(TakeCommand)
  /\ \A c \in Calls : SF_vars(Dispatch(c)) /\ WF_vars(Reply(c))
  /\ \A p \in Plugins : WF_vars(LateReport(p))
  /\ \A n \in Procs : WF_vars(ExitsOnEof(n))

FairSpec == Spec /\ Fairness

-----------------------------------------------------------------------------
Command == [kind : {"died", "spawn", "kill", "reload"}, p : Plugins, success : BOOLEAN]

Config == [restart : {"always", "on_failure", "never", "none"}, socket : BOOLEAN]

Notice == [plugin : Plugins, tools : SUBSET Tools]

Process == [plugin : Plugins \cup {None}, state : {"free", "up", "mute", "dead"}]

Request == [at : {"new", "asked", "sent", "told"}, tool : Tools \cup {None}, n : 0..MaxProcs]

Doing == [at : {"idle", "start", "hello", "list"}, p : Plugins \cup {None}, n : 0..MaxProcs]

Spent == [commands : 0..MaxCommands, faults : 0..MaxFaults]

TypeOK ==
  /\ configs \in [Plugins -> Config]
  /\ plugins \in [Plugins -> 0..MaxProcs]
  /\ registry \in [Tools -> Plugins \cup {None}]
  /\ sv \in Doing
  /\ toBoot \subseteq Plugins /\ late \subseteq Plugins /\ unstarted \subseteq Plugins
  /\ cmds \in Seq(Command)
  /\ proc \in [Procs -> Process]
  /\ call \in [Calls -> Request]
  /\ feed \in Seq(Notice) /\ Len(feed) <= FeedCap
  /\ mirror \in [Plugins -> SUBSET Tools] /\ lost \in BOOLEAN
  /\ budget \in Spent

Owned(p) == {t \in Tools : registry[t] = p}

(* A name in the registry leads to an entry of its owner, and the entry to  *)
(* a process of that plugin, which is configured: a call is never sent to   *)
(* the process of another plugin, whatever was killed, reloaded, registered *)
(* again or restarted before.                                               *)
RegistryIsBacked ==
  \A p \in Plugins :
    /\ Owned(p) # {} => plugins[p] # 0
    /\ plugins[p] # 0 => proc[plugins[p]].plugin = p /\ configs[p].restart # "none"

\* p has a process, or the report of one, that is not the one of its entry.
Replaced(p) ==
  \/ \E n \in Procs : proc[n].plugin = p /\ proc[n].state \in {"up", "mute"} /\ plugins[p] # n
  \/ \E i \in DOMAIN cmds : cmds[i].kind = "died" /\ cmds[i].p = p

(* What the router offers to the model can be dispatched, as soon as the    *)
(* router has read all there is to read, unless the broadcast dropped an    *)
(* event; and all that can be dispatched is offered, except the names an    *)
(* older process of the plugin leaves behind until its end is reported.     *)
RouterAgrees ==
  (feed = <<>> /\ ~lost) =>
    \A p \in Plugins :
      /\ mirror[p] \subseteq Owned(p)
      /\ (Owned(p) \subseteq mirror[p]) \/ Replaced(p)

(* Every call is answered: by its process, by an error, or by the timeout   *)
(* of a request whose process hangs or has ended, however often plugins     *)
(* crash, restart or keep the supervisor waiting in a handshake.            *)
CallIsAnswered ==
  \A c \in Calls : (call[c].at = "asked") ~> (call[c].at = "told")

Hung(p) == \E n \in Procs : proc[n] = [plugin |-> p, state |-> "mute"]

(* A plugin that is to be restarted always comes back after every crash and *)
(* reload, except where the code has no report to act on: its process hangs *)
(* without ending, or the child could not even be spawned.                  *)
AlwaysComesBack ==
  \A p \in Plugins :
    []<>(plugins[p] # 0 \/ configs[p].restart # "always" \/ Hung(p) \/ p \in unstarted)

(* Registering a server again, to point it to another binary, leaves it     *)
(* running: with no process crashing, its entry is there for good in the    *)
(* end.                                                                     *)
RepointSettles ==
  \A p \in Plugins : <>[](configs[p].restart = "always" => plugins[p] # 0)
=============================================================================
