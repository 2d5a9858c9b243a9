---------------------------- MODULE Supervisor ----------------------------
(***************************************************************************)
(* The main loop (src/src/main.rs): it reads the settings piece by piece,  *)
(* starts the indicator server, the streamer, the aggregators and, when    *)
(* trading is enabled and its connections succeed, the trader; then it     *)
(* waits for an interrupt or for a change of the configuration, and on a   *)
(* change aborts what it started and begins again.  The configuration      *)
(* service of ConfigService runs beside it and may change the settings     *)
(* between any two of these reads.                                         *)
(*                                                                         *)
(* A failed database connection is replaced by a lazy one and a failed     *)
(* prefill of the buffer is only logged (main.rs:81-97, 107-109): neither  *)
(* changes what is started, so neither outcome is kept.                    *)
(***************************************************************************)
EXTENDS ConfigService

CONSTANTS
  MaxRestarts,  \* bound: restarts of the services
  MaxOverlap    \* bound: passes an aborted task may live on into

ASSUME MaxRestartsAssumption == MaxRestarts \in Nat /\ MaxOverlap \in Nat

VARIABLES
  pc,         \* where the loop stands
  gen,        \* what this pass of the loop has read of the settings
  tasks,      \* the live tasks of the core services
  handles,    \* the tasks whose JoinHandle the loop holds
  aborted,    \* the live tasks that were aborted
  port,       \* the task that listens on the indicator server's port, if any
  env,        \* APCA_API_KEY_ID and its secret
  signal,     \* Ctrl-C has reached the listener of this select
  restarts    \* passes of the loop begun after the first

loopVars ==
  <<pc, gen, tasks, handles, aborted, port, env, signal, restarts>>

vars == <<configVars, loopVars>>

Blank ==
  [database |-> Absent, symbols |-> Absent, trades |-> Absent, bars |-> Absent,
   feed |-> Absent, trading |-> Absent]

ReadSteps ==
  {"database", "buffer", "env", "trades", "bars", "feed", "trading"}

Steps == ReadSteps \union
  {"broker", "client", "select", "sleep", "stopping", "exited"}

Running == pc \notin {"stopping", "exited"}

Kinds == {"indicator", "streamer", "aggregator", "trader"}

Task(kind, names) == [kind |-> kind, run |-> restarts, names |-> names]

\* Mutated form of Spawn: the handles are forgotten.
SpawnDetached(started) ==
  /\ tasks' = tasks \union started
  /\ UNCHANGED handles

\* tokio::spawn, the handle pushed on the loop's vector.
Spawn(started) ==
  /\ tasks' = tasks \union started
  /\ handles' = handles \union started

\* The feed a trading section names; anything unknown means IEX.
FeedOf(trading) ==
  IF trading # Absent /\ trading.feed \in {"test", "sip"}
    THEN trading.feed
    ELSE "iex"

Enabled(trading) == trading # Absent /\ trading.enabled

\* A depot, and an alpaca account with its key, have a client to create.
HasBroker(trading) ==
  \/ trading.broker = "depot"
  \/ trading.broker = "alpaca" /\ trading.key # Absent

----------------------------------------------------------------------------
(* One pass of the loop, from the settings to the tasks.                   *)

ReadDatabase ==
  /\ pc = "database"
  /\ gen' = [gen EXCEPT !.database = settings.database]
  /\ pc' = "buffer"
  /\ UNCHANGED <<configVars, tasks, handles, aborted, port, env, signal,
                 restarts>>

ReadSymbols ==
  /\ pc = "buffer"
  /\ gen' = [gen EXCEPT !.symbols = settings.symbols]
  /\ Spawn({Task("indicator", {})})
  /\ pc' = "env"
  /\ UNCHANGED <<configVars, aborted, port, env, signal, restarts>>

\* A section without a key leaves the variables as an earlier pass set them.
ReadEnv ==
  /\ pc = "env"
  /\ env' = IF settings.trading # Absent /\ settings.trading.key # Absent
              THEN settings.trading.key
              ELSE env
  /\ pc' = "trades"
  /\ UNCHANGED <<configVars, gen, tasks, handles, aborted, port, signal,
                 restarts>>

ReadTrades ==
  /\ pc = "trades"
  /\ gen' = [gen EXCEPT !.trades = TradeSymbols(settings.symbols)]
  /\ pc' = "bars"
  /\ UNCHANGED <<configVars, tasks, handles, aborted, port, env, signal,
                 restarts>>

ReadBars ==
  /\ pc = "bars"
  /\ gen' = [gen EXCEPT !.bars = BarSymbols(settings.symbols)]
  /\ pc' = "feed"
  /\ UNCHANGED <<configVars, tasks, handles, aborted, port, env, signal,
                 restarts>>

\* The streamer runs on a blocking thread and its handle is dropped; the
\* aggregators, one for each symbol, are kept as one task.
ReadFeed ==
  /\ pc = "feed"
  /\ gen' = [gen EXCEPT !.feed = FeedOf(settings.trading)]
  /\ LET streamer    == Task("streamer", gen.trades \union gen.bars)
         aggregators == Task("aggregator", NamesOf(gen.symbols))
     IN  /\ tasks' = tasks \union {streamer, aggregators}
         /\ handles' = handles \union {aggregators}
  /\ pc' = "trading"
  /\ UNCHANGED <<configVars, aborted, port, env, signal, restarts>>

\* Mutated form of ReadTrading: the loop subscribes to the channel anew when it
\* has read the settings, and what was announced meanwhile is not received.
ReadTradingSubscribes ==
  /\ pc = "trading"
  /\ gen' = [gen EXCEPT !.trading = settings.trading]
  /\ pc' = IF Enabled(settings.trading) THEN "broker" ELSE "select"
  /\ unread' = 0
  /\ lagged' = FALSE
  /\ UNCHANGED <<settings, disk, edition, call, loaded, applied, sent,
                 tasks, handles, aborted, port, env, signal, restarts>>

ReadTrading ==
  /\ pc = "trading"
  /\ gen' = [gen EXCEPT !.trading = settings.trading]
  /\ pc' = IF Enabled(settings.trading) THEN "broker" ELSE "select"
  /\ UNCHANGED <<configVars, tasks, handles, aborted, port, env, signal,
                 restarts>>

\* Connecting to a depot may fail; an alpaca client connects to nothing yet.
CreateBroker ==
  /\ pc = "broker"
  /\ \/ HasBroker(gen.trading) /\ pc' = "client"
     \/ (gen.trading.broker = "depot" \/ ~HasBroker(gen.trading)) /\ pc' = "select"
  /\ UNCHANGED <<configVars, gen, tasks, handles, aborted, port, env, signal,
                 restarts>>

\* Whoever listens on the port is taken for the server of this pass.
ConnectIndicator ==
  /\ pc = "client"
  /\ IF port # {}
       THEN Spawn({Task("trader", NamesOf(gen.symbols))})
       ELSE UNCHANGED <<tasks, handles>>
  /\ pc' = "select"
  /\ UNCHANGED <<configVars, gen, aborted, port, env, signal, restarts>>

----------------------------------------------------------------------------
(* Waiting, restarting and stopping.                                       *)

\* Mutated form of AbortTasks: the handles are dropped, which detaches the
\* tasks and does not abort them.
DropHandles ==
  /\ UNCHANGED aborted
  /\ handles' = {}

\* The handles are aborted; that does nothing to a task that has ended.
AbortTasks ==
  /\ aborted' = aborted \union (handles \intersect tasks)
  /\ handles' = {}

\* Mutated form of OnReload: the pattern is `Ok(()) = reload_rx.recv()`, so a
\* Lagged error disables the branch and only Ctrl-C is left.
OnReloadUnlessLagged ==
  /\ pc = "select"
  /\ restarts < MaxRestarts
  /\ ~lagged
  /\ Receive
  /\ AbortTasks
  /\ signal' = FALSE
  /\ pc' = "sleep"
  /\ UNCHANGED <<settings, disk, edition, call, loaded, applied,
                 gen, tasks, port, env, restarts>>

\* Mutated form of OnReload: the message is seen and stays in the channel.
OnReloadPeek ==
  /\ pc = "select"
  /\ restarts < MaxRestarts
  /\ unread > 0
  /\ AbortTasks
  /\ signal' = FALSE
  /\ pc' = "sleep"
  /\ UNCHANGED <<configVars, gen, tasks, port, env, restarts>>

\* `_ = reload_rx.recv()` takes a message and a Lagged error alike; the other
\* branch of the select, and a signal it may hold, is dropped.
OnReload ==
  /\ pc = "select"
  /\ restarts < MaxRestarts
  /\ Receive
  /\ AbortTasks
  /\ signal' = FALSE
  /\ pc' = "sleep"
  /\ UNCHANGED <<settings, disk, edition, call, loaded, applied,
                 gen, tasks, port, env, restarts>>

\* An aborted task stops at its next await, whatever the loop does meanwhile.
TaskStops(t) ==
  /\ t \in aborted
  /\ tasks' = tasks \ {t}
  /\ aborted' = aborted \ {t}
  /\ port' = port \ {t}
  /\ UNCHANGED <<configVars, pc, gen, handles, env, signal, restarts>>

\* After 100 ms the next pass begins; nobody waits for the aborted tasks, which
\* may outlive MaxOverlap restarts.
Restart ==
  /\ pc = "sleep"
  /\ \A t \in aborted : restarts - t.run < MaxOverlap
  /\ pc' = "database"
  /\ gen' = Blank
  /\ restarts' = restarts + 1
  /\ UNCHANGED <<configVars, tasks, handles, aborted, port, env, signal>>

\* Ctrl-C while the select listens.
Interrupt ==
  /\ pc = "select"
  /\ signal' = TRUE
  /\ UNCHANGED <<configVars, pc, gen, tasks, handles, aborted, port, env,
                 restarts>>

\* Ctrl-C before the first select: nobody handles the signal yet.  Between
\* later selects a handler is installed and nobody listens: nothing happens.
Killed ==
  /\ restarts = 0
  /\ pc \in ReadSteps \union {"broker", "client"}
  /\ pc' = "exited"
  /\ tasks' = {}
  /\ handles' = {}
  /\ aborted' = {}
  /\ port' = {}
  /\ UNCHANGED <<configVars, gen, env, signal, restarts>>

\* The handles are aborted and main returns; dropping the runtime drops every
\* task that is not on a blocking thread.
Shutdown ==
  /\ pc = "select"
  /\ signal
  /\ pc' = "stopping"
  /\ tasks' = {t \in tasks : t.kind = "streamer"}
  /\ handles' = {}
  /\ aborted' = {}
  /\ port' = {}
  /\ UNCHANGED <<configVars, gen, env, signal, restarts>>

\* The runtime waits for its blocking threads.
Exit ==
  /\ pc = "stopping"
  /\ tasks = {}
  /\ pc' = "exited"
  /\ UNCHANGED <<configVars, gen, tasks, handles, aborted, port, env, signal,
                 restarts>>

----------------------------------------------------------------------------
(* The tasks.                                                              *)

IndicatorBinds(t) ==
  /\ t \in tasks
  /\ t.kind = "indicator"
  /\ port = {}
  /\ port' = {t}
  /\ UNCHANGED <<configVars, pc, gen, tasks, handles, aborted, env, signal,
                 restarts>>

\* The port is taken, by the server of an earlier pass or by another program:
\* the task logs the error and ends.
IndicatorFails(t) ==
  /\ t \in tasks \ port
  /\ t.kind = "indicator"
  /\ tasks' = tasks \ {t}
  /\ aborted' = aborted \ {t}
  /\ UNCHANGED <<configVars, pc, gen, handles, port, env, signal, restarts>>

\* The connection closes or was refused; nobody connects again.
StreamerEnds(t) ==
  /\ t \in tasks
  /\ t.kind = "streamer"
  /\ tasks' = tasks \ {t}
  /\ UNCHANGED <<configVars, pc, gen, handles, aborted, port, env, signal,
                 restarts>>

----------------------------------------------------------------------------
Init ==
  /\ ConfigInit
  /\ pc = "database"
  /\ gen = Blank
  /\ tasks = {}
  /\ handles = {}
  /\ aborted = {}
  /\ port = {}
  /\ env = Absent
  /\ signal = FALSE
  /\ restarts = 0

StartStep ==
  \/ ReadDatabase
  \/ ReadSymbols
  \/ ReadEnv
  \/ ReadTrades
  \/ ReadBars
  \/ ReadFeed
  \/ ReadTrading
  \/ CreateBroker
  \/ ConnectIndicator

Service ==
  /\ Running
  /\ \/ \E c \in Clients : Handle(c)
     \/ EditDisk
  /\ UNCHANGED loopVars

\* A step of the loop or of its tasks.
LoopStep ==
  \/ StartStep
  \/ OnReload
  \/ \E t \in tasks :
       \/ TaskStops(t)
       \/ IndicatorBinds(t)
       \/ IndicatorFails(t)
       \/ StreamerEnds(t)
  \/ Restart
  \/ Interrupt
  \/ Killed
  \/ Shutdown
  \/ Exit

Next == Service \/ LoopStep

Spec == Init /\ [][Next]_vars

\* The loop's own steps end: they read memory, or wait for connections that
\* succeed or time out.  A task that was aborted stops, a request whose
\* configuration is loaded is carried through.  Nothing makes a connection of
\* the streamer close, a client call or a user interrupt.
Fairness ==
  /\ WF_vars(StartStep)
  /\ WF_vars(OnReload)
  /\ WF_vars(Shutdown)
  /\ WF_vars(Exit)
  /\ WF_vars(Restart)
  /\ WF_vars(\E t \in tasks : TaskStops(t))
  /\ \A c \in Clients :
       WF_vars(Running /\ (ReloadWrite(c) \/ ReloadSend(c)) /\ UNCHANGED loopVars)

FairSpec == Spec /\ Fairness

----------------------------------------------------------------------------
(* What the loop promises.                                                 *)

TaskType == [kind : Kinds, run : Nat, names : SUBSET Names]

ControlOK ==
  /\ call \in [Clients -> CallStates]
  /\ edition \in Nat
  /\ unread \in 0..Capacity
  /\ lagged \in BOOLEAN
  /\ sent \in Nat
  /\ pc \in Steps
  /\ DOMAIN gen = DOMAIN Blank
  /\ \A t \in handles \union aborted : t.kind # "streamer"
  /\ \A t \in tasks : t \in handles \union aborted \/ t.kind = "streamer"
  /\ aborted \subseteq tasks
  /\ port \subseteq {t \in tasks : t.kind = "indicator"}
  /\ signal \in BOOLEAN
  /\ restarts \in Nat

\* Type invariant: every variable stays in its range, the channel within its
\* capacity, and only streamers live on without a handle and without having
\* been aborted (main.rs:169-178).
TypeOK ==
  /\ ControlOK
  /\ tasks \union handles \subseteq TaskType
  /\ settings \in SettingsType
  /\ disk \in DiskFiles \union {Absent}
  /\ applied \in 0..edition
  /\ \A c \in Clients :
       call[c] = "loaded" => loaded[c] \in [file : DiskFiles, edition : 0..edition]

\* Once the loop waits and no change is on its way to it, nothing it started
\* from is out of date: it reads the settings at seven places between which
\* they may change (main.rs:73, 100, 122, 139, 146, 155, 181), and every change
\* is announced after it is written (config_reloader.rs:46-47, 83, 117, 151).
NoStaleConfiguration ==
  pc = "select" /\ ~Announced =>
    /\ gen.database = settings.database
    /\ gen.symbols = settings.symbols
    /\ gen.trades = TradeSymbols(settings.symbols)
    /\ gen.bars = BarSymbols(settings.symbols)
    /\ gen.feed = FeedOf(settings.trading)
    /\ gen.trading = settings.trading
    /\ settings.trading # Absent /\ settings.trading.key # Absent =>
         env = settings.trading.key

\* Tasks of an earlier pass, streamers apart, that still run beside this one.
Overlap == \E t \in tasks : t.kind # "streamer" /\ t.run < restarts

\* Two passes may overlap, two traders trade and two servers want one port,
\* since nobody waits for an aborted task (main.rs:420-425); but not for good:
\* every task of an earlier pass was aborted, whichever way the loop went
\* through its steps, and is gone in the end.
OverlapEnds == Overlap ~> ~Overlap

\* Once the loop waits and no change is on its way, what runs and was not
\* aborted is what the settings ask for: aggregators and trader work on their
\* symbols, no trader runs when trading is disabled or removed
\* (main.rs:181-187, 373-394), and the streamer of this pass subscribes to
\* their symbols.
TasksFollowSettings ==
  pc = "select" /\ ~Announced =>
    \A t \in tasks \ aborted :
      /\ t.kind \in {"aggregator", "trader"} =>
           t.names = NamesOf(settings.symbols)
      /\ t.kind = "trader" => Enabled(settings.trading)
      /\ t.kind = "streamer" /\ t.run = restarts =>
           t.names = TradeSymbols(settings.symbols) \union
                       BarSymbols(settings.symbols)

\* Every restart is caused by a change of its own, even when the channel
\* overflows and reports it: restarts never outnumber the messages sent.
NoSpuriousRestart ==
  restarts + unread + (IF lagged THEN 1 ELSE 0)
                    + (IF pc = "sleep" THEN 1 ELSE 0) <= sent

\* A change that is written is in effect in the end: the loop comes back to
\* waiting with nothing unannounced, or is stopped.
ReloadTakesEffect ==
  Announced ~> (pc = "select" /\ ~Announced) \/ ~Running

\* The configuration as a whole: what is asked for, and what this pass read.
Wanted ==
  [database |-> settings.database, symbols |-> settings.symbols,
   trades |-> TradeSymbols(settings.symbols),
   bars |-> BarSymbols(settings.symbols),
   feed |-> FeedOf(settings.trading), trading |-> settings.trading]

Taken ==
  [database |-> gen.database, symbols |-> gen.symbols, trades |-> gen.trades,
   bars |-> gen.bars, feed |-> gen.feed, trading |-> gen.trading]

Phase ==
  IF ~Running THEN "stopped"
  ELSE IF pc = "select" /\ ~Announced THEN "settled" ELSE "changing"

Promise ==
  INSTANCE Propagation WITH wanted <- Wanted, active <- Taken, phase <- Phase

\* The configuration service and the loop together implement Propagation: a
\* change of the settings by any handler disturbs the services at that same
\* step (config_reloader.rs:46-47, 83, 117, 151), the seven reads of a pass
\* settle on one whole configuration, and it is the one that is wanted then
\* (main.rs:73-188, 410-425).
ImplementsPropagation == Promise!Spec

\* "Reload configuration from disk and update the shared state"
\* (config_reloader.rs:39): a reload never replaces newer files by older ones.
ReloadsDoNotGoBack == [][applied' >= applied]_vars

\* A symbol that was "removed successfully. Restarting services..."
\* (config_reloader.rs:156) is not streamed after the restart.
RemovedSymbolNotStreamed ==
  pc = "select" /\ ~Announced =>
    \A t \in tasks :
      t.kind = "streamer" =>
        t.names \subseteq TradeSymbols(settings.symbols) \union
                             BarSymbols(settings.symbols)

\* "Shutting down gracefully..." (main.rs:412): the process then ends.
ShutdownCompletes == pc = "stopping" ~> pc = "exited"

============================================================================
