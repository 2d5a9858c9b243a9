------------------------- MODULE SupervisorProofs -------------------------
(***************************************************************************)
(* Proofs about Supervisor, for every set of clients, every contents of    *)
(* the configuration files and every capacity of the channel.              *)
(*                                                                         *)
(* NoStaleConfiguration is not inductive: it speaks of the loop when it    *)
(* waits, and every snapshot was taken at an earlier step.  ReadsFresh     *)
(* strengthens it: whatever the loop has read so far is still what the     *)
(* settings say, or a change is announced that it has yet to receive.      *)
(* TasksMatch relates every live task to the snapshots it was started      *)
(* from, and to the pass of the loop that started it.                      *)
(***************************************************************************)
EXTENDS Supervisor, FoldProofs

\* The steps at which a given read lies behind the loop.
AfterTrading  == {"broker", "client", "select"}
AfterFeed     == AfterTrading \union {"trading"}
AfterBars     == AfterFeed \union {"feed"}
AfterTrades   == AfterBars \union {"bars"}
AfterEnv      == AfterTrades \union {"trades"}
AfterSymbols  == AfterEnv \union {"env"}
AfterDatabase == AfterSymbols \union {"buffer"}

\* What was read is current, unless a change is on its way to the loop.
ReadsFresh ==
  \/ Announced
  \/ /\ pc \in AfterDatabase => gen.database = settings.database
     /\ pc \in AfterSymbols  => gen.symbols = settings.symbols
     /\ pc \in AfterTrades   => gen.trades = TradeSymbols(settings.symbols)
     /\ pc \in AfterBars     => gen.bars = BarSymbols(settings.symbols)
     /\ pc \in AfterFeed     => gen.feed = FeedOf(settings.trading)
     /\ pc \in AfterTrading  => gen.trading = settings.trading
     /\ pc \in AfterEnv =>
          (settings.trading # Absent /\ settings.trading.key # Absent =>
             env = settings.trading.key)

\* Every live task that was not aborted comes from the snapshots of the current
\* pass, except the streamers that earlier passes left behind.
TaskMatches(t) ==
  /\ t.run \in Nat
  /\ t.run <= restarts
  /\ t.kind \in Kinds
  /\ t.kind = "indicator" =>
       /\ pc \in AfterSymbols
       /\ t = Task("indicator", {})
  /\ t.kind = "aggregator" =>
       /\ pc \in AfterFeed
       /\ t = Task("aggregator", NamesOf(gen.symbols))
  /\ t.kind = "trader" =>
       /\ pc = "select"
       /\ t = Task("trader", NamesOf(gen.symbols))
       /\ Enabled(gen.trading)
  /\ t.kind = "streamer" /\ t.run = restarts =>
       /\ pc \in AfterFeed \union {"sleep", "stopping", "exited"}
       /\ t.names = gen.trades \union gen.bars

TasksMatch ==
  /\ \A t \in tasks \ aborted : TaskMatches(t)
  /\ pc \in {"broker", "client"} => Enabled(gen.trading)

----------------------------------------------------------------------------
(* The configuration service announces what it writes.                     *)

LEMMA ServiceAnnounces ==
  ASSUME ControlOK, Service
  PROVE  /\ Announced => Announced'
         /\ settings' = settings \/ Announced'
<1>1. Capacity \in Nat \ {0} /\ unread \in 0..Capacity /\ call \in [Clients -> CallStates]
  BY CapacityAssumption DEF ControlOK
<1>2. ASSUME Send PROVE unread' > 0
  BY <1>1, <1>2 DEF Send
<1>3. CASE EditDisk
  BY <1>3 DEF EditDisk, Announced
<1>4. ASSUME NEW c \in Clients, Handle(c)
      PROVE  /\ Announced => Announced'
             /\ settings' = settings \/ Announced'
  <2>1. ASSUME NEW outcome, Return(c, outcome), Idle(c), unread' = unread
        PROVE  Announced => Announced'
    BY <1>1, <2>1 DEF Return, Idle, Announced
  <2>2. ASSUME NEW new, Change(c, new) PROVE Announced'
    BY <1>2, <2>2 DEF Change, Announced
  <2>3. CASE ReloadLoad(c)
    BY <2>1, <2>3 DEF ReloadLoad
  <2>4. CASE ReloadFails(c)
    BY <2>1, <2>4 DEF ReloadFails, Refuse
  <2>5. CASE ReloadWrite(c)
    BY <1>1, <2>5 DEF ReloadWrite, Return, Announced
  <2>6. CASE ReloadSend(c)
    BY <1>2, <2>6 DEF ReloadSend, Announced
  <2>7. CASE UpdateConfig(c)
    BY <2>1, <2>2, <2>7 DEF UpdateConfig, Refuse
  <2>8. CASE AddSymbol(c)
    BY <2>1, <2>2, <2>8 DEF AddSymbol, Refuse
  <2>9. CASE RemoveSymbol(c)
    BY <2>1, <2>2, <2>9 DEF RemoveSymbol, Refuse
  <2> QED
    BY <1>4, <2>3, <2>4, <2>5, <2>6, <2>7, <2>8, <2>9 DEF Handle
<1> QED
  BY <1>3, <1>4 DEF Service
----------------------------------------------------------------------------
(* Control: the type invariant without the contents of the settings.       *)

LEMMA InitControl == Init => ControlOK
<1> SUFFICES ASSUME Init PROVE ControlOK
  OBVIOUS
<1> USE DEF Init, ConfigInit
<1>1. /\ 0 \in Nat
      /\ unread \in 0..Capacity
  BY CapacityAssumption
<1>2. call \in [Clients -> CallStates]
  BY DEF CallStates
<1>3. pc \in Steps /\ DOMAIN gen = DOMAIN Blank
  BY DEF Steps, ReadSteps
<1> QED
  BY <1>1, <1>2, <1>3 DEF ControlOK

LEMMA ServiceControl ==
  ASSUME ControlOK, Service
  PROVE  ControlOK'
<1>1. Capacity \in Nat \ {0} /\ unread \in 0..Capacity /\ sent \in Nat
      /\ call \in [Clients -> CallStates] /\ lagged \in BOOLEAN
      /\ edition \in Nat
  BY CapacityAssumption DEF ControlOK
<1>2. /\ pc' = pc /\ gen' = gen /\ tasks' = tasks /\ handles' = handles
      /\ aborted' = aborted /\ port' = port /\ signal' = signal /\ restarts' = restarts
  BY DEF Service, loopVars
<1> DEFINE Channel == unread' \in 0..Capacity /\ lagged' \in BOOLEAN /\ sent' \in Nat
<1>3. ASSUME Send PROVE Channel
  <2>1. unread' \in 0..Capacity /\ sent' \in Nat
    BY <1>1, <1>3 DEF Send
  <2>2. lagged' \in BOOLEAN
    BY <1>1, <1>3, Zenon DEF Send
  <2> QED
    BY <2>1, <2>2
<1>4. ASSUME NEW c \in Clients, Handle(c)
      PROVE  Channel /\ call' \in [Clients -> CallStates] /\ edition' = edition
  <2>1. ASSUME NEW outcome \in CallStates, Return(c, outcome)
        PROVE  call' \in [Clients -> CallStates]
    BY <1>1, <2>1 DEF Return
  <2>2. {"loaded", "written", "ok", "failed"} \subseteq CallStates
    BY DEF CallStates
  <2>3. ASSUME NEW new, Change(c, new)
        PROVE  Channel /\ call' \in [Clients -> CallStates] /\ edition' = edition
    BY <1>3, <2>1, <2>2, <2>3 DEF Change
  <2>4. ASSUME Refuse(c)
        PROVE  Channel /\ call' \in [Clients -> CallStates] /\ edition' = edition
    BY <1>1, <2>1, <2>2, <2>4 DEF Refuse
  <2>5. CASE ReloadLoad(c)
    BY <1>1, <2>1, <2>2, <2>5 DEF ReloadLoad
  <2>6. CASE ReloadFails(c)
    BY <2>4, <2>6 DEF ReloadFails
  <2>7. CASE ReloadWrite(c)
    BY <1>1, <2>1, <2>2, <2>7 DEF ReloadWrite
  <2>8. CASE ReloadSend(c)
    BY <1>3, <2>1, <2>2, <2>8 DEF ReloadSend
  <2>9. CASE UpdateConfig(c)
    BY <2>3, <2>4, <2>9 DEF UpdateConfig
  <2>10. CASE AddSymbol(c)
    BY <2>3, <2>4, <2>10 DEF AddSymbol
  <2>11. CASE RemoveSymbol(c)
    BY <2>3, <2>4, <2>11 DEF RemoveSymbol
  <2> QED
    BY <1>4, <2>5, <2>6, <2>7, <2>8, <2>9, <2>10, <2>11 DEF Handle
<1>5. CASE EditDisk
  <2>1. Channel
    BY <1>1, <1>5, Zenon DEF EditDisk
  <2>2. call' = call /\ edition' \in Nat
    BY <1>1, <1>5 DEF EditDisk
  <2> QED
    BY <1>1, <1>2, <2>1, <2>2 DEF ControlOK
<1>6. CASE \E c \in Clients : Handle(c)
  <2>1. Channel /\ call' \in [Clients -> CallStates] /\ edition' = edition
    BY <1>4, <1>6
  <2> QED
    BY <1>1, <1>2, <2>1 DEF ControlOK
<1> QED
  BY <1>5, <1>6 DEF Service

LEMMA LoopControl ==
  ASSUME ControlOK, LoopStep
  PROVE  ControlOK'
<1> USE DEF ControlOK, configVars, Steps, ReadSteps
<1>1. CASE ReadDatabase
  BY <1>1 DEF ReadDatabase
<1>2. CASE ReadSymbols
  BY <1>2 DEF ReadSymbols, Spawn, Task
<1>3. CASE ReadEnv
  BY <1>3 DEF ReadEnv
<1>4. CASE ReadTrades
  BY <1>4 DEF ReadTrades
<1>5. CASE ReadBars
  BY <1>5 DEF ReadBars
<1>6. CASE ReadFeed
  BY <1>6 DEF ReadFeed, Task
<1>7. CASE ReadTrading
  BY <1>7 DEF ReadTrading
<1>8. CASE CreateBroker
  BY <1>8 DEF CreateBroker
<1>9. CASE ConnectIndicator
  BY <1>9 DEF ConnectIndicator, Spawn, Task
<1>10. CASE OnReload
  <2>1. unread' \in 0..Capacity /\ sent' \in Nat
    BY <1>10, CapacityAssumption DEF OnReload, Receive
  <2>2. lagged' \in BOOLEAN
    BY <1>10, Zenon DEF OnReload, Receive
  <2> QED
    BY <1>10, <2>1, <2>2 DEF OnReload, AbortTasks
<1>11. ASSUME NEW t \in tasks, TaskStops(t) PROVE ControlOK'
  BY <1>11 DEF TaskStops
<1>12. ASSUME NEW t \in tasks, StreamerEnds(t) PROVE ControlOK'
  BY <1>12 DEF StreamerEnds
<1>13. CASE Restart
  BY <1>13 DEF Restart
<1>14. CASE Interrupt
  BY <1>14 DEF Interrupt
<1>15. CASE Killed
  BY <1>15 DEF Killed
<1>16. CASE Shutdown
  BY <1>16 DEF Shutdown
<1>17. CASE Exit
  BY <1>17 DEF Exit
<1>18. ASSUME NEW t \in tasks, IndicatorBinds(t) PROVE ControlOK'
  BY <1>18 DEF IndicatorBinds
<1>19. ASSUME NEW t \in tasks, IndicatorFails(t) PROVE ControlOK'
  BY <1>19 DEF IndicatorFails
<1> QED
  BY <1>1, <1>2, <1>3, <1>4, <1>5, <1>6, <1>7, <1>8, <1>9, <1>10,
     <1>11, <1>12, <1>13, <1>14, <1>15, <1>16, <1>17, <1>18, <1>19
  DEF LoopStep, StartStep

----------------------------------------------------------------------------
(* Freshness of the snapshots.                                             *)

LEMMA ServiceFresh ==
  ASSUME ControlOK, ReadsFresh, Service
  PROVE  ReadsFresh'
<1>1. pc' = pc /\ gen' = gen /\ env' = env
  BY DEF Service, loopVars
<1>2. CASE Announced'
  BY <1>2 DEF ReadsFresh
<1>3. CASE ~Announced'
  <2>1. ~Announced /\ settings' = settings
    BY <1>3, ServiceAnnounces
  <2> QED
    BY <1>1, <2>1 DEF ReadsFresh
<1> QED
  BY <1>2, <1>3

\* Only a received message takes an announcement away, and the loop then
\* leaves every step at which ReadsFresh speaks of a snapshot.
LEMMA LoopFresh ==
  ASSUME ControlOK, ReadsFresh, LoopStep
  PROVE  ReadsFresh'
<1> USE DEF ControlOK, AfterTrading, AfterFeed, AfterBars, AfterTrades,
            AfterEnv, AfterSymbols, AfterDatabase, configVars, Blank
<1>0. ASSUME UNCHANGED configVars
      PROVE  /\ Announced' = Announced
             /\ settings' = settings
  BY <1>0 DEF Announced
<1>1. CASE ReadDatabase
  BY <1>1, <1>0 DEF ReadsFresh, ReadDatabase
<1>2. CASE ReadSymbols
  BY <1>2, <1>0 DEF ReadsFresh, ReadSymbols
<1>3. CASE ReadEnv
  BY <1>3, <1>0 DEF ReadsFresh, ReadEnv
<1>4. CASE ReadTrades
  BY <1>4, <1>0 DEF ReadsFresh, ReadTrades
<1>5. CASE ReadBars
  BY <1>5, <1>0 DEF ReadsFresh, ReadBars
<1>6. CASE ReadFeed
  BY <1>6, <1>0 DEF ReadsFresh, ReadFeed
<1>7. CASE ReadTrading
  BY <1>7, <1>0 DEF ReadsFresh, ReadTrading
<1>8. CASE CreateBroker
  BY <1>8, <1>0 DEF ReadsFresh, CreateBroker
<1>9. CASE ConnectIndicator
  BY <1>9, <1>0 DEF ReadsFresh, ConnectIndicator
<1>10. CASE OnReload
  BY <1>10, <1>0 DEF ReadsFresh, OnReload
<1>11. ASSUME NEW t \in tasks, TaskStops(t) PROVE ReadsFresh'
  BY <1>11, <1>0 DEF ReadsFresh, TaskStops
<1>12. ASSUME NEW t \in tasks, StreamerEnds(t) PROVE ReadsFresh'
  BY <1>12, <1>0 DEF ReadsFresh, StreamerEnds
<1>13. CASE Restart
  BY <1>13, <1>0 DEF ReadsFresh, Restart
<1>14. CASE Interrupt
  BY <1>14, <1>0 DEF ReadsFresh, Interrupt
<1>15. CASE Killed
  BY <1>15, <1>0 DEF ReadsFresh, Killed
<1>16. CASE Shutdown
  BY <1>16, <1>0 DEF ReadsFresh, Shutdown
<1>17. CASE Exit
  BY <1>17, <1>0 DEF ReadsFresh, Exit
<1>18. ASSUME NEW t \in tasks, IndicatorBinds(t) PROVE ReadsFresh'
  BY <1>18, <1>0 DEF ReadsFresh, IndicatorBinds
<1>19. ASSUME NEW t \in tasks, IndicatorFails(t) PROVE ReadsFresh'
  BY <1>19, <1>0 DEF ReadsFresh, IndicatorFails
<1> QED
  BY <1>1, <1>2, <1>3, <1>4, <1>5, <1>6, <1>7, <1>8, <1>9, <1>10,
     <1>11, <1>12, <1>13, <1>14, <1>15, <1>16, <1>17, <1>18, <1>19
  DEF LoopStep, StartStep

----------------------------------------------------------------------------
(* The live tasks.                                                         *)

LEMMA ServiceMatches ==
  ASSUME TasksMatch, Service
  PROVE  TasksMatch'
BY DEF Service, loopVars, TasksMatch, TaskMatches, Task

LEMMA LoopMatches ==
  ASSUME ControlOK, TasksMatch, LoopStep
  PROVE  TasksMatch'
<1> USE DEF ControlOK, TasksMatch, TaskMatches, Task, AfterTrading, AfterFeed,
            AfterBars, AfterTrades, AfterEnv, AfterSymbols, Kinds, Blank
<1>1. CASE ReadDatabase
  BY <1>1 DEF ReadDatabase
<1>2. CASE ReadSymbols
  BY <1>2 DEF ReadSymbols, Spawn
<1>3. CASE ReadEnv
  BY <1>3 DEF ReadEnv
<1>4. CASE ReadTrades
  BY <1>4 DEF ReadTrades
<1>5. CASE ReadBars
  BY <1>5 DEF ReadBars
<1>6. CASE ReadFeed
  BY <1>6 DEF ReadFeed
<1>7. CASE ReadTrading
  BY <1>7 DEF ReadTrading
<1>8. CASE CreateBroker
  BY <1>8 DEF CreateBroker
<1>9. CASE ConnectIndicator
  BY <1>9 DEF ConnectIndicator, Spawn
<1>10. CASE OnReload
  BY <1>10 DEF OnReload, AbortTasks
<1>11. ASSUME NEW t \in tasks, TaskStops(t) PROVE TasksMatch'
  BY <1>11 DEF TaskStops
<1>12. ASSUME NEW t \in tasks, StreamerEnds(t) PROVE TasksMatch'
  BY <1>12 DEF StreamerEnds
<1>13. CASE Restart
  BY <1>13 DEF Restart
<1>14. CASE Interrupt
  BY <1>14 DEF Interrupt
<1>15. CASE Killed
  BY <1>15 DEF Killed, ReadSteps
<1>16. CASE Shutdown
  BY <1>16 DEF Shutdown
<1>17. CASE Exit
  BY <1>17 DEF Exit
<1>18. ASSUME NEW t \in tasks, IndicatorBinds(t) PROVE TasksMatch'
  BY <1>18 DEF IndicatorBinds
<1>19. ASSUME NEW t \in tasks, IndicatorFails(t) PROVE TasksMatch'
  BY <1>19 DEF IndicatorFails
<1> QED
  BY <1>1, <1>2, <1>3, <1>4, <1>5, <1>6, <1>7, <1>8, <1>9, <1>10,
     <1>11, <1>12, <1>13, <1>14, <1>15, <1>16, <1>17, <1>18, <1>19
  DEF LoopStep, StartStep

----------------------------------------------------------------------------
(* Messages and restarts.                                                  *)

LEMMA ServiceCounts ==
  ASSUME ControlOK, NoSpuriousRestart, Service
  PROVE  NoSpuriousRestart'
<1>1. Capacity \in Nat \ {0} /\ unread \in 0..Capacity /\ sent \in Nat
      /\ restarts \in Nat /\ lagged \in BOOLEAN
  BY CapacityAssumption DEF ControlOK
<1>2. pc' = pc /\ restarts' = restarts
  BY DEF Service, loopVars
<1>3. ASSUME Send PROVE NoSpuriousRestart'
  BY <1>1, <1>2, <1>3 DEF Send, NoSpuriousRestart
<1>4. ASSUME UNCHANGED <<unread, lagged, sent>> PROVE NoSpuriousRestart'
  BY <1>1, <1>2, <1>4 DEF NoSpuriousRestart
<1>5. ASSUME NEW c \in Clients, Handle(c)
      PROVE  Send \/ UNCHANGED <<unread, lagged, sent>>
  BY <1>5 DEF Handle, ReloadLoad, ReloadFails, ReloadWrite, ReloadSend,
              UpdateConfig, AddSymbol, RemoveSymbol, Refuse, Change
<1>6. CASE EditDisk
  BY <1>4, <1>6 DEF EditDisk
<1> QED
  BY <1>3, <1>4, <1>5, <1>6 DEF Service

LEMMA LoopCounts ==
  ASSUME ControlOK, NoSpuriousRestart, LoopStep
  PROVE  NoSpuriousRestart'
<1> USE DEF ControlOK, NoSpuriousRestart, configVars, Steps, ReadSteps
<1>1. CASE ReadDatabase
  BY <1>1 DEF ReadDatabase
<1>2. CASE ReadSymbols
  BY <1>2 DEF ReadSymbols
<1>3. CASE ReadEnv
  BY <1>3 DEF ReadEnv
<1>4. CASE ReadTrades
  BY <1>4 DEF ReadTrades
<1>5. CASE ReadBars
  BY <1>5 DEF ReadBars
<1>6. CASE ReadFeed
  BY <1>6 DEF ReadFeed
<1>7. CASE ReadTrading
  BY <1>7 DEF ReadTrading
<1>8. CASE CreateBroker
  BY <1>8 DEF CreateBroker
<1>9. CASE ConnectIndicator
  BY <1>9 DEF ConnectIndicator
<1>10. CASE OnReload
  BY <1>10 DEF OnReload, AbortTasks, Receive
<1>11. ASSUME NEW t \in tasks, TaskStops(t) PROVE NoSpuriousRestart'
  BY <1>11 DEF TaskStops
<1>12. ASSUME NEW t \in tasks, StreamerEnds(t) PROVE NoSpuriousRestart'
  BY <1>12 DEF StreamerEnds
<1>13. CASE Restart
  BY <1>13 DEF Restart
<1>14. CASE Interrupt
  BY <1>14 DEF Interrupt
<1>15. CASE Killed
  BY <1>15 DEF Killed, ReadSteps
<1>16. CASE Shutdown
  BY <1>16 DEF Shutdown
<1>17. CASE Exit
  BY <1>17 DEF Exit
<1>18. ASSUME NEW t \in tasks, IndicatorBinds(t) PROVE NoSpuriousRestart'
  BY <1>18 DEF IndicatorBinds
<1>19. ASSUME NEW t \in tasks, IndicatorFails(t) PROVE NoSpuriousRestart'
  BY <1>19 DEF IndicatorFails
<1> QED
  BY <1>1, <1>2, <1>3, <1>4, <1>5, <1>6, <1>7, <1>8, <1>9, <1>10,
     <1>11, <1>12, <1>13, <1>14, <1>15, <1>16, <1>17, <1>18, <1>19
  DEF LoopStep, StartStep

----------------------------------------------------------------------------
(* The inductive invariant and the theorems.                               *)

IInv == ControlOK /\ ReadsFresh /\ TasksMatch /\ NoSpuriousRestart

LEMMA InitInv == Init => IInv
<1> SUFFICES ASSUME Init PROVE IInv
  OBVIOUS
<1>1. ControlOK
  BY InitControl
<1>2. ReadsFresh
  BY DEF Init, ReadsFresh, AfterTrading, AfterFeed, AfterBars, AfterTrades,
         AfterEnv, AfterSymbols, AfterDatabase
<1>3. TasksMatch
  BY DEF Init, TasksMatch
<1>4. NoSpuriousRestart
  BY DEF Init, ConfigInit, NoSpuriousRestart
<1> QED
  BY <1>1, <1>2, <1>3, <1>4 DEF IInv

LEMMA NextInv == IInv /\ [Next]_vars => IInv'
<1> SUFFICES ASSUME ControlOK, ReadsFresh, TasksMatch, NoSpuriousRestart,
                    [Next]_vars
             PROVE  IInv'
  BY DEF IInv
<1>1. CASE Service
  BY <1>1, ServiceControl, ServiceFresh, ServiceMatches, ServiceCounts DEF IInv
<1>2. CASE LoopStep
  BY <1>2, LoopControl, LoopFresh, LoopMatches, LoopCounts DEF IInv
<1>3. CASE UNCHANGED vars
  BY <1>3 DEF vars, configVars, loopVars, IInv, ControlOK, ReadsFresh, Announced,
              TasksMatch, TaskMatches, Task, NoSpuriousRestart
<1> QED
  BY <1>1, <1>2, <1>3 DEF Next

LEMMA Invariance == Spec => []IInv
BY InitInv, NextInv, PTL DEF Spec

\* The control state stays in its ranges: no message beyond the capacity of the
\* channel, no task of the loop but a streamer without its handle.
THEOREM ControlCorrect == Spec => []ControlOK
<1>1. IInv => ControlOK
  BY DEF IInv
<1> QED
  BY Invariance, <1>1, PTL

\* However many clients change the settings while the loop reads them, it never
\* comes to rest on a snapshot that is out of date and unannounced.
THEOREM SnapshotsAreCurrent == Spec => []NoStaleConfiguration
<1>1. IInv => NoStaleConfiguration
  BY DEF IInv, ReadsFresh, NoStaleConfiguration, AfterTrading, AfterFeed,
         AfterBars, AfterTrades, AfterEnv, AfterSymbols, AfterDatabase
<1> QED
  BY Invariance, <1>1, PTL

\* Tasks of two passes may overlap, but only as long as one that was aborted has
\* not stopped: of the others, streamers apart, there is one of a kind at most,
\* and it belongs to the pass that the loop is in.
THEOREM OldTasksAreAborted ==
  Spec => [](\A t \in tasks \ aborted :
               t.kind # "streamer" =>
                 /\ t.run = restarts
                 /\ \A u \in tasks \ aborted : u.kind = t.kind => u = t)
<1> DEFINE OneGeneration ==
             \A t \in tasks \ aborted :
               t.kind # "streamer" =>
                 /\ t.run = restarts
                 /\ \A u \in tasks \ aborted : u.kind = t.kind => u = t
<1>1. IInv => OneGeneration
  <2> SUFFICES ASSUME TasksMatch,
                      NEW t \in tasks \ aborted, t.kind # "streamer"
               PROVE  /\ t.run = restarts
                      /\ \A u \in tasks \ aborted : u.kind = t.kind => u = t
    BY DEF IInv
  <2>1. t.kind \in {"indicator", "aggregator", "trader"}
    BY DEF TasksMatch, TaskMatches, Kinds
  <2>2. t.run = restarts
    BY <2>1 DEF TasksMatch, TaskMatches, Task
  <2>3. ASSUME NEW u \in tasks \ aborted, u.kind = t.kind PROVE u = t
    BY <2>1, <2>3 DEF TasksMatch, TaskMatches
  <2> QED
    BY <2>2, <2>3
<1> HIDE DEF OneGeneration
<1>2. Spec => []OneGeneration
  BY Invariance, <1>1, PTL
<1> QED
  BY <1>2 DEF OneGeneration

\* What runs is what the settings ask for, and nothing trades when they do not.
THEOREM TasksAreCurrent == Spec => []TasksFollowSettings
<1>1. IInv => TasksFollowSettings
  <2> SUFFICES ASSUME ReadsFresh, TasksMatch, pc = "select", ~Announced,
                      NEW t \in tasks \ aborted
               PROVE  /\ t.kind \in {"aggregator", "trader"} =>
                           t.names = NamesOf(settings.symbols)
                      /\ t.kind = "trader" => Enabled(settings.trading)
                      /\ t.kind = "streamer" /\ t.run = restarts =>
                           t.names = TradeSymbols(settings.symbols) \union
                                       BarSymbols(settings.symbols)
    BY DEF IInv, TasksFollowSettings
  <2>1. /\ gen.symbols = settings.symbols
        /\ gen.trades = TradeSymbols(settings.symbols)
        /\ gen.bars = BarSymbols(settings.symbols)
        /\ gen.trading = settings.trading
    BY DEF ReadsFresh, AfterTrading, AfterFeed, AfterBars, AfterTrades,
           AfterEnv, AfterSymbols
  <2> QED
    BY <2>1 DEF TasksMatch, TaskMatches, Task
<1> QED
  BY Invariance, <1>1, PTL

\* The services restart at most once for each message, overflows included.
THEOREM RestartsAreCaused == Spec => []NoSpuriousRestart
<1>1. IInv => NoSpuriousRestart
  BY DEF IInv
<1> QED
  BY Invariance, <1>1, PTL

----------------------------------------------------------------------------
(* The refinement: the loop and the service keep what Propagation promises.*)

\* A handler that changes the settings announces it, so the loop is changing.
LEMMA ServiceAsks ==
  ASSUME ControlOK, Service
  PROVE  Promise!Ask \/ UNCHANGED <<Wanted, Taken, Phase>>
<1>1. /\ pc' = pc /\ gen' = gen
      /\ Running
  BY DEF Service, loopVars
<1>2. Phase # "stopped" /\ Phase' # "stopped"
  BY <1>1 DEF Phase, Running
<1>3. CASE Phase' = "changing"
  BY <1>2, <1>3 DEF Promise!Ask
<1>4. CASE Phase' = "settled"
  <2>1. pc = "select" /\ ~Announced'
    BY <1>1, <1>4 DEF Phase
  <2>2. ~Announced /\ settings' = settings
    BY <2>1, ServiceAnnounces
  <2>3. Phase = "settled"
    BY <1>1, <2>1, <2>2 DEF Phase
  <2> QED
    BY <1>1, <1>4, <2>2, <2>3 DEF Wanted, Taken
<1> QED
  BY <1>2, <1>3, <1>4 DEF Phase

\* The loop settles when it comes to wait with nothing announced, and leaves
\* that state only by a message or by an interrupt.
LEMMA LoopSettles ==
  ASSUME ControlOK, ReadsFresh, ReadsFresh', LoopStep
  PROVE  Promise!Next \/ UNCHANGED <<Wanted, Taken, Phase>>
<1>1. settings' = settings /\ call' = call
  <2> USE DEF configVars
  <2>1. CASE StartStep
    BY <2>1 DEF StartStep, ReadDatabase, ReadSymbols, ReadEnv, ReadTrades,
                ReadBars, ReadFeed, ReadTrading, CreateBroker, ConnectIndicator
  <2> QED
    BY <2>1 DEF LoopStep, OnReload, TaskStops, StreamerEnds, Restart, Interrupt,
                Killed, Shutdown, Exit, IndicatorBinds, IndicatorFails
<1>2. Wanted' = Wanted
  BY <1>1 DEF Wanted
<1>3. CASE Phase' = "stopped"
  BY <1>2, <1>3 DEF Promise!Next, Promise!Stop
<1>4. Phase = "stopped" => Phase' = "stopped"
  <2> USE DEF Phase, Running
  <2>1. CASE StartStep
    BY <2>1 DEF StartStep, ReadDatabase, ReadSymbols, ReadEnv, ReadTrades,
                ReadBars, ReadFeed, ReadTrading, CreateBroker, ConnectIndicator
  <2> QED
    BY <2>1 DEF LoopStep, OnReload, TaskStops, StreamerEnds, Restart, Interrupt,
                Killed, Shutdown, Exit, IndicatorBinds, IndicatorFails
<1>5. CASE Phase # "stopped" /\ Phase' = "changing"
  BY <1>5 DEF Promise!Next, Promise!Ask
<1>6. CASE Phase = "changing" /\ Phase' = "settled"
  <2>1. Taken' = Wanted'
    <3>1. ReadsFresh' /\ pc' = "select" /\ ~Announced'
      BY <1>6 DEF Phase
    <3> QED
      BY <3>1 DEF ReadsFresh, Taken, Wanted, AfterTrading, AfterFeed, AfterBars,
                  AfterTrades, AfterEnv, AfterSymbols, AfterDatabase
  <2> QED
    BY <1>2, <1>6, <2>1 DEF Promise!Next, Promise!Settle
<1>7. CASE Phase = "settled" /\ Phase' = "settled"
  <2>1. pc = "select" /\ pc' = "select"
    BY <1>7 DEF Phase
  <2>2. gen' = gen
    <3>1. ~StartStep
      BY <2>1 DEF StartStep, ReadDatabase, ReadSymbols, ReadEnv, ReadTrades,
                  ReadBars, ReadFeed, ReadTrading, CreateBroker, ConnectIndicator
    <3> QED
      BY <2>1, <3>1 DEF LoopStep, OnReload, TaskStops, StreamerEnds, Restart,
           Interrupt, Killed, Shutdown, Exit, IndicatorBinds, IndicatorFails
  <2> QED
    BY <1>2, <1>7, <2>2 DEF Taken
<1> QED
  BY <1>3, <1>4, <1>5, <1>6, <1>7 DEF Phase

\* However the handlers and the loop interleave, together they behave like one
\* service that is settled on the wanted configuration or changing over to it.
THEOREM SupervisorImplementsPropagation == Spec => ImplementsPropagation
<1>1. Init => Promise!Init
  BY DEF Init, Promise!Init, Phase, Running
<1>2. IInv /\ IInv' /\ [Next]_vars
        => [Promise!Next]_<<Wanted, Taken, Phase>>
  <2> SUFFICES ASSUME ControlOK, ReadsFresh, ReadsFresh', [Next]_vars
               PROVE  [Promise!Next]_<<Wanted, Taken, Phase>>
    BY DEF IInv
  <2>1. CASE Service
    BY <2>1, ServiceAsks DEF Promise!Next
  <2>2. CASE LoopStep
    BY <2>2, LoopSettles
  <2>3. CASE UNCHANGED vars
    BY <2>3 DEF vars, configVars, loopVars, Wanted, Taken, Phase, Running, Announced
  <2> QED
    BY <2>1, <2>2, <2>3 DEF Next
<1> QED
  BY Invariance, <1>1, <1>2, PTL DEF Spec, ImplementsPropagation, Promise!Spec

----------------------------------------------------------------------------
(* Types: what the settings, the snapshots and the tasks may contain.      *)

\* What is retained of a list of symbols is a list of symbols.
LEMMA WithoutType ==
  ASSUME NEW symbols \in Seq(SymbolType), NEW name
  PROVE  Without(symbols, name) \in Seq(SymbolType)
<1> DEFINE P == DOMAIN symbols
           List == Seq(SymbolType)
           Retain(kept, symbol) ==
             IF symbol.name = name THEN kept ELSE Append(kept, symbol)
           pick == [set \in SUBSET P |-> Max(set)]
           step == [x \in P \X List |-> Retain(x[2], symbols[x[1]])]
           Lists(list) ==
             list = [set \in SUBSET P |->
                      IF set = {} THEN <<>>
                      ELSE Retain(list[set \ {Max(set)}], symbols[Max(set)])]
<1>1. Len(symbols) \in Nat /\ P = 1..Len(symbols) /\ IsFiniteSet(P)
  BY FS_Interval
<1>2. ASSUME NEW set \in (SUBSET P) \ {{}}
      PROVE  /\ pick[set] = Max(set) /\ Max(set) \in set /\ Max(set) \in P
             /\ set \ {Max(set)} \in SUBSET P
  BY <1>1, GreatestElement
<1>3. ASSUME NEW i \in P, NEW kept \in List
      PROVE  /\ Retain(kept, symbols[i]) \in List
             /\ step[<<i, kept>>] = Retain(kept, symbols[i])
  OBVIOUS
<1>4. Picks(P, pick)
  BY <1>2 DEF Picks
<1>5. <<>> \in List
  OBVIOUS
<1> HIDE DEF pick, step, P, List, Retain
<1>6. ASSUME NEW f, f[{}] = <<>>,
             \A set \in (SUBSET P) \ {{}} :
               f[set \ {Max(set)}] \in List =>
                 f[set] = Retain(f[set \ {Max(set)}], symbols[Max(set)])
      PROVE  \A set \in SUBSET P : f[set] \in List
  <2>1. ASSUME NEW set \in (SUBSET P) \ {{}}, f[set \ {pick[set]}] \in List
        PROVE  f[set] \in List
    <3>1. pick[set] = Max(set) /\ Max(set) \in P
      BY <1>2
    <3>2. f[set \ {Max(set)}] \in List
      BY <2>1, <3>1
    <3>3. f[set] = Retain(f[set \ {Max(set)}], symbols[Max(set)])
      BY <1>6, <3>2
    <3> QED
      BY <1>3, <3>1, <3>2, <3>3
  <2>2. f[{}] \in List
    BY <1>5, <1>6
  <2> QED
    BY <1>1, <1>4, <2>1, <2>2, FoldType
<1>7. \E f : Lists(f)
  <2>1. PICK fold : Folds(SUBSET P, fold, <<>>, step, pick)
    BY <1>1, <1>4, FoldExists
  <2>2. fold[{}] = <<>>
    BY <2>1 DEF Folds
  <2>3. ASSUME NEW set \in (SUBSET P) \ {{}}, fold[set \ {Max(set)}] \in List
        PROVE  fold[set] = Retain(fold[set \ {Max(set)}], symbols[Max(set)])
    <3>1. fold[set] = step[<<Max(set), fold[set \ {Max(set)}]>>]
      BY <1>2, <2>1 DEF Folds
    <3> QED
      BY <1>2, <1>3, <2>3, <3>1
  <2>4. \A set \in SUBSET P : fold[set] \in List
    BY <1>6, <2>2, <2>3
  <2>5. Lists(fold)
    BY <1>2, <2>1, <2>2, <2>3, <2>4 DEF Folds
  <2> QED
    BY <2>5
<1> DEFINE list == CHOOSE f : Lists(f)
<1>8. Lists(list)
  BY <1>7
<1>9. Without(symbols, name) = list[P]
  BY DEF Without, FoldLeft, MapThenFoldSet, Retain, P
<1> HIDE DEF list
<1>10. \A set \in SUBSET P : list[set] \in List
  <2>1. list[{}] = <<>>
    BY <1>8
  <2> QED
    BY <1>6, <1>8, <2>1
<1> QED
  BY <1>9, <1>10 DEF List

\* What was read has the types of the settings.
SnapshotsTyped ==
  /\ pc \in AfterSymbols => gen.symbols \in Seq(SymbolType)
  /\ pc \in AfterTrades  => gen.trades \subseteq Names
  /\ pc \in AfterBars    => gen.bars \subseteq Names

\* TypeOK without the control state.
DataOK ==
  /\ tasks \union handles \subseteq TaskType
  /\ settings \in SettingsType
  /\ disk \in DiskFiles \union {Absent}
  /\ applied \in 0..edition
  /\ \A c \in Clients :
       call[c] = "loaded" => loaded[c] \in [file : DiskFiles, edition : 0..edition]
  /\ loaded \in [Clients -> {loaded[c] : c \in Clients}]
  /\ SnapshotsTyped

LEMMA NamesTyped ==
  ASSUME NEW symbols \in Seq(SymbolType)
  PROVE  /\ NamesOf(symbols) \subseteq Names
         /\ TradeSymbols(symbols) \subseteq Names
         /\ BarSymbols(symbols) \subseteq Names
<1>1. \A i \in DOMAIN symbols : symbols[i].name \in Names
  <2> SUFFICES ASSUME NEW i \in DOMAIN symbols PROVE symbols[i].name \in Names
    OBVIOUS
  <2>1. symbols[i] \in SymbolType
    OBVIOUS
  <2> QED
    BY <2>1 DEF SymbolType
<1> QED
  BY <1>1 DEF NamesOf, TradeSymbols, BarSymbols

LEMMA RequestTyped ==
  ASSUME NEW symbol \in ProtoSymbols
  PROVE  FromProto(symbol) \in SymbolType
BY RequestsAssumption DEF FromProto, SymbolType

\* Settings stay settings.
LEMMA HandleData ==
  ASSUME ControlOK, DataOK, NEW c \in Clients, Handle(c), UNCHANGED loopVars
  PROVE  DataOK'
<1>1. /\ call \in [Clients -> CallStates] /\ edition \in Nat
      /\ settings \in SettingsType /\ settings.symbols \in Seq(SymbolType)
  BY DEF ControlOK, DataOK, SettingsType
<1>2. /\ tasks' = tasks /\ handles' = handles /\ SnapshotsTyped'
  BY DEF loopVars, DataOK, SnapshotsTyped
<1>3. ASSUME NEW outcome \in {"ok", "failed", "written"}, Return(c, outcome),
             settings' \in SettingsType, UNCHANGED <<disk, edition>>,
             loaded' = loaded \/ loaded' = [loaded EXCEPT ![c] = Absent],
             applied' \in 0..edition
      PROVE  DataOK'
  BY <1>1, <1>2, <1>3 DEF Return, DataOK
<1>4. ASSUME Refuse(c) PROVE DataOK'
  BY <1>1, <1>3, <1>4 DEF Refuse, DataOK
<1>5. ASSUME NEW new \in SettingsType, Change(c, new) PROVE DataOK'
  BY <1>3, <1>5 DEF Change, DataOK
<1>6. ASSUME NEW symbols \in Seq(SymbolType)
      PROVE  [settings EXCEPT !.symbols = symbols] \in SettingsType
  BY <1>1 DEF SettingsType
<1>7. CASE ReloadLoad(c)
  <2>1. [file |-> disk, edition |-> edition]
          \in [file : DiskFiles, edition : 0..edition]
    BY <1>1, <1>7 DEF ReloadLoad, DataOK
  <2> QED
    BY <1>1, <1>2, <1>7, <2>1 DEF ReloadLoad, Return, DataOK
<1>8. CASE ReloadFails(c)
  BY <1>4, <1>8 DEF ReloadFails
<1>9. CASE ReloadWrite(c)
  <2>1. loaded[c] \in [file : DiskFiles, edition : 0..edition]
    BY <1>9 DEF ReloadWrite, DataOK
  <2> QED
    BY <1>3, <1>9, <2>1, FilesAssumption DEF ReloadWrite
<1>10. CASE ReloadSend(c)
  BY <1>1, <1>3, <1>10 DEF ReloadSend, DataOK
<1>11. CASE UpdateConfig(c)
  <2>1. PICK symbols \in BoundedSeq(ProtoSymbols, MaxSymbols),
             database \in Databases \union {Absent} :
          IF database = Absent
            THEN Refuse(c)
            ELSE Change(c, [settings EXCEPT
                   !.symbols = [i \in DOMAIN symbols |-> FromProto(symbols[i])],
                   !.database = database])
    BY <1>11 DEF UpdateConfig
  <2> DEFINE list == [i \in DOMAIN symbols |-> FromProto(symbols[i])]
  <2>2. list \in Seq(SymbolType)
    <3>1. PICK n \in Nat : symbols \in [1..n -> ProtoSymbols]
      BY BoundsAssumption DEF BoundedSeq, SeqOf
    <3>2. list \in [1..n -> SymbolType]
      BY <3>1, RequestTyped
    <3> QED
      BY <3>2
  <2> HIDE DEF list
  <2>3. database # Absent =>
          [settings EXCEPT !.symbols = list, !.database = database]
             \in SettingsType
    BY <1>1, <2>2 DEF SettingsType
  <2> QED
    BY <1>4, <1>5, <2>1, <2>3 DEF list
<1>12. CASE AddSymbol(c)
  <2>1. PICK symbol \in ProtoSymbols \union {Absent} :
          IF symbol = Absent \/ symbol.name \in NamesOf(settings.symbols)
            THEN Refuse(c)
            ELSE Change(c, [settings EXCEPT !.symbols =
                              Append(@, FromProto(symbol))])
    BY <1>12 DEF AddSymbol
  <2>2. CASE symbol \in ProtoSymbols
    <3>1. Append(settings.symbols, FromProto(symbol)) \in Seq(SymbolType)
      BY <1>1, <2>2, RequestTyped
    <3> QED
      BY <1>4, <1>5, <1>6, <2>1, <3>1
  <2>3. CASE symbol = Absent
    BY <1>4, <2>1, <2>3
  <2> QED
    BY <2>2, <2>3
<1>13. CASE RemoveSymbol(c)
  <2>1. PICK name \in Names \union {""} :
          IF name \notin NamesOf(settings.symbols)
            THEN Refuse(c)
            ELSE Change(c, [settings EXCEPT !.symbols = Without(@, name)])
    BY <1>13 DEF RemoveSymbol
  <2>2. Without(settings.symbols, name) \in Seq(SymbolType)
    BY <1>1, WithoutType
  <2> QED
    BY <1>4, <1>5, <1>6, <2>1, <2>2
<1> QED
  BY <1>7, <1>8, <1>9, <1>10, <1>11, <1>12, <1>13 DEF Handle

LEMMA LoopData ==
  ASSUME ControlOK, DataOK, LoopStep
  PROVE  DataOK'
<1>1. /\ restarts \in Nat /\ settings.symbols \in Seq(SymbolType)
      /\ DOMAIN gen = DOMAIN Blank
  BY DEF ControlOK, DataOK, SettingsType
<1>2. /\ UNCHANGED <<settings, disk, edition, call, loaded, applied>>
  <2> USE DEF configVars
  <2>1. CASE StartStep
    BY <2>1 DEF StartStep, ReadDatabase, ReadSymbols, ReadEnv, ReadTrades,
                ReadBars, ReadFeed, ReadTrading, CreateBroker, ConnectIndicator
  <2> QED
    BY <2>1 DEF LoopStep, OnReload, TaskStops, StreamerEnds, Restart, Interrupt,
                Killed, Shutdown, Exit, IndicatorBinds, IndicatorFails
<1>3. ASSUME NEW kind \in Kinds, NEW names \in SUBSET Names
      PROVE  Task(kind, names) \in TaskType
  BY <1>1 DEF Task, TaskType
<1>4. tasks' \union handles' \subseteq TaskType
  <2> USE DEF DataOK
  <2>1. CASE ReadSymbols
    BY <1>3, <2>1 DEF ReadSymbols, Spawn, Kinds
  <2>2. CASE ReadFeed
    <3>1. /\ gen.trades \union gen.bars \subseteq Names
          /\ NamesOf(gen.symbols) \subseteq Names
      BY <2>2, NamesTyped DEF ReadFeed, SnapshotsTyped, AfterBars, AfterTrades,
               AfterEnv, AfterSymbols, AfterFeed
    <3> QED
      BY <1>3, <2>2, <3>1 DEF ReadFeed, Kinds
  <2>3. CASE ConnectIndicator
    <3>1. NamesOf(gen.symbols) \subseteq Names
      BY <2>3, NamesTyped DEF ConnectIndicator, SnapshotsTyped, AfterBars,
               AfterTrades, AfterEnv, AfterSymbols, AfterFeed, AfterTrading
    <3> QED
      BY <1>3, <2>3, <3>1 DEF ConnectIndicator, Spawn, Kinds
  <2>4. CASE OnReload
    BY <2>4 DEF OnReload, AbortTasks
  <2>5. CASE ReadDatabase \/ ReadEnv \/ ReadTrades \/ ReadBars \/ ReadTrading
             \/ CreateBroker
    BY <2>5 DEF ReadDatabase, ReadEnv, ReadTrades, ReadBars, ReadTrading,
                CreateBroker
  <2>6. CASE Restart \/ Interrupt \/ Killed \/ Shutdown \/ Exit
    BY <2>6 DEF Restart, Interrupt, Killed, Shutdown, Exit
  <2>7. CASE \E t \in tasks : \/ TaskStops(t) \/ IndicatorBinds(t)
                               \/ IndicatorFails(t) \/ StreamerEnds(t)
    BY <2>7 DEF TaskStops, StreamerEnds, IndicatorBinds, IndicatorFails
  <2> QED
    BY <2>1, <2>2, <2>3, <2>4, <2>5, <2>6, <2>7 DEF LoopStep, StartStep
<1>5. SnapshotsTyped'
  <2> USE DEF DataOK, SnapshotsTyped, AfterSymbols, AfterEnv, AfterTrades,
              AfterBars, AfterFeed, AfterTrading
  <2>1. CASE ReadDatabase
    BY <2>1 DEF ReadDatabase
  <2>2. CASE ReadSymbols
    BY <1>1, <2>2 DEF ReadSymbols, Blank
  <2>3. CASE ReadEnv
    BY <2>3 DEF ReadEnv
  <2>4. CASE ReadTrades
    BY <1>1, <2>4, NamesTyped DEF ReadTrades, Blank
  <2>5. CASE ReadBars
    BY <1>1, <2>5, NamesTyped DEF ReadBars, Blank
  <2>6. CASE ReadFeed
    BY <2>6 DEF ReadFeed
  <2>7. CASE ReadTrading
    BY <2>7 DEF ReadTrading
  <2>8. CASE CreateBroker \/ ConnectIndicator
    BY <2>8 DEF CreateBroker, ConnectIndicator
  <2>9. CASE OnReload \/ Restart \/ Killed \/ Shutdown \/ Exit
    BY <2>9 DEF OnReload, Restart, Killed, Shutdown, Exit
  <2>10. CASE UNCHANGED <<pc, gen>>
    BY <2>10
  <2> QED
    BY <2>1, <2>2, <2>3, <2>4, <2>5, <2>6, <2>7, <2>8, <2>9, <2>10
    DEF LoopStep, StartStep, TaskStops, StreamerEnds, Interrupt, IndicatorBinds,
        IndicatorFails
<1> QED
  BY <1>2, <1>4, <1>5 DEF DataOK

\* Whatever requests carry and files contain, every variable keeps its type: in
\* particular the settings stay settings, and a reload holds a file that existed.
THEOREM SupervisorTypeOK == Spec => []TypeOK
<1>1. Init => DataOK
  BY FilesAssumption
  DEF Init, ConfigInit, DataOK, SnapshotsTyped, AfterSymbols, AfterEnv,
      AfterTrades, AfterBars, AfterFeed, AfterTrading
<1>2. IInv /\ DataOK /\ [Next]_vars => DataOK'
  <2> SUFFICES ASSUME ControlOK, DataOK, [Next]_vars PROVE DataOK'
    BY DEF IInv
  <2>1. CASE EditDisk /\ UNCHANGED loopVars
    BY <2>1 DEF EditDisk, loopVars, ControlOK, DataOK, SnapshotsTyped
  <2>2. CASE LoopStep
    BY <2>2, LoopData
  <2>3. CASE UNCHANGED vars
    BY <2>3 DEF vars, configVars, loopVars, DataOK, SnapshotsTyped
  <2> QED
    BY <2>1, <2>2, <2>3, HandleData DEF Next, Service
<1>3. IInv /\ DataOK => TypeOK
  BY DEF IInv, DataOK, TypeOK
<1> QED
  BY Invariance, <1>1, <1>2, <1>3, PTL DEF Spec
----------------------------------------------------------------------------
(* Reloads of a client that is alone.                                      *)

\* What it has loaded is no older than what is applied, and what is applied is
\* no newer than the files.
LoneReload(c) ==
  /\ applied \in Nat /\ edition \in Nat /\ applied <= edition
  /\ c \in DOMAIN call /\ c \in DOMAIN loaded
  /\ call[c] = "loaded" =>
       /\ loaded[c].edition \in Nat
       /\ applied <= loaded[c].edition /\ loaded[c].edition <= edition

LEMMA LoneHandle ==
  ASSUME NEW c, LoneReload(c), Handle(c)
  PROVE  LoneReload(c)' /\ applied' >= applied
<1> USE DEF LoneReload
<1>1. ASSUME NEW outcome \in {"ok", "failed"}, Return(c, outcome),
             UNCHANGED <<edition, loaded, applied>>
      PROVE  LoneReload(c)' /\ applied' >= applied
  BY <1>1 DEF Return
<1>2. CASE ReloadLoad(c)
  BY <1>2 DEF ReloadLoad, Return
<1>3. CASE ReloadWrite(c)
  BY <1>3 DEF ReloadWrite, Return
<1>4. CASE ReloadFails(c) \/ ReloadSend(c)
  BY <1>1, <1>4 DEF ReloadFails, Refuse, ReloadSend
<1>5. CASE UpdateConfig(c) \/ AddSymbol(c) \/ RemoveSymbol(c)
  BY <1>1, <1>5 DEF UpdateConfig, AddSymbol, RemoveSymbol, Refuse, Change
<1> QED
  BY <1>2, <1>3, <1>4, <1>5 DEF Handle

\* With one client a reload never replaces newer files by older ones, however
\* often they are edited between its loading and its writing: that it can
\* happen (config_reloader.rs:42-49) takes two reloads at a time.
THEOREM LoneReloadsDoNotGoBack ==
  ASSUME NEW c, Clients = {c}
  PROVE  Spec => ReloadsDoNotGoBack
<1> DEFINE Onward == applied' >= applied
           Lone == LoneReload(c)
<1>1. Init => Lone
  BY DEF Init, ConfigInit, LoneReload
<1>2. Lone /\ [Next]_vars => Lone' /\ Onward
  <2> SUFFICES ASSUME LoneReload(c), [Next]_vars
               PROVE  LoneReload(c)' /\ applied' >= applied
    OBVIOUS
  <2>1. CASE Service
    <3>1. CASE Handle(c)
      BY <3>1, LoneHandle
    <3>2. CASE EditDisk
      BY <3>2 DEF EditDisk, LoneReload
    <3> QED
      BY <2>1, <3>1, <3>2 DEF Service
  <2>2. CASE LoopStep
    <3>1. UNCHANGED <<edition, call, loaded, applied>>
      BY <2>2
      DEF LoopStep, StartStep, ReadDatabase, ReadSymbols, ReadEnv, ReadTrades,
          ReadBars, ReadFeed, ReadTrading, CreateBroker, ConnectIndicator,
          OnReload, TaskStops, StreamerEnds, Restart, Interrupt, Killed,
          Shutdown, Exit, IndicatorBinds, IndicatorFails, configVars
    <3> QED
      BY <3>1 DEF LoneReload
  <2>3. CASE UNCHANGED vars
    BY <2>3 DEF vars, configVars, LoneReload
  <2> QED
    BY <2>1, <2>2, <2>3 DEF Next
<1> HIDE DEF Onward, Lone
<1>3. Spec => [][Onward]_vars
  BY <1>1, <1>2, PTL DEF Spec
<1> QED
  BY <1>3 DEF ReloadsDoNotGoBack, Onward

============================================================================
