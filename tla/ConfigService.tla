--------------------------- MODULE ConfigService ---------------------------
(***************************************************************************)
(* The configuration service (src/src/trader/config_reloader.rs), the      *)
(* settings it shares with the main loop (src/src/settings.rs) and the     *)
(* broadcast channel it announces changes on (src/src/main.rs:48).         *)
(*                                                                         *)
(* Every gRPC call runs as a task of its own.  UpdateConfig, AddSymbol and *)
(* RemoveSymbol change the settings and announce the change under the      *)
(* write lock, so each is one step; ReloadConfig reads the files before it *)
(* waits for the lock and announces after it has released it, so it is     *)
(* three.  The contents of the configuration are kept (which symbols, which*)
(* database, which trading section); host names, ports, passwords and      *)
(* numeric limits are not.                                                 *)
(***************************************************************************)
EXTENDS Naturals, Sequences, SequencesExt, FiniteSets

CONSTANTS
  Clients,        \* concurrent callers of the gRPC service
  Names,          \* symbol names, none of them empty
  ProtoSymbols,   \* symbols a request may carry: name, trades, bars
  Databases,      \* database sections
  DiskFiles,      \* settings the configuration files may parse to
  TradingConfigs, \* trading sections: enabled, broker, key, feed
  DefaultBuffer,  \* default_buffer_size()
  Capacity,       \* slots of the broadcast channel
  Absent,         \* a missing optional value, or files that do not load
  MaxChanges,     \* bound: changes announced on the channel
  MaxEditions,    \* bound: times somebody edits the files
  MaxSymbols      \* bound: symbols in a request or in the settings

ASSUME CapacityAssumption == Capacity \in Nat \ {0}
ASSUME BoundsAssumption ==
  /\ MaxChanges \in Nat
  /\ MaxEditions \in Nat
  /\ MaxSymbols \in Nat

SymbolType ==
  [name : Names, trades : BOOLEAN, bars : BOOLEAN, buffer : Nat]

SettingsType ==
  [symbols : Seq(SymbolType), database : Databases,
   trading : TradingConfigs \union {Absent}]

ASSUME RequestsAssumption ==
  /\ ProtoSymbols \subseteq [name : Names, trades : BOOLEAN, bars : BOOLEAN]
  /\ DefaultBuffer \in Nat
ASSUME FilesAssumption == DiskFiles \subseteq SettingsType

VARIABLES
  settings,  \* Arc<RwLock<Settings>>
  disk,      \* what Settings::load() would return
  edition,   \* how often the files have been edited
  call,      \* call[c]: how far the latest call of c has got
  loaded,    \* loaded[c]: the settings a ReloadConfig of c holds
  applied,   \* the edition of the files last written to the settings
  unread,    \* messages kept in the channel for the main loop
  lagged,    \* the channel has overwritten messages it has yet to report
  sent       \* messages sent since the start

configVars ==
  <<settings, disk, edition, call, loaded, applied, unread, lagged, sent>>

CallStates == {"idle", "loaded", "written", "ok", "failed"}

\* A symbol of a request has no buffer size: from_proto fills in the default.
FromProto(p) ==
  [name |-> p.name, trades |-> p.trades, bars |-> p.bars,
   buffer |-> DefaultBuffer]

NamesOf(symbols) == {symbols[i].name : i \in DOMAIN symbols}

TradeSymbols(symbols) ==
  {symbols[i].name : i \in {j \in DOMAIN symbols : symbols[j].trades}}

BarSymbols(symbols) ==
  {symbols[i].name : i \in {j \in DOMAIN symbols : symbols[j].bars}}

\* symbols.retain
Without(symbols, name) ==
  LET Retain(kept, symbol) ==
        IF symbol.name = name THEN kept ELSE Append(kept, symbol)
  IN  FoldLeft(Retain, <<>>, symbols)

----------------------------------------------------------------------------
(* The broadcast channel.  A full channel overwrites its oldest message;   *)
(* the receiver then gets one Lagged error before the messages that are    *)
(* still there.                                                            *)

Send ==
  /\ sent' = sent + 1
  /\ IF unread = Capacity
       THEN lagged' = TRUE /\ UNCHANGED unread
       ELSE unread' = unread + 1 /\ UNCHANGED lagged

\* recv() returns, with a message or with the Lagged error.
Receive ==
  /\ unread > 0
  /\ IF lagged
       THEN lagged' = FALSE /\ UNCHANGED unread
       ELSE unread' = unread - 1 /\ UNCHANGED lagged
  /\ UNCHANGED sent

----------------------------------------------------------------------------
(* The handlers.                                                           *)

Idle(c) == call[c] \in {"idle", "ok", "failed"}

Return(c, outcome) == call' = [call EXCEPT ![c] = outcome]

Refuse(c) ==
  /\ Return(c, "failed")
  /\ UNCHANGED <<settings, disk, edition, loaded, applied, unread, lagged, sent>>

\* The change is written, announced and answered with the lock held.
Change(c, new) ==
  /\ sent < MaxChanges
  /\ settings' = new
  /\ Send
  /\ Return(c, "ok")
  /\ UNCHANGED <<disk, edition, loaded, applied>>

ReloadLoad(c) ==
  /\ Idle(c)
  /\ sent < MaxChanges
  /\ disk # Absent
  /\ loaded' = [loaded EXCEPT ![c] = [file |-> disk, edition |-> edition]]
  /\ Return(c, "loaded")
  /\ UNCHANGED <<settings, disk, edition, applied, unread, lagged, sent>>

ReloadFails(c) ==
  /\ Idle(c)
  /\ disk = Absent
  /\ Refuse(c)

ReloadWrite(c) ==
  /\ call[c] = "loaded"
  /\ settings' = loaded[c].file
  /\ applied' = loaded[c].edition
  /\ loaded' = [loaded EXCEPT ![c] = Absent]
  /\ Return(c, "written")
  /\ UNCHANGED <<disk, edition, unread, lagged, sent>>

\* Mutated form of ReloadSend: the reload is not announced.
ReloadSendNothing(c) ==
  /\ call[c] = "written"
  /\ Return(c, "ok")
  /\ UNCHANGED <<settings, disk, edition, loaded, applied, unread, lagged, sent>>

ReloadSend(c) ==
  /\ call[c] = "written"
  /\ Send
  /\ Return(c, "ok")
  /\ UNCHANGED <<settings, disk, edition, loaded, applied>>

\* The trading section survives an update; the symbols take default buffers.
UpdateConfig(c) ==
  \E symbols \in BoundedSeq(ProtoSymbols, MaxSymbols),
     database \in Databases \union {Absent} :
    /\ Idle(c)
    /\ IF database = Absent
         THEN Refuse(c)
         ELSE Change(c, [settings EXCEPT
                !.symbols = [i \in DOMAIN symbols |-> FromProto(symbols[i])],
                !.database = database])

AddSymbol(c) ==
  \E symbol \in ProtoSymbols \union {Absent} :
    /\ Idle(c)
    /\ Len(settings.symbols) < MaxSymbols
    /\ IF symbol = Absent \/ symbol.name \in NamesOf(settings.symbols)
         THEN Refuse(c)
         ELSE Change(c, [settings EXCEPT !.symbols = Append(@, FromProto(symbol))])

\* Every entry of that name goes; "" stands for a request without a name.
RemoveSymbol(c) ==
  \E name \in Names \union {""} :
    /\ Idle(c)
    /\ IF name \notin NamesOf(settings.symbols)
         THEN Refuse(c)
         ELSE Change(c, [settings EXCEPT !.symbols = Without(@, name)])

\* Somebody edits the configuration files, for better or worse.
EditDisk ==
  /\ edition < MaxEditions
  /\ edition' = edition + 1
  /\ disk' \in (DiskFiles \union {Absent}) \ {disk}
  /\ UNCHANGED <<settings, call, loaded, applied, unread, lagged, sent>>

ConfigInit ==
  /\ disk \in DiskFiles
  /\ settings = disk
  /\ edition = 0
  /\ applied = 0
  /\ call = [c \in Clients |-> "idle"]
  /\ loaded = [c \in Clients |-> Absent]
  /\ unread = 0
  /\ lagged = FALSE
  /\ sent = 0

Handle(c) ==
  \/ ReloadLoad(c)
  \/ ReloadFails(c)
  \/ ReloadWrite(c)
  \/ ReloadSend(c)
  \/ UpdateConfig(c)
  \/ AddSymbol(c)
  \/ RemoveSymbol(c)

\* A change nobody has been told of yet, or that nobody has picked up.
Announced == unread > 0 \/ \E c \in Clients : call[c] = "written"

============================================================================
