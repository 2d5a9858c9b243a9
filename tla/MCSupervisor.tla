--------------------------- MODULE MCSupervisor ---------------------------
(***************************************************************************)
(* Small instances of Supervisor: two symbols, one of them traded and      *)
(* barred, the other traded only; two databases; files whose trading       *)
(* section is disabled or enabled for either kind of broker.               *)
(***************************************************************************)
EXTENDS Supervisor

CONSTANTS c1, c2, none

MCAbsent == none

MCClients == {c1, c2}
OneClient == {c1}

MCNames == {"AAPL", "SPY"}

MCProtoSymbols ==
  {[name |-> "AAPL", trades |-> TRUE, bars |-> TRUE],
   [name |-> "SPY", trades |-> TRUE, bars |-> FALSE]}

OneDatabase == {"db1"}
OneName == {"AAPL"}
AaplProto == {[name |-> "AAPL", trades |-> TRUE, bars |-> TRUE]}

OneProtoSymbol == {[name |-> "SPY", trades |-> TRUE, bars |-> FALSE]}

MCDatabases == {"db1", "db2"}

Alpaca == [enabled |-> TRUE, broker |-> "alpaca", key |-> "k1", feed |-> "test"]
Depot  == [enabled |-> TRUE, broker |-> "depot", key |-> "k1", feed |-> "iex"]
Off    == [enabled |-> FALSE, broker |-> "alpaca", key |-> "k2", feed |-> "SIPS"]

MCTradingConfigs == {Alpaca, Depot, Off}

Aapl == [name |-> "AAPL", trades |-> TRUE, bars |-> TRUE, buffer |-> 20]
Spy  == [name |-> "SPY", trades |-> TRUE, bars |-> FALSE, buffer |-> 20]

File(symbols, database, trading) ==
  [symbols |-> symbols, database |-> database, trading |-> trading]

MCDiskFiles ==
  {File(<<Aapl>>, "db1", Alpaca),
   File(<<Aapl, Spy>>, "db2", Depot),
   File(<<Spy>>, "db1", Off)}

SmallDiskFiles ==
  {File(<<Aapl>>, "db1", Depot),
   File(<<>>, "db1", Off)}

TwoDiskFiles ==
  {File(<<Aapl>>, "db1", Alpaca),
   File(<<Spy>>, "db1", Off)}

============================================================================
