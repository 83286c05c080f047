------------------------------- MODULE Relays -------------------------------
(***************************************************************************)
(* Four example contracts that keep no CCD: `memo` forwards to its owner,  *)
(* `proxy` forwards every call to the contract behind it, `icecream` asks  *)
(* a weather service whom to pay, and `weather` is such a service.         *)
(***************************************************************************)
EXTENDS Host

CONSTANT MaxCCD   \* the micro CCD there are

\* The account that sent the transaction; when the call on top of it came
\* from a contract, whoever had that contract called.
Invokers == IF stack[1].by \in Accounts THEN {stack[1].by} ELSE Accounts

Call(entrypoint, amounts, elements) ==
  \E a \in Accounts \cup Contracts, amount \in amounts :
    /\ amount <= MaxCCD - self_balance
    /\ Enter(a, entrypoint, amount, elements)

Stay == Continue(state, 0, Nobody, Top.left - 1, Top.local)
Set(new) == Continue(new, 0, Nobody, Top.left - 1, Top.local)

-----------------------------------------------------------------------------
\* The contract `memo`.
MemoInit == HostInit /\ state = "()"

\* Only accounts, with a parameter of 32 bytes.
MemoReceive ==
  /\ Reading("receive")
  /\ \E sized \in BOOLEAN :
       IF Top.by \in Accounts /\ sized THEN Pay(state, Received)
       ELSE Reject("()")

MemoNext == Call("receive", 0 .. MaxCCD, 1) \/ MemoReceive \/ Finish

-----------------------------------------------------------------------------
\* The contract `proxy`.
ProxyInit == HostInit /\ state \in Contracts

\* receive_fallback hands the amount and the parameter on.
Fallback == Reading("fallback") /\ Invoke(state, state, Received)

Reconfigure ==
  /\ Reading("________reconfigure")
  /\ \E invoker \in Invokers, c \in Contracts :
       IF invoker = Owner THEN Set(c) ELSE Reject("claim_eq")

ProxyNext ==
  \/ Call("fallback", 0 .. MaxCCD, 1) \/ Call("________reconfigure", {0}, 1)
  \/ Fallback \/ Reconfigure \/ Callees \/ Finish

-----------------------------------------------------------------------------
\* The contract `icecream`.
IcecreamInit == HostInit /\ state \in Contracts

\* contract_buy_icecream keeps the amount while it asks for the weather.
AskWeather ==
  /\ Reading("buy_icecream") /\ Top.left = 2
  /\ Continue(state, 0, state, 1, Received)

\* The invoker's CCD come back when it rains, the vendor is paid otherwise;
\* the vendor is an address of the parameter that may have no account.
PayForIcecream ==
  /\ Reading("buy_icecream") /\ Top.left = 1
  /\ \E weather \in {"Rainy", "Sunny"}, vendor_exists \in BOOLEAN :
       IF weather = "Sunny" /\ ~vendor_exists THEN Reject("expect_report")
       ELSE Continue(state, Top.local, Nobody, 0, Nobody)

ReplaceWeatherService ==
  /\ Reading("replace_weather_service")
  /\ \E c \in Contracts : IF Top.by = Owner THEN Set(c) ELSE Reject("assert_eq")

IcecreamNext ==
  \/ Call("buy_icecream", 0 .. MaxCCD, 2) \/ Call("replace_weather_service", {0}, 1)
  \/ AskWeather \/ PayForIcecream \/ ReplaceWeatherService \/ Callees \/ Finish

-----------------------------------------------------------------------------
\* The contract `weather`.
WeatherInit == HostInit /\ state \in {"Rainy", "Sunny"}

WeatherGet == Reading("get") /\ Stay

WeatherSet ==
  /\ Reading("set")
  /\ \E weather \in {"Rainy", "Sunny"} :
       IF Top.by = Owner THEN Set(weather) ELSE Reject("assert_eq")

WeatherNext ==
  Call("get", {0}, 1) \/ Call("set", {0}, 1) \/ WeatherGet \/ WeatherSet \/ Finish

-----------------------------------------------------------------------------
Entrypoints ==
  {"receive", "fallback", "________reconfigure", "buy_icecream", "replace_weather_service",
   "get", "set"}

TypeOK ==
  LET States == Contracts \cup {"()", "Rainy", "Sunny"}
  IN  /\ state \in States
      /\ \A i \in DOMAIN stack : stack[i] \in Frame(Entrypoints, States, {Nobody} \cup 0 .. MaxCCD)

\* The contracts pass on whatever they are sent, however calls are nested and
\* whichever of them are rejected: between transactions they hold nothing.
NothingKept == Idle => self_balance = 0
=============================================================================
