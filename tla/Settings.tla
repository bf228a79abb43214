------------------------------ MODULE Settings -------------------------------
(***************************************************************************)
(* How the server (internal/server/config.go, cmd/server/main.go) and the  *)
(* agent (internal/agent/config.go, cmd/agent/main.go) come to their       *)
(* settings: defaults, then flags, then the JSON file a flag names, then   *)
(* the environment.                                                        *)
(*                                                                         *)
(* Some flags are bound to the configuration itself, where the file read   *)
(* after them overwrites what they set; -a, -crypto-key and -t are kept    *)
(* aside and win over the file.  The environment comes last and is neither *)
(* checked nor, for the crypto key, read as the path it is.                *)
(*                                                                         *)
(* What an operator gives is a record [flags, conf, env], each from the    *)
(* settings to a value, or Absent; conf is what the file named by -c says, *)
(* and `readable` whether it is there and decodes.  A file may set a text  *)
(* to "", which overwrites; a variable that is "", and an -a, -crypto-key  *)
(* or -t that is "", count as not given.  Left out: the intervals in the   *)
(* environment, which that library parses, and the agent's intervals.      *)
(* CONFIG is read too late to name a file.                                 *)
(***************************************************************************)
EXTENDS Integers, Sequences

CONSTANTS
    Absent,     \* not given
    KeyFiles    \* [path -> the text in the file]; other paths cannot be read

ASSUME SettingsAssumption == {Absent, ""} \cap DOMAIN KeyFiles = {}

\* An address is a host and a port; Absent for a port that is no number.
Addr(host, port) == [host |-> host, port |-> port]
NoAddr == Addr("", 0)
IPs == {"10.0.0.1", "10.0.0.2", "125.3.21.1"}   \* the hosts that net.ParseIP takes

\* A trusted subnet is a list of entries; one may be written after a space.
Entry(ip, spaced) == [ip |-> ip, spaced |-> spaced]

ServerDefaults ==
    [addr |-> Addr("", 8080), rpc |-> Addr("", 3200), restore |-> TRUE, interval |-> 10,
     file |-> "", dsn |-> "", key |-> "", crypto |-> "", subnet |-> <<>>]
AgentDefaults ==
    [addr |-> Addr("", 8080), type |-> "BatchJSON", key |-> "", crypto |-> ""]

\* The settings whose flag is bound to the configuration.
ServerBound == {"rpc", "restore", "interval", "file", "dsn", "key"}
AgentBound == {"type", "key"}

Overlay(cfg, given, fields) ==
    [f \in DOMAIN cfg |-> IF f \in fields /\ given[f] # Absent THEN given[f] ELSE cfg[f]]

\* Flags, then ReadConfig.
Configured(defaults, bound, g) ==
    Overlay(Overlay(defaults, g.flags, bound), g.conf, DOMAIN defaults)

\* Mutant: the file wins over the flags kept aside.
ConfFirst(flag, conf) == conf
FlagFirst(flag, conf) == IF flag = Absent THEN conf ELSE flag

CryptoPath(cfg, g) == FlagFirst(g.flags.crypto, cfg.crypto)
Address(cfg, g) == FlagFirst(g.flags.addr, cfg.addr)
GoodAddress(a) == a.host \in {"", "localhost"} \cup IPs /\ a.port # Absent

\* Mutant: the path is taken for the text.  A key file's text replaces its path.
PathItself(path) == path
KeyText(path) == IF path = "" THEN "" ELSE KeyFiles[path]
KeyReadable(path) == path = "" \/ path \in DOMAIN KeyFiles

\* ParseFlags fails, and with it main, on a file it cannot read or an address it
\* cannot use.
Parses(cfg, g) ==
    /\ g.readable
    /\ KeyReadable(CryptoPath(cfg, g))
    /\ GoodAddress(Address(cfg, g))

\* The list given by -t loses its spaces, has IP addresses only, and wins.
\* Mutant: the spaces stay.
AsGiven(list) == list
Unspaced(list) == [i \in DOMAIN list |-> Entry(list[i].ip, FALSE)]
GoodList(list) == \A i \in DOMAIN list : list[i].ip \in IPs
FlagList(g) == IF g.flags.subnet = Absent THEN <<>> ELSE Unspaced(g.flags.subnet)

ServerParses(g) ==
    Parses(Configured(ServerDefaults, ServerBound, g), g) /\ GoodList(FlagList(g))
AgentParses(g) ==
    Parses(Configured(AgentDefaults, AgentBound, g), g)

ServerSettings(g) ==
    LET cfg == Configured(ServerDefaults, ServerBound, g)
        parsed == [cfg EXCEPT !.addr = Address(cfg, g),
                              !.crypto = KeyText(CryptoPath(cfg, g)),
                              !.subnet = IF FlagList(g) = <<>> THEN @ ELSE FlagList(g)]
    IN  Overlay(parsed, g.env, DOMAIN cfg)

AgentSettings(g) ==
    LET cfg == Configured(AgentDefaults, AgentBound, g)
        addr == Address(cfg, g)
        parsed == [cfg EXCEPT !.addr = IF addr.host = "" THEN Addr("localhost", addr.port) ELSE addr,
                              !.crypto = KeyText(CryptoPath(cfg, g))]
    IN  Overlay(parsed, g.env, DOMAIN cfg)

-----------------------------------------------------------------------------
(* What main makes of the server's settings. *)

Backend(cfg) ==
    CASE cfg.dsn # ""                   -> "database"
      [] cfg.dsn = "" /\ cfg.file # ""  -> "file"
      [] OTHER                          -> "memory"

\* The manager flushes after each update, by a ticker, or (a negative interval) never.
\* Mutant: whatever the storage.
AnyStorage(cfg) == cfg.interval
Interval(cfg) == IF cfg.dsn # "" THEN 0 ELSE cfg.interval
Flushes(cfg) ==
    CASE Interval(cfg) = 0 -> "each update"
      [] Interval(cfg) > 0 -> "by ticks"
      [] OTHER             -> "never"

\* WithTrustedSubnet trims the ends of the list and splits it at the commas.
Trusted(cfg) ==
    [i \in DOMAIN cfg.subnet |-> IF i = 1 THEN Entry(cfg.subnet[i].ip, FALSE) ELSE cfg.subnet[i]]
=============================================================================
