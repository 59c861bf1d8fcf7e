----------------------------- MODULE MCWsPipeline -----------------------------
(***************************************************************************)
(* Instances of WsPipeline for TLC: the configurations and the servers.    *)
(***************************************************************************)
EXTENDS WsPipeline

Config(idle, first, lifetime) ==
  [idle |-> idle, first_message |-> first, channel_lifetime |-> lifetime]

MCConfigs ==
  {Config(FALSE, FALSE, TRUE), Config(FALSE, TRUE, FALSE), Config(TRUE, FALSE, TRUE)}

\* A server that stays silent and never hangs up, and an echo server that closes, with
\* the traits given.
Silent == [echo |-> FALSE, mixed |-> FALSE, pings |-> FALSE, chatty |-> FALSE,
           fails |-> FALSE, closes |-> FALSE]
Echo(traits) == [t \in DOMAIN Silent |-> t \in {"echo", "closes"} \cup traits]

MCServers ==
  {Silent, Echo({"mixed", "pings"}), Echo({"fails"}), Echo({"chatty"})}
=============================================================================
