----------------------------- MODULE MCWsPingpong -----------------------------
(***************************************************************************)
(* Instances of WsPingpong for TLC: the configurations and the servers.    *)
(***************************************************************************)
EXTENDS WsPingpong

Config(idle, first, lifetime) ==
  [idle |-> idle, first_message |-> first, channel_lifetime |-> lifetime]

MCConfigs ==
  {Config(FALSE, FALSE, TRUE), Config(FALSE, TRUE, TRUE), Config(TRUE, FALSE, TRUE)}

MCPlain == {Config(FALSE, FALSE, FALSE)}

\* A well-behaved echo server, and one with the traits given.
Plain == [echo |-> TRUE, mixed |-> FALSE, pings |-> FALSE, chatty |-> FALSE,
          fails |-> FALSE, closes |-> TRUE]
With(traits) == [t \in DOMAIN Plain |-> IF t \in traits THEN TRUE ELSE Plain[t]]
Without(traits) == [t \in DOMAIN Plain |-> IF t \in traits THEN FALSE ELSE Plain[t]]

MCServers ==
  {Plain, With({"mixed", "pings"}), With({"fails"}), With({"chatty"}),
   Without({"echo", "closes"})}

MCPinging == {With({"pings"})}
=============================================================================
