---------------------------- MODULE MCTcpPingpong ----------------------------
(***************************************************************************)
(* Instances of TcpPingpong for TLC: the configurations and the servers.   *)
(***************************************************************************)
EXTENDS TcpPingpong

Config(len, first, zero, lifetime, nagle) ==
  [message_len |-> len, first_message |-> first, zero_rate |-> zero,
   channel_lifetime |-> lifetime, nagle |-> nagle]

\* Two-byte messages, so that a write can be short; a first message longer than the
\* message; a worker that only waits, and one with an empty message.
MCConfigs ==
  {Config(2, {}, FALSE, TRUE, FALSE),
   Config(1, {2}, FALSE, TRUE, TRUE),
   Config(1, {}, TRUE, TRUE, FALSE),
   Config(0, {1}, FALSE, FALSE, FALSE)}

MCLifetime == {Config(1, {}, FALSE, TRUE, FALSE)}

Server(echo, fails, chatty) == [echo |-> echo, fails |-> fails, chatty |-> chatty]

MCServers ==
  {Server(TRUE, FALSE, FALSE),
   Server(TRUE, TRUE, FALSE),
   Server(TRUE, FALSE, TRUE),
   Server(FALSE, FALSE, FALSE)}

MCSilentServer == {Server(FALSE, FALSE, FALSE)}
=============================================================================
