---------------------------- MODULE MCTcpPipeline ----------------------------
(***************************************************************************)
(* Instances of TcpPipeline for TLC: the configurations and the servers.   *)
(***************************************************************************)
EXTENDS TcpPipeline

Config(len, first, zero, lifetime, nagle) ==
  [message_len |-> len, first_message |-> first, zero_rate |-> zero,
   channel_lifetime |-> lifetime, nagle |-> nagle]

\* Two-byte messages, so that a write can be short; a first message; a worker
\* that only waits.
MCConfigs ==
  {Config(2, {}, FALSE, TRUE, FALSE),
   Config(1, {2}, FALSE, FALSE, TRUE),
   Config(1, {}, TRUE, TRUE, FALSE)}

\* An empty message (--message-size 0).
MCEmptyMessage == {Config(0, {}, FALSE, TRUE, FALSE)}

Server(echo, fails, chatty, ctrl_c) ==
  [echo |-> echo, closes |-> TRUE, fails |-> fails, chatty |-> chatty,
   ctrl_c |-> ctrl_c]

GoodServer == Server(TRUE, FALSE, FALSE, FALSE)

\* A well-behaved server with and without SIGINT, one that may fail, one that
\* says things nobody asked for, and a silent one.
MCServers ==
  {GoodServer,
   Server(TRUE, FALSE, FALSE, TRUE),
   Server(TRUE, TRUE, FALSE, FALSE),
   Server(TRUE, FALSE, TRUE, FALSE),
   Server(FALSE, FALSE, FALSE, FALSE)}

MCGoodServer == {GoodServer}
=============================================================================
