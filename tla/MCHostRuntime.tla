--------------------------- MODULE MCHostRuntime ---------------------------
(* Instances of HostRuntime for TLC. *)
EXTENDS HostRuntime

Plain(type, tags) == [type : {type}, tag : tags, server : {0}, client : {1}]

(* One frame of every payload that moves the link, and a keepalive request  *)
(* whose counters do not match.                                             *)
MCLinkFrames ==
  Plain("ACK", {"tcp_connected", "client_connected", "connect_ack", "connect_success",
                "disconnect_ack", "reset_ack", "initialize_ack", "other"})
  \cup Plain("ERROR", {"keepalive_retry_exhausted", "halted_tcp_client_closed"})
  \cup Plain("KEEPALIVE", {"ka_req"})
  \cup [type : {"KEEPALIVE"}, tag : {"ka_req", "ka_resp"}, server : {2}, client : {1}]

(* What a brew depends on: the client's commands, and the frames that make  *)
(* and break the keepalive session.                                         *)
MCBrewFrames ==
  Plain("DATA", {"start_brew", "stop_brew", "simulation_on", "command", "other"})
  \cup Plain("ERROR", {"halted_tcp_client_closed"})
  \cup [type : {"KEEPALIVE"}, tag : {"ka_req"}, server : {2}, client : {1}]

=============================================================================
