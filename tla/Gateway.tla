-------------------------------- MODULE Gateway --------------------------------
(***************************************************************************)
(* The gateway_cb_* callbacks of thirst.c: DNS answer, TLS connection,     *)
(* response, timeout and disconnection of the request that sends a         *)
(* notification.  Only the connect, sent, receive and disconnect callbacks *)
(* are registered: an error of the connection, which espconn reports to    *)
(* the reconnect callback, reaches no code of the firmware (SocketError).  *)
(***************************************************************************)
EXTENDS System

ToDone == Transition("SEND_DATA", "SEND_DATA_DONE")
ToError == Transition("SEND_DATA", "ERROR")

(* What every callback below leaves alone.                                 *)
gatewayIdle == <<idleVars, task_queue>>

(* espconn_secure_disconnect(), after the transition "left": the close of a *)
(* socket espconn knows is queued and gateway_cb_sock_disconnect will run; *)
(* otherwise (unknown, or already closing) leave the access point at once. *)
CloseSocket(left) ==
  IF socket \in {"CONNECTING", "OPEN"}
  THEN /\ socket' = "CLOSING"
       /\ sys_state' = left
       /\ UNCHANGED wifi
  ELSE LeaveNetwork(left) /\ UNCHANGED socket

(* gateway_cb_dns_resolved()                                               *)
DnsResolved ==
  /\ Running
  /\ socket = "RESOLVING"
  /\ link \in {"UP", "LEAVING"}
  /\ \/ /\ socket' = "CONNECTING"
        /\ UNCHANGED <<sys_state, wifi>>
     \/ /\ Fault("connect_call")
        /\ socket' = "NONE"
        /\ LeaveNetwork(ToError)
  /\ UNCHANGED <<gatewayIdle, sys_timer_sw, unread, sys_deep_sleep_params,
                 history>>

DnsFailed ==
  /\ Running
  /\ socket = "RESOLVING"
  /\ Fault("dns") \/ link # "UP"
  /\ socket' = "NONE"
  /\ LeaveNetwork(ToError)
  /\ UNCHANGED <<gatewayIdle, sys_timer_sw, unread, sys_deep_sleep_params,
                 history>>

(* gateway_cb_sock_connect(): send the request, arm the response timeout.  *)
SocketConnected ==
  /\ Running
  /\ socket = "CONNECTING"
  /\ link \in {"UP", "LEAVING"}
  /\ \/ /\ socket' = "OPEN"
        /\ sys_timer_sw' = "RX"
        /\ notified' = TRUE
        /\ cooldown' = SYS_DEEP_SLEEP_TIMES
        /\ UNCHANGED <<sys_state, wifi>>
     \/ /\ Fault("send")
        /\ CloseSocket(ToError)
        /\ UNCHANGED <<sys_timer_sw, notified, cooldown>>
  /\ UNCHANGED <<gatewayIdle, unread, sys_deep_sleep_params, naps, accepted>>

(* The request buffer is not allocated: os_bzero() through NULL.           *)
SocketConnectedNoMemory ==
  /\ Running
  /\ socket = "CONNECTING"
  /\ link \in {"UP", "LEAVING"}
  /\ Fault("alloc")
  /\ Reboot("FAULT_RST", TRUE)
  /\ UNCHANGED <<rtc_sleep_count, flash, naps, cooldown>>

(* gateway_cb_sock_rx(), for a piece of the answer with or without the     *)
(* code 202 in its first line.                                             *)
Receive(ok) ==
  /\ sys_timer_sw' = "OFF"
  /\ IF ok
     THEN /\ sys_deep_sleep_params' = SleepAfterMeasurement
          /\ accepted' = TRUE
          /\ CloseSocket(ToDone)
     ELSE /\ CloseSocket(ToError)
          /\ UNCHANGED <<sys_deep_sleep_params, accepted>>
  /\ UNCHANGED <<gatewayIdle, naps, cooldown, notified>>

ReceiveFirst ==
  /\ Running
  /\ socket = "OPEN"
  /\ unread = 0
  /\ link \in {"UP", "LEAVING"}
  /\ \/ Receive(TRUE)
     \/ Fault("reject") /\ Receive(FALSE)
  /\ unread' \in IF Fault("chunked") THEN {0, 1} ELSE {0}

(* The TLS layer hands over the rest of a long answer before anything else *)
(* runs; its first line has no status code.                                *)
ReceiveRest ==
  /\ Running
  /\ unread = 1
  /\ Receive(FALSE)
  /\ unread' = 0

ReceiveTimeoutToDone ==
  /\ Running
  /\ sys_timer_sw = "RX"
  /\ Fault("no_answer") \/ socket # "OPEN" \/ link # "UP"
  /\ sys_timer_sw' = "OFF"
  /\ CloseSocket(ToDone)
  /\ UNCHANGED <<gatewayIdle, unread, sys_deep_sleep_params, history>>

(* gateway_cb_timeout_rx()                                                 *)
ReceiveTimeout ==
  /\ Running
  /\ sys_timer_sw = "RX"
  /\ Fault("no_answer") \/ socket # "OPEN" \/ link # "UP"
  /\ sys_timer_sw' = "OFF"
  /\ CloseSocket(ToError)
  /\ UNCHANGED <<gatewayIdle, unread, sys_deep_sleep_params, history>>

(* gateway_cb_sock_disconnect(), after a close of ours or of the server.   *)
SocketDisconnected ==
  /\ Running
  /\ \/ socket = "CLOSING"
     \/ socket = "OPEN" /\ Fault("peer_close")
  /\ socket' = "NONE"
  /\ LeaveNetwork(sys_state)
  /\ UNCHANGED <<gatewayIdle, sys_timer_sw, unread, sys_deep_sleep_params,
                 history>>

(* A TCP or TLS error drops the connection; no callback is registered.     *)
SocketError ==
  /\ Running
  /\ socket \in {"CONNECTING", "OPEN"}
  /\ Fault("socket") \/ link = "DOWN"
  /\ socket' = "NONE"
  /\ UNCHANGED <<gatewayIdle, sys_timer_sw, wifi, unread, sys_state,
                 sys_deep_sleep_params, history>>
================================================================================
