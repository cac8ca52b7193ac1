------------------------------- MODULE WifiConnect -------------------------------
(***************************************************************************)
(* Joining a network from libesphttpd's set-up pages (util/cgiwifi.c): a   *)
(* request notes the network, a timer joins it, another timer looks what   *)
(* has become of it, and requests ask how it went.  Two timers and a flag  *)
(* are shared by all requests.                                             *)
(***************************************************************************)
EXTENDS Integers

CONSTANTS
  Networks,    \* what a browser may choose
  MaxAttempts, \* bound: attempts to join
  MaxRestarts  \* bound: restarts

ASSUME WifiConnectAssumption ==
  Networks \subseteq Nat \ {0} /\ MaxAttempts \in Nat /\ MaxRestarts \in Nat

VARIABLES
  opmode,         \* 1 station, 2 access point, 3 both; it outlives a restart
  stconf,         \* the network that was chosen
  station,        \* [network, ip]: what the SDK joins, and whether it has an address
  connTryStatus,  \* "idle", "working" or "fail"
  reassTimer,     \* is it armed?
  lookTimer,      \* resetTimer: 0, or the attempt it was armed for
  attempt,        \* history: attempts so far, counted over restarts
  failed,         \* history: the attempt that is known to have failed
  restarts        \* restarts so far

connectVars == <<opmode, stconf, station, connTryStatus, reassTimer, lookTimer, attempt, failed,
                 restarts>>

-------------------------------------------------------------------------------
(* cgiWiFiConnect()                                                        *)
CgiWiFiConnect(network) ==
  /\ stconf' = network
  /\ reassTimer' = TRUE
  /\ UNCHANGED <<opmode, station, connTryStatus, lookTimer, attempt, failed, restarts>>

(* reassTimerCb(): as a station only, nobody looks after the attempt.      *)
ReassTimerCbKeepsTimer ==
  /\ reassTimer
  /\ attempt < MaxAttempts
  /\ reassTimer' = FALSE
  /\ station' = [network |-> stconf, ip |-> FALSE]
  /\ connTryStatus' = "working"
  /\ attempt' = attempt + 1
  /\ lookTimer' = IF opmode # 1 /\ lookTimer = 0 THEN attempt + 1 ELSE lookTimer
  /\ UNCHANGED <<opmode, stconf, failed, restarts>>

ReassTimerCb ==
  /\ reassTimer
  /\ attempt < MaxAttempts
  /\ reassTimer' = FALSE
  /\ station' = [network |-> stconf, ip |-> FALSE]
  /\ connTryStatus' = "working"
  /\ attempt' = attempt + 1
  /\ lookTimer' = IF opmode # 1 THEN attempt + 1 ELSE lookTimer
  /\ UNCHANGED <<opmode, stconf, failed, restarts>>

(* system_restart(): what is not in the SDK's flash is lost; the station   *)
(* joins its network again.                                                *)
SystemRestart(mode) ==
  /\ restarts < MaxRestarts
  /\ restarts' = restarts + 1
  /\ opmode' = mode
  /\ stconf' = 0 /\ connTryStatus' = "idle"
  /\ reassTimer' = FALSE /\ lookTimer' = 0
  /\ station' = [station EXCEPT !.ip = FALSE]
  /\ UNCHANGED <<attempt, failed>>

(* resetTimerCb()                                                          *)
StaysStation == lookTimer # 0 /\ station.ip /\ SystemRestart(1)

GivesUp ==
  /\ lookTimer # 0 /\ ~station.ip
  /\ connTryStatus' = "fail"
  /\ failed' = lookTimer
  /\ lookTimer' = 0
  /\ UNCHANGED <<opmode, stconf, station, reassTimer, attempt, restarts>>

(* cgiWiFiConnStatus(): an answer "success" looks again in a second.       *)
CgiWiFiConnStatus ==
  /\ lookTimer' = IF connTryStatus = "working" /\ station.ip THEN attempt ELSE lookTimer
  /\ UNCHANGED <<opmode, stconf, station, connTryStatus, reassTimer, attempt, failed, restarts>>

(* cgiWiFiSetMode()                                                        *)
CgiWiFiSetMode(mode) == SystemRestart(mode)

(* The network, which may go away again.                                   *)
StationIp(ip) ==
  /\ station.network # 0 /\ opmode # 2
  /\ station' = [station EXCEPT !.ip = ip]
  /\ UNCHANGED <<opmode, stconf, connTryStatus, reassTimer, lookTimer, attempt, failed, restarts>>

WifiConnectInit ==
  /\ opmode \in 1..3
  /\ stconf = 0
  /\ station = [network |-> 0, ip |-> FALSE]
  /\ connTryStatus = "idle"
  /\ reassTimer = FALSE
  /\ lookTimer = 0
  /\ attempt = 0 /\ failed = 0 /\ restarts = 0

WifiConnectNext ==
  \/ \E network \in Networks : CgiWiFiConnect(network)
  \/ ReassTimerCb
  \/ StaysStation
  \/ GivesUp
  \/ CgiWiFiConnStatus
  \/ \E mode \in 1..3 : CgiWiFiSetMode(mode)
  \/ \E ip \in BOOLEAN : StationIp(ip)

WifiConnectSpec == WifiConnectInit /\ [][WifiConnectNext]_connectVars

-------------------------------------------------------------------------------
(* What a browser is told of the joining is about the last attempt: unless *)
(* the device is a station only, a failure is reported only for the        *)
(* attempt that failed, however the attempts, the timers and the questions *)
(* of browsers interleave.  (As a station only, the timer that a question  *)
(* armed for one attempt may end the next.)                                *)
FailureIsOfThisAttempt ==
  connTryStatus = "fail" /\ opmode # 1 => failed = attempt

(* An attempt under way is looked after, unless the device is a station    *)
(* only: it will be known to have failed, or the device becomes a station. *)
AttemptIsLookedAfter ==
  connTryStatus = "working" /\ opmode # 1 => lookTimer = attempt

(* An attempt to join a network ends with a verdict, and with its own: the *)
(* two timers of cgiwifi.c are never those of an earlier attempt.          *)
AttemptsResolved == FailureIsOfThisAttempt /\ AttemptIsLookedAfter
===============================================================================
