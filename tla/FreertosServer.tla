----------------------------- MODULE FreertosServer -----------------------------
(***************************************************************************)
(* The sockets under the web server in a build with FreeRTOS               *)
(* (libesphttpd/core/httpd-freertos.c): one task waits in select() for all *)
(* connections and calls the server, and the server, or a task of the      *)
(* application, sends through the same table of connections.  Firmware for *)
(* the ESP8266 SDK is built with httpd-nonos.c instead.                    *)
(*                                                                         *)
(* The server above is what HttpConnection models in detail.  Here it may  *)
(* do anything in a callback that it does there: send, close or nothing.   *)
(***************************************************************************)
EXTENDS Integers, Sequences, FiniteSets

CONSTANTS
  RtosSlots,      \* places in rconn
  MaxSockets,     \* bound: connections that clients make
  OtherTasksSend  \* does a task of the application send, too?

ASSUME SlotsAssumption == RtosSlots # {} /\ RtosSlots \subseteq Nat /\ OtherTasksSend \in BOOLEAN

NOFD == -1   \* rconn[x].fd of an empty place
LISTEN == 0  \* the listening socket

VARIABLES
  rconn,      \* [fd, needWriteDoneNotif, needsClose] of every place
  at,         \* where the task is: "prepare", "select", "accept"; "write" or "read"
              \* for a place
  readset,    \* sockets select() waits for or reports
  writeset,
  backlog,    \* connections that wait to be accepted
  open,       \* sockets that are accepted and not closed
  awaits      \* history: for every socket so far, who waits to be told that what
              \* it sent has left: "nobody", the "server" or an "other" task

rtosVars == <<rconn, at, readset, writeset, backlog, open, awaits>>

Place(fd) == {x \in RtosSlots : rconn[x].fd = fd}
Used == {rconn[x].fd : x \in RtosSlots} \ {NOFD}
Empty == Place(NOFD)
First(S) == CHOOSE x \in S : \A y \in S : x <= y

At(step, x) == [step |-> step, slot |-> x]
After(x) ==
  IF \E y \in RtosSlots : y > x THEN At("write", First({y \in RtosSlots : y > x}))
  ELSE At("prepare", 0)

-------------------------------------------------------------------------------
(* What the server does in a callback for place x of table r:              *)
(* httpdPlatSendData(), httpdPlatDisconnect() or neither.                  *)
HttpdPlatSendData(r, x) == [r EXCEPT ![x].needWriteDoneNotif = TRUE]
HttpdPlatDisconnect(r, x) == [r EXCEPT ![x].needsClose = TRUE, ![x].needWriteDoneNotif = TRUE]

Reactions == {"send", "close", "nothing"}

Reacted(r, x, reaction) ==
  CASE reaction = "send" -> HttpdPlatSendData(r, x)
    [] reaction = "close" -> HttpdPlatDisconnect(r, x)
    [] reaction = "nothing" -> r

Awaiting(fd, waiting, reaction) ==
  IF reaction = "nothing" THEN waiting ELSE [waiting EXCEPT ![fd] = "server"]

ServerReacts(r, x, waiting) ==
  \E reaction \in Reactions :
    /\ rconn' = Reacted(r, x, reaction)
    /\ awaits' = Awaiting(r[x].fd, waiting, reaction)

(* httpdDisconCb() and close()                                             *)
Close(x) ==
  /\ rconn' = [rconn EXCEPT ![x].fd = NOFD]
  /\ open' = open \ {rconn[x].fd}
  /\ awaits' = [awaits EXCEPT ![rconn[x].fd] = "nobody"]

-------------------------------------------------------------------------------
(* The loop: what to wait for.                                             *)
Prepare ==
  /\ at.step = "prepare"
  /\ readset' = Used \cup (IF Empty = {} THEN {} ELSE {LISTEN})
  /\ writeset' = {rconn[x].fd : x \in {y \in RtosSlots : rconn[y].fd # NOFD /\ rconn[y].needWriteDoneNotif}}
  /\ at' = At("select", 0)
  /\ UNCHANGED <<rconn, backlog, open, awaits>>

(* select() returns some of the sockets; any may be readable, because data *)
(* or the end of the connection came in, or writable.                      *)
Select ==
  /\ at.step = "select"
  /\ \E r \in SUBSET (readset \ {LISTEN}), w \in SUBSET writeset, new \in BOOLEAN :
       /\ new => LISTEN \in readset /\ backlog > 0
       /\ r \cup w # {} \/ new
       /\ readset' = r \cup (IF new THEN {LISTEN} ELSE {})
       /\ writeset' = w
       /\ at' = IF new THEN At("accept", 0) ELSE At("write", First(RtosSlots))
  /\ UNCHANGED <<rconn, backlog, open, awaits>>

(* accept() fails, or the first empty place is used; without one the      *)
(* socket is forgotten ("Huh? Got accept with all slots full").            *)
AcceptFails ==
  /\ at.step = "accept"
  /\ backlog' = backlog - 1
  /\ at' = At("prepare", 0)
  /\ UNCHANGED <<rconn, readset, writeset, open, awaits>>

Accept ==
  /\ at.step = "accept"
  /\ backlog' = backlog - 1
  /\ LET fd == Len(awaits) + 1
         x == First(Empty)
         place == [fd |-> fd, needWriteDoneNotif |-> FALSE, needsClose |-> FALSE]
         waiting == Append(awaits, "nobody")
     IN  /\ open' = open \cup {fd}
         /\ IF Empty = {}
              THEN rconn' = rconn /\ awaits' = waiting /\ at' = At("prepare", 0)
              ELSE /\ ServerReacts([rconn EXCEPT ![x] = place], x, waiting)
                   /\ at' = At("write", First(RtosSlots))
  /\ UNCHANGED <<readset, writeset>>

(* Place x, first half: a socket that is wanted and is writable.           *)
Writable(x) == rconn[x].fd # NOFD /\ rconn[x].needWriteDoneNotif /\ rconn[x].fd \in writeset

SkipEmpty(x) ==
  /\ at = At("write", x)
  /\ rconn[x].fd = NOFD
  /\ at' = After(x)
  /\ UNCHANGED <<rconn, readset, writeset, backlog, open, awaits>>

SkipUnwritable(x) ==
  /\ at = At("write", x)
  /\ rconn[x].fd # NOFD /\ ~Writable(x)
  /\ at' = At("read", x)
  /\ UNCHANGED <<rconn, readset, writeset, backlog, open, awaits>>

CloseWritable(x) ==
  /\ at = At("write", x)
  /\ Writable(x) /\ rconn[x].needsClose
  /\ Close(x)
  /\ at' = At("read", x)
  /\ UNCHANGED <<readset, writeset, backlog>>

Cleared(r, x) == [r EXCEPT ![x].needWriteDoneNotif = FALSE]

WriteDoneClearsAfter(x) ==
  /\ at = At("write", x)
  /\ Writable(x) /\ ~rconn[x].needsClose
  /\ \E reaction \in Reactions :
       /\ rconn' = Cleared(Reacted(rconn, x, reaction), x)
       /\ awaits' = Awaiting(rconn[x].fd, [awaits EXCEPT ![rconn[x].fd] = "nobody"], reaction)
  /\ at' = At("read", x)
  /\ UNCHANGED <<readset, writeset, backlog, open>>

WriteDone(x) ==
  /\ at = At("write", x)
  /\ Writable(x) /\ ~rconn[x].needsClose
  /\ ServerReacts(Cleared(rconn, x), x, [awaits EXCEPT ![rconn[x].fd] = "nobody"])
  /\ at' = At("read", x)
  /\ UNCHANGED <<readset, writeset, backlog, open>>

(* Second half: data that came in.  For a place closed a moment ago the    *)
(* set is asked for descriptor -1: if it seems to be readable, recv()      *)
(* fails and the server is told of an end it already knows.                *)
SkipUnreadable(x) ==
  /\ at = At("read", x)
  /\ rconn[x].fd \notin readset
  /\ at' = After(x)
  /\ UNCHANGED <<rconn, readset, writeset, backlog, open, awaits>>

ReadData(x) ==
  /\ at = At("read", x)
  /\ rconn[x].fd \in readset
  /\ ServerReacts(rconn, x, awaits)
  /\ at' = After(x)
  /\ UNCHANGED <<readset, writeset, backlog, open>>

(* The connection ended, or there is no memory for a buffer.               *)
RecvFails(x) ==
  /\ at = At("read", x)
  /\ rconn[x].fd \in readset
  /\ Close(x)
  /\ at' = After(x)
  /\ UNCHANGED <<readset, writeset, backlog>>

-------------------------------------------------------------------------------
(* Around the task: clients, and tasks of the application.                 *)
ClientConnects ==
  /\ backlog + Len(awaits) < MaxSockets
  /\ backlog' = backlog + 1
  /\ UNCHANGED <<rconn, at, readset, writeset, open, awaits>>

OtherTaskSends(x) ==
  /\ OtherTasksSend
  /\ rconn[x].fd # NOFD
  /\ rconn' = HttpdPlatSendData(rconn, x)
  /\ awaits' = [awaits EXCEPT ![rconn[x].fd] = IF @ = "server" THEN @ ELSE "other"]
  /\ UNCHANGED <<at, readset, writeset, backlog, open>>

RtosInit ==
  /\ rconn = [x \in RtosSlots |-> [fd |-> NOFD, needWriteDoneNotif |-> FALSE, needsClose |-> FALSE]]
  /\ at = At("prepare", 0)
  /\ readset = {} /\ writeset = {}
  /\ backlog = 0
  /\ open = {}
  /\ awaits = <<>>

RtosNext ==
  \/ Prepare \/ Select \/ Accept \/ AcceptFails \/ ClientConnects
  \/ \E x \in RtosSlots :
       \/ SkipEmpty(x) \/ SkipUnwritable(x) \/ CloseWritable(x) \/ WriteDone(x)
       \/ SkipUnreadable(x) \/ ReadData(x) \/ RecvFails(x)
       \/ OtherTaskSends(x)

RtosSpec == RtosInit /\ [][RtosNext]_rtosVars

-------------------------------------------------------------------------------
(* While the task sleeps in select(), it waits for every connection on     *)
(* which the server sent or which it wants closed, whatever callbacks came *)
(* in which order: no sent callback is lost.  (Only a send of another task *)
(* while it sleeps goes unnoticed until something else wakes it.)          *)
SentIsWatched ==
  at.step = "select" =>
    \A fd \in open : awaits[fd] = "server" => fd \in writeset

(* Every socket that was accepted and not closed has exactly one place in  *)
(* the table: none is forgotten, and the sets name no closed socket when   *)
(* the task goes to sleep.                                                 *)
SocketsHavePlaces ==
  /\ \A fd \in open : Cardinality(Place(fd)) = 1
  /\ Used \subseteq open
  /\ at.step = "select" => (readset \cup writeset) \ {LISTEN} \subseteq open

(* The loop of platHttpServerTask() serves every socket it has accepted:   *)
(* each has one place in rconn[], and what was sent is followed by the     *)
(* callback.                                                               *)
SocketsServed == SentIsWatched /\ SocketsHavePlaces
===============================================================================
