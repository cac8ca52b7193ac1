----------------------------- MODULE FreertosProofs -----------------------------
(***************************************************************************)
(* Proofs about the sockets of the web server under FreeRTOS, for any      *)
(* number of places and of connections.                                    *)
(***************************************************************************)
EXTENDS FreertosServer, FiniteSetTheorems, WellFoundedInduction, TLAPS

Waiters == {"nobody", "server", "other"}
RconnType == [fd : {NOFD} \cup Nat, needWriteDoneNotif : BOOLEAN, needsClose : BOOLEAN]

RtosTypeOK ==
  /\ rconn \in [RtosSlots -> RconnType]
  /\ readset \subseteq Nat /\ writeset \subseteq Nat
  /\ awaits \in Seq(Waiters)
  /\ open \subseteq 1..Len(awaits)

(* Places and open sockets belong to each other, one to one.               *)
OnePlaceEach ==
  /\ \A x \in RtosSlots : rconn[x].fd = NOFD \/ rconn[x].fd \in open
  /\ \A x, y \in RtosSlots : rconn[x].fd = rconn[y].fd => x = y \/ rconn[x].fd = NOFD
  /\ \A fd \in open : \E x \in RtosSlots : rconn[x].fd = fd

(* A socket on which the server waits is marked in its place.              *)
WaitingIsMarked ==
  \A x \in RtosSlots :
    rconn[x].fd # NOFD /\ awaits[rconn[x].fd] = "server" => rconn[x].needWriteDoneNotif

(* The task waits for and accepts a connection only with a place for it.   *)
RoomToAccept ==
  /\ at.step = "select" /\ LISTEN \in readset => Empty # {}
  /\ at.step = "accept" => Empty # {}

NoStaleSockets ==
  at.step = "select" => (readset \cup writeset) \ {LISTEN} \subseteq open

RtosIInv ==
  RtosTypeOK /\ OnePlaceEach /\ WaitingIsMarked /\ RoomToAccept /\ NoStaleSockets /\ SentIsWatched

-------------------------------------------------------------------------------
(* A set of natural numbers that is not empty has a first element.         *)
LEMMA FirstExists ==
  ASSUME NEW S, S \subseteq Nat, S # {}
  PROVE  First(S) \in S
<1> DEFINE R == OpToRel(<, Nat)
<1>1. \E x \in S : \A y \in S : <<y, x>> \notin R
  <2>1. IsWellFoundedOn(R, Nat)
    BY NatLessThanWellFounded
  <2> HIDE DEF R
  <2> QED
    BY <2>1, WFMin
<1>2. \A x, y \in Nat : <<y, x>> \in R <=> y < x
  BY DEF OpToRel
<1>3. \E x \in S : \A y \in S : x <= y
  <2>1. PICK x \in S : \A y \in S : <<y, x>> \notin R
    BY <1>1
  <2>2. \A y \in S : ~(y < x)
    BY <1>2, <2>1
  <2> QED
    BY <2>2
<1> QED
  BY <1>3 DEF First

(* What the server does in a callback marks the place it waits for.        *)
LEMMA Reaction ==
  ASSUME NEW r \in [RtosSlots -> RconnType], NEW x \in RtosSlots,
         NEW waiting \in Seq(Waiters), r[x].fd \in 1..Len(waiting),
         ServerReacts(r, x, waiting),
         waiting[r[x].fd] = "server" => r[x].needWriteDoneNotif
  PROVE  /\ rconn' \in [RtosSlots -> RconnType]
         /\ \A y \in RtosSlots : rconn'[y].fd = r[y].fd
         /\ \A y \in RtosSlots \ {x} : rconn'[y] = r[y]
         /\ awaits' \in Seq(Waiters) /\ Len(awaits') = Len(waiting)
         /\ \A fd \in 1..Len(waiting) \ {r[x].fd} : awaits'[fd] = waiting[fd]
         /\ awaits'[r[x].fd] = "server" => rconn'[x].needWriteDoneNotif
<1>1. PICK reaction \in Reactions :
         rconn' = Reacted(r, x, reaction) /\ awaits' = Awaiting(r[x].fd, waiting, reaction)
  BY DEF ServerReacts
<1>2. CASE reaction = "nothing"
  BY <1>1, <1>2 DEF Reacted, Awaiting
<1>3. CASE reaction \in {"send", "close"}
  <2>1. /\ rconn' \in [RtosSlots -> RconnType]
        /\ \A y \in RtosSlots : rconn'[y].fd = r[y].fd
        /\ \A y \in RtosSlots \ {x} : rconn'[y] = r[y]
        /\ rconn'[x].needWriteDoneNotif
    BY <1>1, <1>3 DEF Reacted, HttpdPlatSendData, HttpdPlatDisconnect, RconnType
  <2>2. awaits' = [waiting EXCEPT ![r[x].fd] = "server"]
    BY <1>1, <1>3 DEF Awaiting
  <2> QED
    BY <2>1, <2>2 DEF Waiters
<1> QED
  BY <1>1, <1>2, <1>3 DEF Reactions

(* The step of a place of the loop.                                        *)
LEMMA AtFields ==
  /\ \A step, x : At(step, x).step = step
  /\ \A x : After(x).step \in {"write", "prepare"}
BY DEF At, After

LEMMA RtosInitial == RtosInit => RtosIInv
<1> SUFFICES ASSUME RtosInit PROVE RtosIInv
  OBVIOUS
<1>1. \A x \in RtosSlots : rconn[x].fd = NOFD
  BY DEF RtosInit
<1>2. RtosTypeOK
  BY DEF RtosInit, RtosTypeOK, RconnType
<1>3. OnePlaceEach /\ WaitingIsMarked
  BY <1>1 DEF RtosInit, OnePlaceEach, WaitingIsMarked
<1>4. at.step = "prepare"
  BY AtFields DEF RtosInit
<1> QED
  BY <1>2, <1>3, <1>4 DEF RtosIInv, RoomToAccept, NoStaleSockets, SentIsWatched

LEMMA RtosStep == RtosIInv /\ [RtosNext]_rtosVars => RtosIInv'
<1> SUFFICES ASSUME RtosIInv, [RtosNext]_rtosVars PROVE RtosIInv'
  OBVIOUS
<1> USE DEF RtosIInv
<1>t. /\ rconn \in [RtosSlots -> RconnType]
      /\ readset \subseteq Nat /\ writeset \subseteq Nat
      /\ awaits \in Seq(Waiters) /\ Len(awaits) \in Nat
      /\ open \subseteq 1..Len(awaits)
  BY DEF RtosTypeOK
<1>f. \A x \in RtosSlots : rconn[x].fd = NOFD \/ rconn[x].fd \in 1..Len(awaits)
  BY <1>t DEF OnePlaceEach
<1> DEFINE Awake == at.step \notin {"select", "accept"}
<1>a. Awake' => RoomToAccept' /\ NoStaleSockets' /\ SentIsWatched'
  BY DEF RoomToAccept, NoStaleSockets, SentIsWatched
<1>k. UNCHANGED <<rconn, open, awaits>> => OnePlaceEach' /\ WaitingIsMarked'
  BY DEF OnePlaceEach, WaitingIsMarked
(* A callback for a place in use changes no socket.                        *)
<1>r. ASSUME NEW x \in RtosSlots, rconn[x].fd \in open,
             NEW r \in [RtosSlots -> RconnType], NEW waiting \in Seq(Waiters),
             \A y \in RtosSlots : r[y].fd = rconn[y].fd,
             \A y \in RtosSlots \ {x} : r[y] = rconn[y],
             Len(waiting) = Len(awaits),
             \A fd \in 1..Len(awaits) \ {rconn[x].fd} : waiting[fd] = awaits[fd],
             waiting[rconn[x].fd] = "server" => r[x].needWriteDoneNotif,
             ServerReacts(r, x, waiting), UNCHANGED <<readset, writeset, open>>
      PROVE  RtosTypeOK' /\ OnePlaceEach' /\ WaitingIsMarked'
  <2>1. /\ rconn' \in [RtosSlots -> RconnType]
        /\ \A y \in RtosSlots : rconn'[y].fd = rconn[y].fd
        /\ \A y \in RtosSlots \ {x} : rconn'[y] = rconn[y]
        /\ awaits' \in Seq(Waiters) /\ Len(awaits') = Len(awaits)
        /\ \A fd \in 1..Len(awaits) \ {rconn[x].fd} : awaits'[fd] = awaits[fd]
        /\ awaits'[rconn[x].fd] = "server" => rconn'[x].needWriteDoneNotif
    <3>1. r[x].fd = rconn[x].fd /\ r[x].fd \in 1..Len(waiting)
      BY <1>t, <1>r
    <3>2. waiting[r[x].fd] = "server" => r[x].needWriteDoneNotif
      BY <1>r, <3>1
    <3>3. /\ rconn' \in [RtosSlots -> RconnType]
          /\ \A y \in RtosSlots : rconn'[y].fd = r[y].fd
          /\ \A y \in RtosSlots \ {x} : rconn'[y] = r[y]
          /\ awaits' \in Seq(Waiters) /\ Len(awaits') = Len(waiting)
          /\ \A fd \in 1..Len(waiting) \ {r[x].fd} : awaits'[fd] = waiting[fd]
          /\ awaits'[r[x].fd] = "server" => rconn'[x].needWriteDoneNotif
      BY <1>r, <3>1, <3>2, Reaction
    <3> QED
      BY <1>r, <3>1, <3>3
  <2>2. RtosTypeOK'
    BY <1>t, <1>r, <2>1 DEF RtosTypeOK
  <2>3. OnePlaceEach'
    BY <1>r, <2>1 DEF OnePlaceEach
  <2>4. ASSUME NEW y \in RtosSlots, rconn'[y].fd # NOFD, awaits'[rconn'[y].fd] = "server"
        PROVE  rconn'[y].needWriteDoneNotif
    <3>1. CASE y = x
      BY <2>1, <2>4, <3>1
    <3>2. CASE y # x
      <4>1. rconn[y].fd \in 1..Len(awaits) \ {rconn[x].fd}
        BY <1>f, <1>r, <2>1, <2>4, <3>2 DEF OnePlaceEach
      <4> QED
        BY <2>1, <2>4, <3>2, <4>1 DEF WaitingIsMarked
    <3> QED
      BY <3>1, <3>2
  <2> QED
    BY <2>2, <2>3, <2>4 DEF WaitingIsMarked
(* Closing the socket of a place empties the place.                        *)
<1>c. ASSUME NEW x \in RtosSlots, rconn[x].fd # NOFD, Close(x), UNCHANGED <<readset, writeset>>
      PROVE  RtosTypeOK' /\ OnePlaceEach' /\ WaitingIsMarked'
  <2>1. /\ rconn' \in [RtosSlots -> RconnType]
        /\ rconn'[x].fd = NOFD
        /\ \A y \in RtosSlots \ {x} : rconn'[y] = rconn[y]
    BY <1>t, <1>c DEF Close, RconnType
  <2>2. /\ awaits' \in Seq(Waiters) /\ Len(awaits') = Len(awaits)
        /\ \A fd \in 1..Len(awaits) \ {rconn[x].fd} : awaits'[fd] = awaits[fd]
    BY <1>t, <1>f, <1>c DEF Close, Waiters
  <2>3. open' = open \ {rconn[x].fd}
    BY <1>c DEF Close
  <2>4. RtosTypeOK'
    BY <1>t, <1>c, <2>1, <2>2, <2>3 DEF RtosTypeOK
  <2>5. \A y \in RtosSlots \ {x} : rconn[y].fd # NOFD => rconn[y].fd # rconn[x].fd
    BY <1>c DEF OnePlaceEach
  <2>6. OnePlaceEach'
    BY <1>c, <2>1, <2>3, <2>5 DEF OnePlaceEach
  <2>7. WaitingIsMarked'
    BY <1>f, <2>1, <2>2, <2>5 DEF WaitingIsMarked
  <2> QED
    BY <2>4, <2>6, <2>7
<1>1. CASE Prepare
  <2>1. RtosTypeOK' /\ OnePlaceEach' /\ WaitingIsMarked'
    BY <1>1, <1>t, <1>f, <1>k DEF Prepare, RtosTypeOK, Used, LISTEN
  <2>2. at'.step = "select"
    BY <1>1, AtFields DEF Prepare
  <2>3. RoomToAccept'
    BY <1>1, <1>f, <2>2 DEF Prepare, RoomToAccept, Used, LISTEN, Empty, Place, NOFD
  <2>4. NoStaleSockets'
    BY <1>1, <2>2 DEF Prepare, NoStaleSockets, Used, OnePlaceEach
  <2>5. SentIsWatched'
    BY <1>1, <1>t, <2>2 DEF Prepare, SentIsWatched, OnePlaceEach, WaitingIsMarked, NOFD
  <2> QED
    BY <2>1, <2>3, <2>4, <2>5
<1>2. CASE Select
  <2>1. PICK r \in SUBSET (readset \ {LISTEN}), w \in SUBSET writeset, new \in BOOLEAN :
          /\ new => LISTEN \in readset
          /\ readset' = r \cup (IF new THEN {LISTEN} ELSE {})
          /\ writeset' = w
          /\ at' = IF new THEN At("accept", 0) ELSE At("write", First(RtosSlots))
    BY <1>2 DEF Select
  <2>2. RtosTypeOK' /\ OnePlaceEach' /\ WaitingIsMarked'
    BY <1>2, <1>t, <1>k, <2>1 DEF Select, RtosTypeOK, LISTEN
  <2>3. at'.step # "select" /\ (at'.step = "accept" => Empty # {})
    BY <1>2, <2>1, AtFields DEF Select, RoomToAccept
  <2>4. Empty' = Empty
    BY <1>2 DEF Select, Empty, Place
  <2> QED
    BY <2>2, <2>3, <2>4 DEF RoomToAccept, NoStaleSockets, SentIsWatched
<1>3. CASE AcceptFails
  <2>1. RtosTypeOK' /\ OnePlaceEach' /\ WaitingIsMarked'
    BY <1>3, <1>t, <1>k DEF AcceptFails, RtosTypeOK
  <2> QED
    BY <1>3, <1>a, <2>1, AtFields DEF AcceptFails
<1>4. CASE Accept
  <2> DEFINE fd == Len(awaits) + 1
             x == First(Empty)
             place == [fd |-> fd, needWriteDoneNotif |-> FALSE, needsClose |-> FALSE]
             r == [rconn EXCEPT ![x] = place]
             waiting == Append(awaits, "nobody")
  <2>1. Empty # {}
    BY <1>4 DEF Accept, RoomToAccept
  <2>2. x \in RtosSlots /\ rconn[x].fd = NOFD
    BY <2>1, FirstExists, SlotsAssumption DEF Empty, Place
  <2>3. ServerReacts(r, x, waiting) /\ at' = At("write", First(RtosSlots))
        /\ open' = open \cup {fd} /\ UNCHANGED <<readset, writeset>>
    BY <1>4, <2>1 DEF Accept
  <2>4. /\ r \in [RtosSlots -> RconnType] /\ r[x] = place
        /\ \A y \in RtosSlots \ {x} : r[y] = rconn[y]
    BY <1>t, <2>2 DEF RconnType
  <2>5. /\ waiting \in Seq(Waiters) /\ Len(waiting) = fd
        /\ waiting[fd] = "nobody" /\ \A k \in 1..Len(awaits) : waiting[k] = awaits[k]
    BY <1>t DEF Waiters
  <2>6. r[x].fd = fd /\ fd \in 1..Len(waiting)
    BY <1>t, <2>4, <2>5
  <2> HIDE DEF r, waiting, fd, x
  <2>7. /\ rconn' \in [RtosSlots -> RconnType]
        /\ \A y \in RtosSlots : rconn'[y].fd = r[y].fd
        /\ \A y \in RtosSlots \ {x} : rconn'[y] = r[y]
        /\ awaits' \in Seq(Waiters) /\ Len(awaits') = Len(waiting)
        /\ \A k \in 1..Len(waiting) \ {fd} : awaits'[k] = waiting[k]
        /\ awaits'[fd] = "server" => rconn'[x].needWriteDoneNotif
    <3>1. waiting[r[x].fd] = "server" => r[x].needWriteDoneNotif
      BY <2>5, <2>6
    <3>2. /\ rconn' \in [RtosSlots -> RconnType]
          /\ \A y \in RtosSlots : rconn'[y].fd = r[y].fd
          /\ \A y \in RtosSlots \ {x} : rconn'[y] = r[y]
          /\ awaits' \in Seq(Waiters) /\ Len(awaits') = Len(waiting)
          /\ \A k \in 1..Len(waiting) \ {r[x].fd} : awaits'[k] = waiting[k]
          /\ awaits'[r[x].fd] = "server" => rconn'[x].needWriteDoneNotif
      BY <2>2, <2>3, <2>4, <2>5, <2>6, <3>1, Reaction
    <3> QED
      BY <2>6, <3>2
  <2>8. fd = Len(awaits) + 1 /\ Len(awaits') = fd /\ fd \in Nat
    BY <1>t, <2>5, <2>7 DEF fd
  <2>12. open' = open \cup {fd}
    BY <2>3
  <2>9. RtosTypeOK'
    <3>2. \A k \in open : k \in 1..fd
      BY <1>t, <2>8
    <3>3. fd \in 1..fd
      BY <2>8
    <3>1. open' \subseteq 1..Len(awaits')
      BY <2>8, <2>12, <3>2, <3>3
    <3> QED
      BY <1>t, <2>3, <2>7, <3>1 DEF RtosTypeOK
  <2>13. rconn'[x].fd = fd /\ \A y \in RtosSlots \ {x} : rconn'[y].fd = rconn[y].fd
    BY <2>2, <2>4, <2>6, <2>7
  <2>14. fd \notin open /\ \A y \in RtosSlots : rconn[y].fd # fd
    BY <1>t, <1>f, <2>8 DEF NOFD
  <2>10. OnePlaceEach'
    <3>1. \A y \in RtosSlots : rconn'[y].fd = NOFD \/ rconn'[y].fd \in open'
      BY <2>12, <2>13 DEF OnePlaceEach
    <3>2. \A y, z \in RtosSlots : rconn'[y].fd = rconn'[z].fd => y = z \/ rconn'[y].fd = NOFD
      BY <2>13, <2>14 DEF OnePlaceEach
    <3>3. \A k \in open : \E y \in RtosSlots \ {x} : rconn[y].fd = k
      BY <1>t, <2>2 DEF OnePlaceEach, NOFD
    <3>4. \A k \in open' : \E y \in RtosSlots : rconn'[y].fd = k
      BY <2>2, <2>12, <2>13, <3>3
    <3> QED
      BY <3>1, <3>2, <3>4 DEF OnePlaceEach
  <2>11. WaitingIsMarked'
    BY <1>t, <1>f, <2>2, <2>4, <2>5, <2>6, <2>7, <2>8 DEF WaitingIsMarked
  <2> QED
    BY <1>a, <2>3, <2>9, <2>10, <2>11, AtFields
<1>5. CASE ClientConnects
  BY <1>5, <1>t, <1>k DEF ClientConnects, RtosTypeOK, RoomToAccept, NoStaleSockets, SentIsWatched,
     Empty, Place
<1>6. ASSUME NEW x \in RtosSlots, SkipEmpty(x) \/ SkipUnwritable(x) \/ SkipUnreadable(x)
      PROVE  RtosIInv'
  <2>1. UNCHANGED <<rconn, readset, writeset, open, awaits>> /\ Awake'
    BY <1>6, AtFields DEF SkipEmpty, SkipUnwritable, SkipUnreadable
  <2>2. RtosTypeOK'
    BY <1>t, <2>1 DEF RtosTypeOK
  <2> QED
    BY <1>a, <1>k, <2>1, <2>2
<1>7. ASSUME NEW x \in RtosSlots, CloseWritable(x) \/ RecvFails(x)
      PROVE  RtosIInv'
  <2>1. rconn[x].fd # NOFD
    BY <1>7, <1>t DEF CloseWritable, RecvFails, Writable, NOFD
  <2>2. Close(x) /\ UNCHANGED <<readset, writeset>> /\ Awake'
    BY <1>7, AtFields DEF CloseWritable, RecvFails
  <2> QED
    BY <1>a, <1>c, <2>1, <2>2
<1>8. ASSUME NEW x \in RtosSlots, WriteDone(x)
      PROVE  RtosIInv'
  <2> DEFINE r == Cleared(rconn, x)
             waiting == [awaits EXCEPT ![rconn[x].fd] = "nobody"]
  <2>1. rconn[x].fd \in open
    BY <1>8 DEF WriteDone, Writable, OnePlaceEach
  <2>2. /\ r \in [RtosSlots -> RconnType]
        /\ \A y \in RtosSlots : r[y].fd = rconn[y].fd
        /\ \A y \in RtosSlots \ {x} : r[y] = rconn[y]
    BY <1>t DEF Cleared, RconnType
  <2>3. /\ waiting \in Seq(Waiters) /\ Len(waiting) = Len(awaits)
        /\ \A fd \in 1..Len(awaits) \ {rconn[x].fd} : waiting[fd] = awaits[fd]
        /\ waiting[rconn[x].fd] = "nobody"
    <3>1. rconn[x].fd \in 1..Len(awaits)
      BY <1>t, <2>1
    <3>2. \A k \in 1..Len(awaits) :
            LET w == [awaits EXCEPT ![k] = "nobody"]
            IN  /\ w \in Seq(Waiters) /\ Len(w) = Len(awaits) /\ w[k] = "nobody"
                /\ \A fd \in 1..Len(awaits) \ {k} : w[fd] = awaits[fd]
      BY <1>t DEF Waiters
    <3> QED
      BY <3>1, <3>2
  <2>4. ServerReacts(r, x, waiting) /\ UNCHANGED <<readset, writeset, open>> /\ Awake'
    BY <1>8, AtFields DEF WriteDone
  <2>5. waiting[rconn[x].fd] = "server" => r[x].needWriteDoneNotif
    BY <2>3
  <2> HIDE DEF r, waiting
  <2>6. RtosTypeOK' /\ OnePlaceEach' /\ WaitingIsMarked'
    BY <1>r, <2>1, <2>2, <2>3, <2>4, <2>5
  <2> QED
    BY <1>a, <2>4, <2>6
<1>9. ASSUME NEW x \in RtosSlots, ReadData(x)
      PROVE  RtosIInv'
  <2>1. rconn[x].fd \in open /\ rconn[x].fd # NOFD
    BY <1>9, <1>t DEF ReadData, OnePlaceEach, NOFD
  <2>2. awaits[rconn[x].fd] = "server" => rconn[x].needWriteDoneNotif
    BY <2>1 DEF WaitingIsMarked
  <2>3. ServerReacts(rconn, x, awaits) /\ UNCHANGED <<readset, writeset, open>> /\ Awake'
    BY <1>9, AtFields DEF ReadData
  <2> QED
    BY <1>a, <1>r, <1>t, <2>1, <2>2, <2>3
<1>10. ASSUME NEW x \in RtosSlots, OtherTaskSends(x)
       PROVE  RtosIInv'
  <2>1. rconn[x].fd \in open
    BY <1>10 DEF OtherTaskSends, OnePlaceEach
  <2>2. /\ rconn' \in [RtosSlots -> RconnType]
        /\ \A y \in RtosSlots : rconn'[y].fd = rconn[y].fd
        /\ \A y \in RtosSlots : rconn[y].needWriteDoneNotif => rconn'[y].needWriteDoneNotif
    BY <1>10, <1>t DEF OtherTaskSends, HttpdPlatSendData, RconnType
  <2>3. /\ awaits' \in Seq(Waiters) /\ Len(awaits') = Len(awaits)
        /\ \A fd \in 1..Len(awaits) : awaits'[fd] = "server" => awaits[fd] = "server"
    BY <1>10, <1>t, <2>1 DEF OtherTaskSends, Waiters
  <2>4. UNCHANGED <<at, readset, writeset, open>>
    BY <1>10 DEF OtherTaskSends
  <2>8. RtosTypeOK'
    BY <1>t, <2>2, <2>3, <2>4 DEF RtosTypeOK
  <2>9. OnePlaceEach'
    BY <2>2, <2>4 DEF OnePlaceEach
  <2>10. WaitingIsMarked'
    BY <1>f, <2>2, <2>3 DEF WaitingIsMarked
  <2>5. RtosTypeOK' /\ OnePlaceEach' /\ WaitingIsMarked'
    BY <2>8, <2>9, <2>10
  <2>6. Empty' = Empty
    BY <2>2 DEF Empty, Place
  <2>7. RoomToAccept' /\ NoStaleSockets' /\ SentIsWatched'
    BY <1>t, <2>3, <2>4, <2>6 DEF RoomToAccept, NoStaleSockets, SentIsWatched
  <2> QED
    BY <2>5, <2>7
<1>11. CASE UNCHANGED rtosVars
  BY <1>11, <1>k DEF rtosVars, RtosTypeOK, RoomToAccept, NoStaleSockets, SentIsWatched, Empty, Place
<1> QED
  BY <1>1, <1>2, <1>3, <1>4, <1>5, <1>6, <1>7, <1>8, <1>9, <1>10, <1>11 DEF RtosNext

(* The loop of platHttpServerTask() serves every socket it has accepted,   *)
(* however callbacks, sends of other tasks and ends of connections         *)
(* interleave (httpd-freertos.c).                                           *)
THEOREM RtosCorrect == RtosSpec => []SocketsServed
<1>1. ASSUME RtosIInv PROVE SocketsHavePlaces
  <2>1. ASSUME NEW fd \in open PROVE Cardinality(Place(fd)) = 1
    <3>1. PICK x \in RtosSlots : rconn[x].fd = fd
      BY <1>1 DEF RtosIInv, OnePlaceEach
    <3>2. fd # NOFD
      BY <1>1 DEF RtosIInv, RtosTypeOK, NOFD
    <3>3. Place(fd) = {x}
      BY <1>1, <3>1, <3>2 DEF RtosIInv, OnePlaceEach, Place
    <3> QED
      BY <3>3, FS_Singleton
  <2>2. Used \subseteq open
    BY <1>1 DEF RtosIInv, OnePlaceEach, Used
  <2> QED
    BY <1>1, <2>1, <2>2 DEF RtosIInv, NoStaleSockets, SocketsHavePlaces
<1>2. RtosIInv => SocketsServed
  BY <1>1 DEF RtosIInv, SocketsServed
<1> QED
  BY <1>2, RtosInitial, RtosStep, PTL DEF RtosSpec
===============================================================================
