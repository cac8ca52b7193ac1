------------------------------- MODULE I2cMaster -------------------------------
(***************************************************************************)
(* The I2C master made of two pins (driver_lib/driver/i2c_master.c),       *)
(* heard by a listener on the bus that knows nothing but the rules of I2C: *)
(* data are taken while the clock is high, and the data line moves then    *)
(* only to start or to stop.                                               *)
(*                                                                         *)
(* Both lines are open: a line is high when nobody pulls it low.  A level  *)
(* is [sda, scl, slave]: what the master drives and what a slave does to   *)
(* the data line meanwhile.                                                *)
(***************************************************************************)
EXTENDS Data

CONSTANTS
  WriteBytes,  \* bytes that are written
  ReadBytes,   \* bytes that a slave sends
  MaxCalls     \* bound: calls after a start

ASSUME BytesAssumption == WriteBytes \cup ReadBytes \subseteq 0..255 /\ MaxCalls \in Nat

VARIABLES
  lines,    \* m_nLastSDA and m_nLastSCL
  phase,    \* where a transfer is: "off", "free", "started", "getAck",
            \* "setAck" or "byte" (after a byte and its acknowledge)
  calls,    \* calls since the start
  asked,    \* history: what the calls meant
  heard,    \* what the listener heard
  got       \* what the last call returned, beside what it should have

i2cVars == <<lines, phase, calls, asked, heard, got>>

START == 2   \* what the listener hears beside the bits 0 and 1
STOP == 3

Level(sda, scl) == [sda |-> sda, scl |-> scl, slave |-> 1]
Driven(levels, slave) == [i \in DOMAIN levels |-> [levels[i] EXCEPT !.slave = slave]]
Sda(level) == Lesser(level.sda, level.slave)

-------------------------------------------------------------------------------
(* The levels that each function sets, one i2c_master_setDC() after the    *)
(* other.                                                                  *)
StartLevels == <<Level(1, lines.scl), Level(1, 1), Level(0, 1)>>

StopLevels(scl) == <<Level(0, scl), Level(0, 1), Level(1, 1)>>

SetAck(level) ==
  <<Level(lines.sda, 0), Level(level, 0), Level(level, 1), Level(level, 0), Level(1, 0)>>

GetAck(answer) == Driven(<<Level(lines.sda, 0), Level(1, 0), Level(1, 1), Level(1, 0)>>, answer)

WriteBitEarly(bit) == <<Level(1 - bit, 0), Level(1 - bit, 1), Level(bit, 1), Level(bit, 0)>>

WriteBit(bit) == <<Level(bit, 0), Level(bit, 1), Level(bit, 0)>>

Concat(seqs) ==
  LET all[n \in 0..Len(seqs)] == IF n = 0 THEN <<>> ELSE all[n - 1] \o seqs[n]
  IN  all[Len(seqs)]

WriteByte(byte) ==
  <<Level(lines.sda, 0)>> \o Concat([i \in 1..8 |-> WriteBit(Bits(byte, 8)[i])])

ReadByte(byte) ==
  LET bits == Bits(byte, 8)
  IN  <<Level(lines.sda, 0)>>
      \o Concat([i \in 1..8 |-> Driven(<<Level(1, 0), Level(1, 1)>>, bits[i])])
      \o <<[Level(1, 0) EXCEPT !.slave = bits[8]]>>

(* i2c_master_init(): 28 clocks and a stop, whatever the bus was doing.    *)
InitLevels ==
  <<Level(1, 1), Level(1, 0), Level(0, 0), Level(1, 0)>>
  \o Concat([i \in 1..28 |-> <<Level(1, 0), Level(1, 1)>>])
  \o StopLevels(1)

(* i2c_master_getDC(): what the code reads from the pin at these levels.   *)
Sampled(levels, steps) == ValueOf([i \in DOMAIN steps |-> Sda(levels[steps[i]])])

-------------------------------------------------------------------------------
(* The listener: a bit is heard when the clock falls, unless the data line *)
(* moved while it was high.                                                *)
Listen(before, levels) ==
  LET at(n) == IF n = 0 THEN before ELSE levels[n]
      hear[n \in 0..Len(levels)] ==
        IF n = 0 THEN [events |-> <<>>, moved |-> before.scl = 1]
        ELSE LET h == hear[n - 1]
                 fell == at(n - 1).scl = 1 /\ at(n).scl = 0
                 moved == at(n - 1).scl = 1 /\ at(n).scl = 1 /\ Sda(at(n - 1)) # Sda(at(n))
             IN  [events |-> h.events \o
                    (CASE fell /\ ~h.moved -> <<Sda(at(n - 1))>>
                       [] moved /\ Sda(at(n)) = 0 -> <<START>>
                       [] moved /\ Sda(at(n)) = 1 -> <<STOP>>
                       [] OTHER -> <<>>),
                  moved |-> (h.moved \/ moved) /\ at(n).scl = 1]
  IN  hear[Len(levels)].events

(* A call sets levels and means events; r is what it returns and should.   *)
Call(levels, means, r) ==
  LET last == levels[Len(levels)]
  IN  /\ lines' = last
      /\ heard' = heard \o Listen(lines, levels)
      /\ asked' = asked \o means
      /\ got' = r

-------------------------------------------------------------------------------
I2cMasterInit ==
  /\ phase = "off"
  /\ phase' = "free"
  /\ Call(InitLevels, Listen(lines, InitLevels), <<0, 0>>)
  /\ UNCHANGED calls

I2cMasterStart ==
  /\ phase \in {"free", "byte"}
  /\ calls < MaxCalls
  /\ phase' = "started"
  /\ calls' = calls + 1
  /\ Call(StartLevels, <<START>>, <<0, 0>>)

I2cMasterWriteByte(byte) ==
  /\ phase \in {"started", "byte"}
  /\ calls < MaxCalls
  /\ phase' = "getAck"
  /\ calls' = calls + 1
  /\ Call(WriteByte(byte), Bits(byte, 8), <<0, 0>>)

(* i2c_master_getAck() and i2c_master_checkAck()                           *)
I2cMasterGetAck(answer) ==
  /\ phase = "getAck"
  /\ phase' = "byte"
  /\ Call(GetAck(answer), <<answer>>, <<Sampled(GetAck(answer), <<3>>), answer>>)
  /\ UNCHANGED calls

I2cMasterReadByte(byte) ==
  /\ phase \in {"started", "byte"}
  /\ calls < MaxCalls
  /\ phase' = "setAck"
  /\ calls' = calls + 1
  /\ Call(ReadByte(byte), Bits(byte, 8), <<Sampled(ReadByte(byte), [i \in 1..8 |-> 2 * i + 1]), byte>>)

(* i2c_master_send_ack() and i2c_master_send_nack()                        *)
I2cMasterSetAck(level) ==
  /\ phase = "setAck"
  /\ phase' = "byte"
  /\ Call(SetAck(level), <<level>>, <<0, 0>>)
  /\ UNCHANGED calls

I2cMasterStop ==
  /\ phase \in {"started", "byte"}
  /\ phase' = "free"
  /\ Call(StopLevels(lines.scl), <<STOP>>, <<0, 0>>)
  /\ UNCHANGED calls

I2cInit ==
  /\ lines = Level(1, 1)
  /\ phase = "off"
  /\ calls = 0
  /\ asked = <<>> /\ heard = <<>> /\ got = <<0, 0>>

I2cNext ==
  \/ I2cMasterInit \/ I2cMasterStart \/ I2cMasterStop
  \/ \E byte \in WriteBytes : I2cMasterWriteByte(byte)
  \/ \E byte \in ReadBytes : I2cMasterReadByte(byte)
  \/ \E bit \in {0, 1} : I2cMasterGetAck(bit) \/ I2cMasterSetAck(bit)

I2cSpec == I2cInit /\ [][I2cNext]_i2cVars

-------------------------------------------------------------------------------
(* Whatever the calls, in any order the protocol allows: the listener      *)
(* hears what they meant, no start, stop or bit more or less, and the code *)
(* reads what the slave sent.                                              *)
HeardAsAsked == heard = asked /\ got[1] = got[2]

(* Between transfers both lines are high; within one, after a byte or its  *)
(* acknowledge, the clock is low, and after the acknowledge the data line  *)
(* is released, so that a slave may answer.                                *)
BusLeftRight ==
  /\ phase = "free" => lines = Level(1, 1)
  /\ phase \in {"getAck", "setAck", "byte"} => lines.scl = 0
  /\ phase = "byte" => lines.sda = 1

(* A listener on the two lines hears exactly the conditions, bytes and     *)
(* acknowledgements that were asked for, and the functions leave the lines *)
(* as the next one expects them.                                           *)
BusKept == HeardAsAsked /\ BusLeftRight
===============================================================================
