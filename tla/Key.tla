---------------------------------- MODULE Key ----------------------------------
(***************************************************************************)
(* The driver of a push button (driver_lib/driver/key.c): edges of the pin *)
(* raise interrupts, a timer of 50 ms tells a release from a bounce and a  *)
(* timer of 5 s a long press from a short one.                             *)
(*                                                                         *)
(* The pin moves at any time, also between two steps of the handler.  The  *)
(* timers fire at any time after they were armed.                          *)
(***************************************************************************)
EXTENDS Integers

CONSTANT MaxEdges  \* bound: changes of the pin

ASSUME EdgesAssumption == MaxEdges \in Nat

VARIABLES
  pin,        \* its level; 0 is pressed
  edges,      \* how often it has changed
  intrType,   \* the edge that raises an interrupt: "NEGEDGE", "POSEDGE" or "DISABLE"
  intrStatus, \* has it been raised?
  handler,    \* what runs: "none", key_intr_handler() or what key_50ms_cb() has read
  key_level,  \* 1 while the driver takes the key to be up
  key_5s,     \* is the timer armed?
  key_50ms,   \* is the timer armed?
  presses,    \* history: interrupts taken for a press
  shorts,     \* history: calls of short_press()
  longs       \* history: calls of long_press()

keyVars == <<pin, edges, intrType, intrStatus, handler, key_level, key_5s, key_50ms,
             presses, shorts, longs>>
keyHistory == <<presses, shorts, longs>>

PinChanges ==
  /\ edges < MaxEdges
  /\ pin' = 1 - pin
  /\ edges' = edges + 1
  /\ intrStatus' = (intrStatus \/ intrType = IF pin = 1 THEN "NEGEDGE" ELSE "POSEDGE")
  /\ UNCHANGED <<intrType, handler, key_level, key_5s, key_50ms, keyHistory>>

(* key_intr_handler(): the interrupt is disabled and cleared ...  (While   *)
(* key_50ms_cb() runs it is disabled.)                                     *)
KeyIntrHandler ==
  /\ intrStatus
  /\ handler = "none"
  /\ intrStatus' = FALSE
  /\ intrType' = "DISABLE"
  /\ handler' = "interrupt"
  /\ UNCHANGED <<pin, edges, key_level, key_5s, key_50ms, keyHistory>>

(* ... and a timer armed.  Only the first edge asks for the next one; the  *)
(* others leave that to the timer.                                         *)
KeyIntrPressed ==
  /\ handler = "interrupt" /\ key_level = 1
  /\ key_5s' = TRUE
  /\ key_level' = 0
  /\ intrType' = "POSEDGE"
  /\ handler' = "none"
  /\ presses' = presses + 1
  /\ UNCHANGED <<pin, edges, intrStatus, key_50ms, shorts, longs>>

KeyIntrReleased ==
  /\ handler = "interrupt" /\ key_level = 0
  /\ key_50ms' = TRUE
  /\ handler' = "none"
  /\ UNCHANGED <<pin, edges, intrType, intrStatus, key_level, key_5s, keyHistory>>

(* key_5s_cb()                                                             *)
Key5sCb ==
  /\ key_5s /\ handler = "none"
  /\ key_5s' = FALSE
  /\ longs' = IF pin = 0 THEN longs + 1 ELSE longs
  /\ UNCHANGED <<pin, edges, intrType, intrStatus, handler, key_level, key_50ms, presses, shorts>>

(* key_50ms_cb(): the pin is read ...                                      *)
Key50msCb ==
  /\ key_50ms /\ handler = "none"
  /\ key_50ms' = FALSE
  /\ handler' = IF pin = 1 THEN "up" ELSE "bounce"
  /\ UNCHANGED <<pin, edges, intrType, intrStatus, key_level, key_5s, keyHistory>>

KeyIsUpTimerRuns ==
  /\ handler = "up"
  /\ key_level' = 1
  /\ intrType' = "NEGEDGE"
  /\ shorts' = shorts + 1
  /\ handler' = "none"
  /\ UNCHANGED <<pin, edges, intrStatus, key_5s, key_50ms, presses, longs>>

(* ... and the key is up, or bounced and is waited for again.              *)
KeyIsUp ==
  /\ handler = "up"
  /\ key_5s' = FALSE
  /\ key_level' = 1
  /\ intrType' = "NEGEDGE"
  /\ shorts' = shorts + 1
  /\ handler' = "none"
  /\ UNCHANGED <<pin, edges, intrStatus, key_50ms, presses, longs>>

KeyBounced ==
  /\ handler = "bounce"
  /\ intrType' = "POSEDGE"
  /\ handler' = "none"
  /\ UNCHANGED <<pin, edges, intrStatus, key_level, key_5s, key_50ms, keyHistory>>

KeyInit ==
  /\ pin = 1 /\ edges = 0
  /\ intrType = "NEGEDGE" /\ intrStatus = FALSE
  /\ handler = "none" /\ key_level = 1
  /\ key_5s = FALSE /\ key_50ms = FALSE
  /\ presses = 0 /\ shorts = 0 /\ longs = 0

KeyNext ==
  \/ PinChanges
  \/ KeyIntrHandler \/ KeyIntrPressed \/ KeyIntrReleased
  \/ Key5sCb
  \/ Key50msCb \/ KeyIsUp \/ KeyBounced

KeySpec == KeyInit /\ [][KeyNext]_keyVars

-------------------------------------------------------------------------------
(* However the key bounces, each press that was noticed ends in one call   *)
(* of short_press(), has at most one of long_press(), and its long timer   *)
(* does not outlive it to measure the next press.                          *)
OneCallPerPress ==
  /\ presses = shorts + (1 - key_level)
  /\ longs <= presses
  /\ key_5s => key_level = 0 /\ longs < presses

(* No bounce counts for a press of its own: every press that was noticed   *)
(* had a falling edge to itself, and every call of short_press() a rising  *)
(* one.                                                                    *)
CallsAreReal == 2 * presses <= edges + 1 /\ 2 * shorts <= edges

(* The interrupt of the key is never left disabled: while it is, something *)
(* is on its way that enables it.                                          *)
KeyNeverDeaf == intrType = "DISABLE" => handler # "none" \/ key_50ms

(* Presses that were noticed and calls of the key's functions match,       *)
(* however the contacts bounce, no call is made of a bounce, and the       *)
(* driver goes on listening.  That every press is noticed is not said:     *)
(* see KeyLevelTrue.                                                       *)
KeyHeard == OneCallPerPress /\ CallsAreReal /\ KeyNeverDeaf

(* "high, then key is up" (key.c:126): when nothing is under way the       *)
(* driver takes the key to be up exactly if it is.                         *)
KeyLevelTrue ==
  handler = "none" /\ ~intrStatus /\ ~key_50ms => (key_level = 1 <=> pin = 1)
===============================================================================
