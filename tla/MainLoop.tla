------------------------------ MODULE MainLoop ------------------------------
(***************************************************************************)
(* The loop of main.cpp on top of RumbleWrites: main polls one button      *)
(* after the other; having seen one pressed it polls until it is released  *)
(* and then turns the rumble on (A) or off (B), or counts led_index up     *)
(* (PLUS) or down (MINUS) and lights LEDs by it.                           *)
(*                                                                         *)
(* The buttons change at any time.  get_buttons() reads them under one     *)
(* mutex, so a poll is one action; a press between two polls is not seen.  *)
(* main does not go on before its write() has returned.                    *)
(***************************************************************************)
EXTENDS RumbleWrites, Integers, FiniteSets

CONSTANTS
  IndexValues,  \* the number of values of led_index: 2^64 in the code
  MaxDown,      \* bounds on the presses of MINUS less those of PLUS, and
  MaxUp,        \*   the other way round
  MaxPressed    \* bound on the buttons that are down at once

ASSUME MainAssumption ==
  /\ IndexValues \in Nat \ {0} /\ IndexValues % 4 = 0
  /\ MaxDown \in Nat /\ MaxUp \in Nat
  /\ MaxPressed \in Nat

Buttons == {"A", "B", "PLUS", "MINUS"}

VARIABLES
  pressed,    \* m_state.buttons
  polled,     \* the button main polls
  waiting,    \* does it poll for the release?
  led_index,
  leds,       \* the LEDs that main has last asked for
  count       \* history: presses of PLUS less presses of MINUS that were acted on

loopVars == <<polled, waiting, led_index, leds, count>>
mainVars == <<vars, pressed, loopVars>>

\* a loop that never comes back to A.
NextButtonNotA == [A |-> "B", B |-> "PLUS", PLUS |-> "MINUS", MINUS |-> "B"]

NextButton == [A |-> "B", B |-> "PLUS", PLUS |-> "MINUS", MINUS |-> "A"]

-----------------------------------------------------------------------------
(* The buttons of the controller. *)

Press(b) ==
  /\ b \notin pressed
  /\ Cardinality(pressed) < MaxPressed
  /\ b = "PLUS" => count < MaxUp
  /\ b = "MINUS" => count > -MaxDown
  /\ pressed' = pressed \cup {b}
  /\ UNCHANGED <<vars, loopVars>>

Release(b) ==
  /\ b \in pressed
  /\ pressed' = pressed \ {b}
  /\ UNCHANGED <<vars, loopVars>>

-----------------------------------------------------------------------------
(* main. *)

Polls(b) == polled = b /\ pc["main"] = "idle"

\* if (get_buttons() & b)
Poll(b) ==
  /\ Polls(b) /\ ~waiting
  /\ IF b \in pressed THEN waiting' = TRUE /\ UNCHANGED polled
                      ELSE polled' = NextButton[b] /\ UNCHANGED waiting
  /\ UNCHANGED <<vars, pressed, led_index, leds, count>>

\* while (get_buttons() & b); ends.
Released(b) ==
  /\ Polls(b) /\ waiting /\ b \notin pressed
  /\ waiting' = FALSE
  /\ polled' = NextButton[b]
  /\ UNCHANGED pressed

\* The LEDs for an index: that of its last two bits and, from 4 on, the next one.
Mask(i) == {i % 4} \cup (IF i >= 4 THEN {(i - 3) % 4} ELSE {})

\* --led_index, had it a test for zero or a sign.
DownToZero(i) == IF i = 0 THEN 0 ELSE i - 1
DownSigned(i) == i - 1

Up(i)   == IF i = IndexValues - 1 THEN 0 ELSE i + 1
Down(i) == IF i = 0 THEN IndexValues - 1 ELSE i - 1

\* set_leds: the mask is in the high half of the byte.
SetLeds(mask) ==
  /\ BeginWrite("main")
  /\ leds' = mask

\* A and B swapped.
RumbleButtonSwapped(b) ==
  /\ Released(b)
  /\ SetRumble /\ rumble' = (b = "B")
  /\ UNCHANGED <<led_index, leds, count>>

\* set_rumble(true) for A and set_rumble(false) for B
RumbleButton(b) ==
  /\ Released(b)
  /\ SetRumble /\ rumble' = (b = "A")
  /\ UNCHANGED <<led_index, leds, count>>

PlusButton ==
  /\ Released("PLUS")
  /\ SetLeds(Mask(led_index))
  /\ led_index' = Up(led_index)
  /\ count' = count + 1

MinusButton ==
  /\ Released("MINUS")
  /\ SetLeds(Mask(led_index))
  /\ led_index' = Down(led_index)
  /\ count' = count - 1

-----------------------------------------------------------------------------
MainInit ==
  /\ Init
  /\ pressed = {}
  /\ polled = "A" /\ waiting = FALSE
  /\ led_index = 0 /\ leds = {}
  /\ count = 0

MainStep ==
  \/ \E b \in Buttons : Poll(b)
  \/ \E b \in {"A", "B"} : RumbleButton(b)
  \/ PlusButton \/ MinusButton

\* write(), in main and in the other threads, and write_loop.
WriteStep ==
  /\ \/ \E t \in Others : BeginWrite(t)
     \/ \E t \in Writers : Finish(t)
     \/ WriteLoop
  /\ UNCHANGED <<pressed, loopVars>>

MainNext ==
  \/ \E b \in Buttons : Press(b) \/ Release(b)
  \/ MainStep
  \/ WriteStep

MainSpec == MainInit /\ [][MainNext]_mainVars

\* Every thread runs, and write() and write_loop go on.  main is not kept out of
\* the write queue for ever: its bound is the model's.
MainFairSpec ==
  /\ MainSpec
  /\ SF_mainVars(MainStep)
  /\ \A t \in Writers : WF_mainVars(Finish(t) /\ UNCHANGED <<pressed, loopVars>>)
  /\ WF_mainVars(WriteLoop /\ UNCHANGED <<pressed, loopVars>>)

-----------------------------------------------------------------------------
MainTypeOK ==
  /\ pressed \subseteq Buttons
  /\ polled \in Buttons /\ waiting \in BOOLEAN
  /\ led_index \in 0..(IndexValues - 1)
  /\ leds \subseteq 0..3
  /\ count \in Int

\* The first LED follows the presses of PLUS and MINUS by fours, also after
\* led_index, which is unsigned, has wrapped around (main.cpp:112, 132, 137, 149);
\* at most the next LED is lit with it.
LedsFollow ==
  /\ led_index % 4 = count % 4
  /\ leds # {} =>
       \E n \in {count - 1, count + 1} :
         n % 4 \in leds /\ leds \subseteq {n % 4, (n + 1) % 4}

\* A press of A that main has seen makes the controller rumble, if A is released for
\* good: over a full queue, whatever is in the unused byte and whatever the other threads
\* write in between (main.cpp:119-122, set_rumble, write and write_loop).
PressReaches ==
  <>[]("A" \notin pressed) => ((polled = "A" /\ waiting) ~> obeyed.bit)

\* When no button is pressed any more, main comes back to every button
\* (main.cpp:117): none of its waiting loops is left for ever.
GoesRound ==
  <>[](pressed = {}) => \A b \in Buttons : []<>(polled = b /\ ~waiting)

=============================================================================
