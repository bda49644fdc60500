--------------------------- MODULE MainLoopProofs ---------------------------
(***************************************************************************)
(* What is proved of set_rumble and write() holds of the demonstration     *)
(* program; and its LEDs follow the presses of PLUS and MINUS whatever the *)
(* width of led_index, as long as four divides the number of its values.   *)
(***************************************************************************)
EXTENDS MainLoop, RumbleWritesProofs

LEMMA MainIsWriter == "main" \in Writers /\ Others \subseteq Writers
  BY DEF Writers

\* A step of the program is a step of its writers or leaves them alone.
LEMMA MainStepsAreWrites == [MainNext]_mainVars => [Next]_vars
<1> SUFFICES ASSUME [MainNext]_mainVars PROVE [Next]_vars
  OBVIOUS
<1>1. ASSUME NEW b \in Buttons, Press(b) \/ Release(b) PROVE UNCHANGED vars
  BY <1>1 DEF Press, Release
<1>2. ASSUME NEW b \in Buttons, Poll(b) PROVE UNCHANGED vars
  BY <1>2 DEF Poll
<1>3. ASSUME NEW b \in {"A", "B"}, RumbleButton(b) PROVE Next
  BY <1>3 DEF RumbleButton, Next
<1>4. ASSUME PlusButton \/ MinusButton PROVE Next
  BY <1>4, MainIsWriter DEF PlusButton, MinusButton, SetLeds, Next
<1>5. ASSUME WriteStep PROVE Next
  BY <1>5, MainIsWriter DEF WriteStep, Next
<1>6. ASSUME UNCHANGED mainVars PROVE UNCHANGED vars
  BY <1>6 DEF mainVars
<1> QED
  BY <1>1, <1>2, <1>3, <1>4, <1>5, <1>6 DEF MainNext, MainStep

\* What is proved of any writers is so of the program: a rumble that A turned on stays
\* on, and one that B turned off stays off from the next other report on, unless
\* set_rumble overtook a report (main.cpp:119-126, set_rumble, write).
THEOREM MainRumbleSettled == MainSpec => []RumbleSettled
<1>1. MainInit => Init
  BY DEF MainInit
<1> QED
  BY <1>1, MainStepsAreWrites, RumbleIsSettled, PTL DEF MainSpec, Spec

-----------------------------------------------------------------------------
(* The LEDs. *)

\* Counting led_index up or down counts its last two bits up or down.
LEMMA IndexCounts ==
  ASSUME NEW i \in 0..(IndexValues - 1)
  PROVE  /\ Up(i) \in 0..(IndexValues - 1) /\ Up(i) % 4 = (i + 1) % 4
         /\ Down(i) \in 0..(IndexValues - 1) /\ Down(i) % 4 = (i - 1) % 4
<1>1. IndexValues \in Nat \ {0} /\ IndexValues % 4 = 0
  BY MainAssumption
<1>2. Up(i) \in 0..(IndexValues - 1) /\ Up(i) % 4 = (i + 1) % 4
  BY <1>1 DEF Up
<1>3. Down(i) \in 0..(IndexValues - 1) /\ Down(i) % 4 = (i - 1) % 4
  BY <1>1 DEF Down
<1> QED
  BY <1>2, <1>3

\* The LEDs for an index: the one of its last two bits and at most the next.
LEMMA MaskOfIndex ==
  ASSUME NEW i \in Nat
  PROVE  /\ Mask(i) \subseteq 0..3
         /\ i % 4 \in Mask(i) /\ Mask(i) \subseteq {i % 4, (i + 1) % 4}
<1>1. i % 4 \in 0..3
  OBVIOUS
<1>2. ASSUME i >= 4 PROVE (i - 3) % 4 = (i + 1) % 4 /\ (i - 3) % 4 \in 0..3
  BY <1>2
<1> QED
  BY <1>1, <1>2 DEF Mask

\* What is congruent modulo four stays so, counted up or down alike.
LEMMA CountedAlike ==
  ASSUME NEW i \in Int, NEW n \in Int, i % 4 = n % 4
  PROVE  (i + 1) % 4 = (n + 1) % 4 /\ (i - 1) % 4 = (n - 1) % 4
  OBVIOUS

LedsInv == MainTypeOK /\ LedsFollow

\* The LEDs follow the presses of PLUS and MINUS, for every width of led_index.
THEOREM LedsInvariant == MainSpec => []LedsInv
<1>0. IndexValues \in Nat \ {0}
  BY MainAssumption
<1>1. MainInit => LedsInv
  <2> SUFFICES ASSUME MainInit PROVE LedsInv
    OBVIOUS
  <2>1. pressed = {} /\ polled = "A" /\ waiting = FALSE
    BY DEF MainInit
  <2>2. led_index = 0 /\ leds = {} /\ count = 0 /\ 0 \in 0..(IndexValues - 1)
    BY <1>0 DEF MainInit
  <2>3. pressed \subseteq Buttons /\ polled \in Buttons
    BY <2>1 DEF Buttons
  <2>4. waiting \in BOOLEAN
    BY <2>1
  <2>5. led_index \in 0..(IndexValues - 1) /\ leds \subseteq 0..3 /\ count \in Int
    BY <2>2
  <2> QED
    BY <2>2, <2>3, <2>4, <2>5 DEF LedsInv, MainTypeOK, LedsFollow
<1>2. LedsInv /\ [MainNext]_mainVars => LedsInv'
  <2> SUFFICES ASSUME LedsInv, [MainNext]_mainVars PROVE LedsInv'
    OBVIOUS
  <2>0. MainTypeOK /\ LedsFollow
    BY DEF LedsInv
  <2>a. ASSUME UNCHANGED <<led_index, leds, count>> PROVE LedsFollow'
    BY <2>0, <2>a DEF LedsFollow
  <2>b. ASSUME NEW b \in Buttons PROVE NextButton[b] \in Buttons
    BY DEF Buttons, NextButton
  <2>c. led_index \in 0..(IndexValues - 1) /\ led_index \in Nat /\ count \in Int
    BY <1>0, <2>0 DEF MainTypeOK
  <2>d. /\ led_index % 4 = count % 4
        /\ (led_index + 1) % 4 = (count + 1) % 4 /\ (led_index - 1) % 4 = (count - 1) % 4
    BY <2>0, <2>c, CountedAlike DEF LedsFollow
  <2>1. ASSUME NEW b \in Buttons, Press(b) \/ Release(b) PROVE LedsInv'
    BY <2>0, <2>1, <2>a DEF Press, Release, loopVars, LedsInv, MainTypeOK
  <2>2. ASSUME NEW b \in Buttons, Poll(b) PROVE LedsInv'
    BY <2>0, <2>2, <2>a, <2>b DEF Poll, LedsInv, MainTypeOK
  <2>3. ASSUME NEW b \in {"A", "B"}, RumbleButton(b) PROVE LedsInv'
    <3>1. b \in Buttons
      BY <2>3 DEF Buttons
    <3> QED
      BY <2>0, <2>3, <2>a, <2>b, <3>1 DEF RumbleButton, Released, LedsInv, MainTypeOK
  <2>4. CASE PlusButton
    <3>1. leds' = Mask(led_index) /\ led_index' = Up(led_index) /\ count' = count + 1
      BY <2>4 DEF PlusButton, SetLeds
    <3>0. Up(led_index) \in 0..(IndexValues - 1) /\ Up(led_index) % 4 = (led_index + 1) % 4
      BY <2>c, IndexCounts
    <3>m. /\ Mask(led_index) \subseteq 0..3
          /\ led_index % 4 \in Mask(led_index)
          /\ Mask(led_index) \subseteq {led_index % 4, (led_index + 1) % 4}
      BY <2>c, MaskOfIndex
    <3>2. "PLUS" \in Buttons
      BY DEF Buttons
    <3>3. MainTypeOK'
      <4>1. led_index' \in 0..(IndexValues - 1) /\ leds' \subseteq 0..3 /\ count' \in Int
        BY <2>c, <3>1, <3>0, <3>m
      <4>2. pressed' = pressed /\ waiting' = FALSE /\ polled' \in Buttons
        BY <2>4, <2>b, <3>2 DEF PlusButton, Released
      <4> QED
        BY <2>0, <4>1, <4>2 DEF MainTypeOK
    <3>4. led_index' % 4 = count' % 4
      BY <2>d, <3>0, <3>1
    <3>5. count % 4 \in leds' /\ leds' \subseteq {count % 4, (count + 1) % 4}
      BY <2>d, <3>1, <3>m
    <3>6. count = count' - 1
      BY <2>c, <3>1
    <3> QED
      BY <3>3, <3>4, <3>5, <3>6 DEF LedsInv, LedsFollow
  <2>5. CASE MinusButton
    <3>1. leds' = Mask(led_index) /\ led_index' = Down(led_index) /\ count' = count - 1
      BY <2>5 DEF MinusButton, SetLeds
    <3>0. Down(led_index) \in 0..(IndexValues - 1) /\ Down(led_index) % 4 = (led_index - 1) % 4
      BY <2>c, IndexCounts
    <3>m. /\ Mask(led_index) \subseteq 0..3
          /\ led_index % 4 \in Mask(led_index)
          /\ Mask(led_index) \subseteq {led_index % 4, (led_index + 1) % 4}
      BY <2>c, MaskOfIndex
    <3>2. "MINUS" \in Buttons
      BY DEF Buttons
    <3>3. MainTypeOK'
      <4>1. led_index' \in 0..(IndexValues - 1) /\ leds' \subseteq 0..3 /\ count' \in Int
        BY <2>c, <3>1, <3>0, <3>m
      <4>2. pressed' = pressed /\ waiting' = FALSE /\ polled' \in Buttons
        BY <2>5, <2>b, <3>2 DEF MinusButton, Released
      <4> QED
        BY <2>0, <4>1, <4>2 DEF MainTypeOK
    <3>4. led_index' % 4 = count' % 4
      BY <2>d, <3>0, <3>1
    <3>5. count % 4 \in leds' /\ leds' \subseteq {count % 4, (count + 1) % 4}
      BY <2>d, <3>1, <3>m
    <3>6. count = count' + 1
      BY <2>c, <3>1
    <3> QED
      BY <3>3, <3>4, <3>5, <3>6 DEF LedsInv, LedsFollow
  <2>6. CASE WriteStep
    BY <2>0, <2>6, <2>a DEF WriteStep, loopVars, LedsInv, MainTypeOK
  <2>7. CASE UNCHANGED mainVars
    BY <2>0, <2>7, <2>a DEF mainVars, loopVars, LedsInv, MainTypeOK
  <2> QED
    BY <2>1, <2>2, <2>3, <2>4, <2>5, <2>6, <2>7 DEF MainNext, MainStep
<1> QED
  BY <1>1, <1>2, PTL DEF MainSpec

\* Every variable has its type; led_index stays within its values, counted down from
\* zero and up from the largest (main.cpp:112, 137, 149).
THEOREM MainTypes == MainSpec => []MainTypeOK
<1>1. LedsInv => MainTypeOK
  BY DEF LedsInv
<1> QED
  BY <1>1, LedsInvariant, PTL

\* The first LED follows the presses of PLUS and MINUS by fours, through every wrap of
\* led_index (main.cpp:112-150).
THEOREM LedsFollowButtons == MainSpec => []LedsFollow
<1>1. LedsInv => LedsFollow
  BY DEF LedsInv
<1> QED
  BY <1>1, LedsInvariant, PTL

=============================================================================
