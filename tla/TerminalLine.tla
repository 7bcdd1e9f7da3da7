------------------------------ MODULE TerminalLine -----------------------------
(***************************************************************************)
(* The line at the cursor of a console in the web UI                       *)
(* (features/terminal/Terminal.jsx).  The browser does not edit the line:  *)
(* it sends the keys to the device, and what the device echoes is put      *)
(* together again as the text before the cursor (lineBuffer) and after it  *)
(* (cursorBuffer).  A backspace of the device only moves the cursor, and   *)
(* the browser guesses from the arrow keys that are not echoed what moved. *)
(*                                                                         *)
(* The line editor of the device is external: it redraws what is after     *)
(* the cursor and moves back over it, and rings the bell at the ends.      *)
(***************************************************************************)
EXTENDS Naturals, SequencesExt

CONSTANTS Chars,       \* what is typed
          Recalled,    \* the lines of the device's history
          MaxLine,     \* bound: the length of the line on the device
          MaxAhead     \* bound: keys that are not echoed

ASSUME LineAssumption ==
  /\ Chars \subseteq STRING /\ Recalled \subseteq Seq(Chars)
  /\ Chars \cap {"prompt", "space", "BELL", "BS", "NL", "CR"} = {}
  /\ Chars \cap {"Left", "Right", "Up", "Backspace", "Enter", "ControlA"} = {}
  /\ \A r \in Recalled : Len(r) <= MaxLine
  /\ MaxLine \in Nat /\ MaxAhead \in Nat

VARIABLES
  left, right,    \* the device: the line before and after its cursor
  typed,          \* the keys on their way to the device
  echoed,         \* the messages on their way to the browser
  lineBuffer, cursorBuffer, backCount, forwardCount, gotCR,   \* the browser
  entered, listed,   \* history: the line entered last, and as it was listed
  guessed         \* history: see Guesses

lineVars == <<left, right, typed, echoed, lineBuffer, cursorBuffer, backCount, forwardCount,
              gotCR, entered, listed, guessed>>

remote  == <<left, right>>
browser == <<lineBuffer, cursorBuffer, backCount, forwardCount, gotCR>>

Arrows == {"Left", "Right"}
Keys   == Chars \cup Arrows \cup {"Up", "Backspace", "Enter", "ControlA"}
Bytes  == Chars \cup {"prompt", "space", "BELL", "BS", "NL", "CR"}

\* "ahead": an arrow was pressed while another key was not echoed, or a line
\* recalled while any was not.  "control": the cursor was moved by another key.
Guesses == {"ahead", "control"}

\* Every variable has its type.
LineTypeOK ==
  /\ left \in Seq(Chars) /\ right \in Seq(Chars) /\ Len(left) + Len(right) <= MaxLine
  /\ typed \in Seq(Keys)
  /\ \A i \in DOMAIN echoed : echoed[i].key \in Keys /\ echoed[i].bytes \in Seq(Bytes)
  /\ Len(typed) + Len(echoed) <= MaxAhead
  /\ lineBuffer \in Seq(Bytes) /\ cursorBuffer \in Seq(Bytes)
  /\ backCount \in 0..MaxAhead /\ forwardCount \in 0..MaxAhead /\ gotCR \in BOOLEAN
  /\ guessed \subseteq Guesses

------------------------------------------------------------------------------
(* The keys.                                                                 *)

Outstanding == Range(typed) \cup {echoed[i].key : i \in DOMAIN echoed}

resetCursorBuffer == cursorBuffer' = <<>> /\ backCount' = 0 /\ forwardCount' = 0

sendKeyCode(k) ==
  /\ k \notin Arrows \cup {"Up"}
  /\ guessed' = IF k = "ControlA" THEN guessed \cup {"control"} ELSE guessed
  /\ UNCHANGED <<cursorBuffer, backCount, forwardCount>>

ArrowUp(k) ==
  /\ k = "Up"
  /\ resetCursorBuffer
  /\ guessed' = IF Outstanding = {} THEN guessed ELSE guessed \cup {"ahead"}

GuessedArrow == IF Outstanding \subseteq Arrows THEN guessed ELSE guessed \cup {"ahead"}

\* Mutant: the cursor goes left while it is still going right.
MayGoLeft_Always(forward) == TRUE

\* An arrow against one that is not echoed is not sent.
MayGoLeft(forward) == forward = 0

ArrowLeft(k) ==
  /\ k = "Left" /\ MayGoLeft(forwardCount)
  /\ backCount' = backCount + 1
  /\ guessed' = GuessedArrow
  /\ UNCHANGED <<cursorBuffer, forwardCount>>

ArrowRight(k) ==
  /\ k = "Right" /\ backCount = 0
  /\ forwardCount' = forwardCount + 1
  /\ guessed' = GuessedArrow
  /\ UNCHANGED <<cursorBuffer, backCount>>

handleKeyDown(k) ==
  /\ Len(typed) + Len(echoed) < MaxAhead /\ guessed = {}   \* bound: not after a guess
  /\ sendKeyCode(k) \/ ArrowUp(k) \/ ArrowLeft(k) \/ ArrowRight(k)
  /\ typed' = Append(typed, k)
  /\ UNCHANGED <<remote, echoed, lineBuffer, gotCR, entered, listed>>

------------------------------------------------------------------------------
(* The device.                                                               *)

Repeat(b, n) == [i \in 1..n |-> b]

\* The line l, r (before and after the cursor) after a key, with what is echoed.
Edited(k, l, r) ==
  CASE k \in Chars ->
         IF Len(l) + Len(r) = MaxLine THEN {<<l, r, <<"BELL">>>>}
         ELSE {<<Append(l, k), r, <<k>> \o r \o Repeat("BS", Len(r))>>}
    [] k = "Backspace" ->
         IF l = <<>> THEN {<<l, r, <<"BELL">>>>}
         ELSE {<<Front(l), r, <<"BS">> \o r \o <<"space">> \o Repeat("BS", Len(r) + 1)>>}
    [] k = "Left" ->
         IF l = <<>> THEN {<<l, r, <<"BELL">>>>}
         ELSE {<<Front(l), <<Last(l)>> \o r, <<"BS">>>>}
    [] k = "Right" ->
         IF r = <<>> THEN {<<l, r, <<"BELL">>>>}
         ELSE {<<Append(l, Head(r)), Tail(r), <<Head(r)>>>>}
    [] k = "Up"    -> {<<line, <<>>, <<"CR", "prompt">> \o line>> : line \in Recalled}
    [] k = "Enter" -> {<<<<>>, <<>>, <<"CR", "NL", "prompt">>>>}
    [] OTHER       -> {<<<<>>, l \o r, Repeat("BS", Len(l))>>}   \* ControlA

Echo ==
  /\ typed # <<>>
  /\ \E e \in Edited(Head(typed), left, right) :
       /\ left' = e[1] /\ right' = e[2]
       /\ echoed' = Append(echoed, [key |-> Head(typed), bytes |-> e[3]])
  /\ entered' = IF Head(typed) = "Enter" THEN left \o right ELSE entered
  /\ typed' = Tail(typed)
  /\ UNCHANGED <<browser, listed, guessed>>

------------------------------------------------------------------------------
(* A message of the device, byte by byte.                                    *)

MinusLast(s) == IF s = <<>> THEN s ELSE Front(s)
MinusHead(s) == IF s = <<>> THEN s ELSE Tail(s)

LastOf(s) == IF s = <<>> THEN s ELSE <<Last(s)>>

Back(b, st) ==
  IF st.back = 0 THEN st
  ELSE [st EXCEPT !.back = @ - 1,
          !.cursor = IF b = "BELL" THEN @ ELSE LastOf(st.line) \o @]

Forward(b, st) ==
  IF st.forward = 0 THEN st
  ELSE [st EXCEPT !.forward = @ - 1, !.cursor = IF b = "BELL" THEN @ ELSE MinusHead(@)]

Show(b, st) ==
  CASE b = "BS" -> [st EXCEPT !.line = MinusLast(@)]
    [] b = "CR" -> [st EXCEPT !.cr = TRUE]
    [] b = "NL" -> [line |-> <<>>, cursor |-> <<>>, back |-> 0, forward |-> 0, cr |-> FALSE,
                    listed |-> st.line \o st.cursor]
    [] b = "BELL" -> st
    [] OTHER -> [st EXCEPT !.line = Append(IF st.cr THEN <<>> ELSE @, b), !.cr = FALSE]

Received(b, st) == Show(b, Forward(b, Back(b, st)))

Message(bytes, st) ==
  LET after[i \in 0..Len(bytes)] ==
        IF i = 0 THEN st ELSE Received(bytes[i], after[i - 1])
  IN after[Len(bytes)]

\* The effect on lastMessage.
ReceiveMessage ==
  /\ echoed # <<>>
  /\ LET st == Message(Head(echoed).bytes,
                       [line |-> lineBuffer, cursor |-> cursorBuffer, back |-> backCount,
                        forward |-> forwardCount, cr |-> gotCR, listed |-> listed])
     IN /\ lineBuffer' = st.line /\ cursorBuffer' = st.cursor
        /\ backCount' = st.back /\ forwardCount' = st.forward
        /\ gotCR' = st.cr /\ listed' = st.listed
  /\ echoed' = Tail(echoed)
  /\ UNCHANGED <<remote, typed, entered, guessed>>

LineInit ==
  /\ left = <<>> /\ right = <<>> /\ typed = <<>> /\ echoed = <<>>
  /\ lineBuffer = <<"prompt">> /\ cursorBuffer = <<>>
  /\ backCount = 0 /\ forwardCount = 0 /\ gotCR = FALSE
  /\ entered = <<>> /\ listed = <<"prompt">>
  /\ guessed = {}

LineNext == (\E k \in Keys : handleKeyDown(k)) \/ Echo \/ ReceiveMessage

LineSpec == LineInit /\ [][LineNext]_lineVars

------------------------------------------------------------------------------
(* Properties.                                                               *)

Settled == typed = <<>> /\ echoed = <<>> /\ guessed = {}

\* When every key has been echoed, the line is shown as the device has it, and
\* the cursor where the device has it; so is the line that was entered.
ShownAsOnDevice ==
  Settled => /\ lineBuffer = <<"prompt">> \o left /\ cursorBuffer = right
             /\ listed = <<"prompt">> \o entered
==============================================================================
