------------------------------ MODULE Keyboard ------------------------------
(***************************************************************************)
(* keyboard.c: the interrupt handler that turns the scan codes of set 1    *)
(* into characters, and keyboard_read.                                     *)
(*                                                                         *)
(* A key is a make code and whether it is sent with the prefix 0xE0.  Up   *)
(* to four interrupts make one keystroke: the handler keeps extcode_state  *)
(* and the pressed marks of keymap between them, and tasks run meanwhile.  *)
(* Caps lock stands for the three lock keys, which differ only in the flag *)
(* they toggle; the other two flags are read by nothing but the LEDs.      *)
(***************************************************************************)
EXTENDS CharDevice

CONSTANTS
    Letters,  \* make codes with a character in both columns of keymap
    Pad,      \* make codes with a character in column 0 only: the key pad
    MaxKeys,  \* bound of the model: how often a key goes down
    MaxWire   \* how many codes the keyboard holds back before keys are missed

Others == {"slash", "shift", "caps"}

\* What the constants are; an instance assumes it.
KeyboardAssumption ==
    /\ CharDeviceAssumption
    /\ (Letters \cup Pad) \cap (Others \cup {"0xe0"}) = {}

Codes == Letters \cup Pad \cup Others

\* Shift with the prefix is no key of its own, keyboards send it around the
\* keys between the letters and the key pad.
Keys == [code : Codes \ {"caps"}, ext : BOOLEAN] \cup {[code |-> "caps", ext |-> FALSE]}

Prefix == [code |-> "0xe0", up |-> FALSE]

VARIABLES
    wire,      \* the codes that were sent and that nobody has read
    extcode,   \* extcode_state
    keymap,    \* columns 2 and 3 of keymap: the keys marked as pressed
    capslock,  \* capslock_state
    typed,     \* the characters put into the fifo, as code and column
    typist,    \* the keys held down, the state of caps lock that belongs to
               \* them, the characters expected, and how many presses there were
    lost       \* keyboard_ack has thrown a code away

keyVars == <<wire, extcode, keymap, capslock, typed, typist, lost>>

vars == <<current, state, readVars, keyVars>>

-----------------------------------------------------------------------------
\* The codes one movement of a key sends.
Sends(k, up) ==
    (IF k.ext THEN <<Prefix>> ELSE << >>) \o <<[code |-> k.code, up |-> up]>>

HasChar(code, column) == code \in Letters \cup {"slash"} \cup (IF column = 0 THEN Pad ELSE {})

\* With the prefix a key gives column 1, only the slash is the same.
Column(code, ext, shift) ==
    IF (ext /\ code # "slash") \/ shift THEN 1 ELSE 0

Shifted(caps, shift) == IF caps THEN ~shift ELSE shift

shift_state_any == keymap["shift", FALSE] \/ keymap["shift", TRUE]

\* shift_state
shift_state == keymap["shift", FALSE]

Init ==
    /\ ReadInit
    /\ wire = << >>
    /\ extcode = FALSE
    /\ keymap = [key \in Codes \X BOOLEAN |-> FALSE]
    /\ capslock = FALSE
    /\ typed = << >>
    /\ typist = [held |-> {}, caps |-> FALSE, chars |-> << >>, presses |-> 0]
    /\ lost = FALSE

\* A key goes down, or repeats while it is down.
Press(k) ==
    /\ typist.presses < MaxKeys
    /\ Len(wire) < MaxWire
    /\ wire' = wire \o Sends(k, FALSE)
    /\ LET caps == typist.caps # (k.code = "caps")
           column == Column(k.code, k.ext,
                        Shifted(caps, [code |-> "shift", ext |-> FALSE] \in typist.held))
       IN  typist' = [held |-> typist.held \cup {k},
                      caps |-> caps,
                      presses |-> typist.presses + 1,
                      chars |-> IF ~HasChar(k.code, column) THEN typist.chars
                                ELSE Append(typist.chars, <<k.code, column>>)]
    /\ UNCHANGED <<current, state, readVars, extcode, keymap, capslock, typed, lost>>

LetGo(k) ==
    /\ k \in typist.held
    /\ Len(wire) < MaxWire
    /\ wire' = wire \o Sends(k, TRUE)
    /\ typist' = [typist EXCEPT !.held = @ \ {k}]
    /\ UNCHANGED <<current, state, readVars, extcode, keymap, capslock, typed, lost>>

-----------------------------------------------------------------------------
PrefixCode ==
    /\ extcode' = TRUE
    /\ wire' = Tail(wire)
    /\ UNCHANGED <<current, state, readVars, keymap, capslock, typed, lost>>

\* A break code.
KeyUp(code) ==
    /\ keymap' = [keymap EXCEPT ![<<code, extcode>>] = FALSE]
    /\ extcode' = FALSE
    /\ wire' = Tail(wire)
    /\ UNCHANGED <<current, state, readVars, capslock, typed, lost>>

\* set_leds: keyboard_ack reads and drops what is in the way of its answer.
SetLeds ==
    \E n \in 0 .. Len(wire) - 1 :
        /\ wire' = SubSeq(wire, n + 2, Len(wire))
        /\ lost' = (lost \/ n > 0)

\* A make code.
KeyDown(code) ==
    /\ extcode' = FALSE
    /\ keymap' = [keymap EXCEPT ![<<code, extcode>>] = TRUE]
    /\ capslock' = (capslock # (code = "caps"))
    /\ IF code = "caps" THEN SetLeds ELSE wire' = Tail(wire) /\ UNCHANGED lost
    /\ LET column == Column(code, extcode, Shifted(capslock', shift_state'))
       IN  IF HasChar(code, column)
           THEN Receive /\ typed' = Append(typed, <<code, column>>)
           ELSE UNCHANGED <<current, state, readVars, typed>>

keyboard_handler ==
    /\ InterruptsOn
    /\ wire # << >>
    /\ LET c == Head(wire)
       IN  IF c = Prefix THEN PrefixCode ELSE IF c.up THEN KeyUp(c.code) ELSE KeyDown(c.code)
    /\ UNCHANGED typist

keyboard_read == ReadNext /\ UNCHANGED keyVars

Next ==
    \/ \E k \in Keys : Press(k) \/ LetGo(k)
    \/ keyboard_handler
    \/ keyboard_read
    \/ TimerPreempts /\ UNCHANGED keyVars

-----------------------------------------------------------------------------
\* The characters are those the typist meant, from what was held down when
\* the key was, although the handler sees the codes later and one by one; and
\* once it has seen them all, it knows which keys are down.  Codes that
\* set_leds throws away are the exception.
TypedAsMeant ==
    ~lost =>
        /\ IsPrefix(typed, typist.chars)
        /\ wire = << >> =>
            /\ typed = typist.chars
            /\ \A c \in Codes, ext \in BOOLEAN :
                keymap[c, ext] <=> [code |-> c, ext |-> ext] \in typist.held
=============================================================================
