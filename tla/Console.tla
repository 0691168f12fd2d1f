------------------------------ MODULE Console ------------------------------
(***************************************************************************)
(* console_write of console.c: characters and control characters in the    *)
(* text memory of the display, whose visible window moves down a row at a  *)
(* time and back to the start when there is no room left below it.         *)
(*                                                                         *)
(* Addresses are counted in cells, a character and its attribute, from     *)
(* MEM_BASE.  console_write runs with interrupts disabled and does not     *)
(* block, so a character is a step.  The text a reader of the terminal     *)
(* expects is kept beside it.                                              *)
(***************************************************************************)
EXTENDS Integers, Sequences

CONSTANTS
    WIDTH, HEIGHT,  \* columns and rows of the screen
    MemSize,        \* cells between MEM_BASE and MEM_END
    Chars           \* printable characters

Scr == WIDTH * HEIGHT  \* SCR_SIZE in cells; ROW_SIZE is WIDTH

Erase == "erase"  \* the value erase, 0x0720
Nul == "nul"      \* its upper half when it is written as a u32: 0x0000

\* What the constants are; an instance assumes it.
ConsoleAssumption ==
    /\ WIDTH \in Nat \ {0} /\ HEIGHT \in Nat \ {0}
    /\ MemSize \in Nat /\ MemSize >= 2 * Scr
    /\ Nul \notin Chars

VARIABLES
    memory,   \* the cells
    screen, cursor, x, y,
    text,     \* the rows as they should look
    smeared   \* a control character has erased the cell after the one it meant

vars == <<memory, screen, cursor, x, y, text, smeared>>

Rows == 1 .. HEIGHT
Columns == 1 .. WIDTH
BlankRow == [c \in Columns |-> Erase]

\* console_clear
Init ==
    /\ memory = [a \in 0 .. MemSize - 1 |-> Erase]
    /\ screen = 0 /\ cursor = 0
    /\ x = 0 /\ y = 0
    /\ text = [r \in Rows |-> BlankRow]
    /\ smeared = FALSE

-----------------------------------------------------------------------------
\* A store of erase through a u32 pointer at cell a; what lies beyond the
\* memory is lost.
Erased(mem, a) ==
    [c \in DOMAIN mem |-> IF c = a THEN Erase ELSE IF c = a + 1 THEN Nul ELSE mem[c]]

\* A window is a record of the four pointers and the memory.
Window == [memory |-> memory, screen |-> screen, cursor |-> cursor, x |-> x, y |-> y]

RewoundKeepsCursor(w) ==
    IF w.screen + Scr + WIDTH < MemSize THEN w
    ELSE [w EXCEPT !.memory = [c \in DOMAIN @ |-> IF c < Scr THEN @[w.screen + c] ELSE @[c]],
                   !.screen = 0]

\* The window goes back to MEM_BASE.
Rewound(w) ==
    IF w.screen + Scr + WIDTH < MemSize THEN w
    ELSE [w EXCEPT !.memory = [c \in DOMAIN @ |-> IF c < Scr THEN @[w.screen + c] ELSE @[c]],
                   !.cursor = @ - w.screen,
                   !.screen = 0]

\* scroll_up: WIDTH stores of four bytes clear two rows below the window.
scroll_up(w) ==
    LET v == Rewound(w)
        below(c) == c - (v.screen + Scr)
    IN  [v EXCEPT !.memory = [c \in DOMAIN @ |->
                                IF below(c) \notin 0 .. 2 * WIDTH - 1 THEN @[c]
                                ELSE IF below(c) % 2 = 0 THEN Erase ELSE Nul],
                  !.screen = @ + WIDTH,
                  !.cursor = @ + WIDTH]

command_lf(w) ==
    IF w.y + 1 < HEIGHT
    THEN [w EXCEPT !.y = @ + 1, !.cursor = @ + WIDTH]
    ELSE scroll_up(w)

command_cr(w) == [w EXCEPT !.cursor = @ - w.x, !.x = 0]

\* A printable character: a full row is continued on the next one.
Put(w, ch) ==
    LET v == IF w.x >= WIDTH
             THEN command_lf([w EXCEPT !.x = @ - WIDTH, !.cursor = @ - WIDTH])
             ELSE w
    IN  [v EXCEPT !.memory[v.cursor] = ch, !.cursor = @ + 1, !.x = @ + 1]

Becomes(w) ==
    /\ memory' = w.memory
    /\ screen' = w.screen /\ cursor' = w.cursor
    /\ x' = w.x /\ y' = w.y

-----------------------------------------------------------------------------
\* The text scrolls when the cursor leaves the last row.
Scrolled(t) == [r \in Rows |-> IF r = HEIGHT THEN BlankRow ELSE t[r + 1]]

NextRow(t) == IF y + 1 < HEIGHT THEN t ELSE Scrolled(t)

Printable(ch) ==
    /\ Becomes(Put(Window, ch))
    /\ text' = LET t == IF x = WIDTH THEN NextRow(text) ELSE text
               IN  [t EXCEPT ![y' + 1][x'] = ch]
    /\ UNCHANGED smeared

LineFeed ==
    /\ Becomes(command_lf(command_cr(Window)))
    /\ text' = NextRow(text)
    /\ UNCHANGED smeared

CarriageReturn == Becomes(command_cr(Window)) /\ UNCHANGED <<text, smeared>>

\* The cell after a is erased as well.
Smears(a) == a + 1 < MemSize /\ memory[a + 1] \in Chars

Backspace ==
    /\ x > 0
    /\ Becomes([Window EXCEPT !.x = @ - 1, !.cursor = @ - 1, !.memory = Erased(@, cursor - 1)])
    /\ text' = [text EXCEPT ![y + 1][x] = Erase]
    /\ smeared' = (smeared \/ Smears(cursor - 1))

Delete ==
    /\ Becomes([Window EXCEPT !.memory = Erased(@, cursor)])
    /\ text' = IF x = WIDTH THEN text ELSE [text EXCEPT ![y + 1][x + 1] = Erase]
    /\ smeared' = (smeared \/ x = WIDTH \/ Smears(cursor))

Next ==
    \/ \E ch \in Chars : Printable(ch)
    \/ LineFeed \/ CarriageReturn \/ Backspace \/ Delete

-----------------------------------------------------------------------------
\* The window shows the text, through every scroll and every return to the
\* start of the memory, and the cursor is where x and y say it is.  The
\* control characters that erase do so in two cells, so this holds as long
\* as the second one had nothing in it.
ScreenShowsText ==
    /\ cursor = screen + y * WIDTH + x
    /\ screen + Scr <= MemSize
    /\ ~smeared =>
        \A r \in Rows, c \in Columns :
            LET cell == memory[screen + (r - 1) * WIDTH + c - 1]
            IN  text[r][c] = IF cell = Nul THEN Erase ELSE cell
=============================================================================
