------------------------------- MODULE MCParts -------------------------------
(***************************************************************************)
(* Seven parts of the kernel that do not interact, checked in one run: a     *)
(* behaviour is one of one part, the variables of the others keep a value  *)
(* of no meaning.  Parts that run tasks share the variables of the same    *)
(* name.                                                                   *)
(***************************************************************************)
EXTENDS Pipe

CONSTANTS
    Keyboards, Serials, DriverCount,    \* of the instances of the two drivers
    Letters, Pad, MaxKeys, MaxWire, WriteCount, MaxLine,
    WIDTH, HEIGHT, MemSize, Chars,      \* of the console
    LastYear,                           \* of the calendar
    Sizes, PageRoom, LastPage, MaxPages,  \* of the arena
    Users, DiskBlocks, Data, Blank, NBuffers, MaxHeld  \* of the buffer cache

VARIABLES
    part,  \* which part this behaviour is of
    rlock,
    wire, extcode, keymap, capslock, typed, typist, lost,
    wlock, arriving, thre, line,
    memory, screen, cursor, x, y, text, smeared,
    year, mon, mday, days, yday,
    used, desc, count, free_list, held,
    buffer_count, block, dirty, valid, data, lock, wait_list, disk, cur, want, halted

\* One task at the keyboard, a ring of two bytes, three keystrokes, of which two
\* fit on the wire before the handler runs.
K == INSTANCE Keyboard WITH Tasks <- Keyboards, Readers <- Keyboards \ {Idle}, MaxCount <- DriverCount

\* Two tasks at a serial port, four bytes each way.
S == INSTANCE Serial WITH Tasks <- Serials, Readers <- Serials \ {Idle}, Writers <- Serials \ {Idle},
        MaxCount <- DriverCount

\* Five and a half rows of memory, two of them on the screen: as on the real
\* display, the memory does not end with a row.
C == INSTANCE Console

\* A hundred years.
T == INSTANCE Calendar

\* Blocks of two sizes, two or three to a page, and pieces of up to two pages.
A == INSTANCE Arena

\* Two tasks, and fewer buffers than blocks, so that buffers are recycled and
\* run out.
B == INSTANCE BufferCache WITH Tasks <- Users, Blocks <- DiskBlocks

ASSUME MCAssumption ==
    /\ K!KeyboardAssumption /\ S!SerialAssumption
    /\ C!ConsoleAssumption /\ T!CalendarAssumption /\ A!ArenaAssumption
    /\ B!BufferAssumption

taskVars == <<current, state, ring, rxwaiter, txwaiter, readers, left, sent, received, failed>>
keyboardVars == <<wire, extcode, keymap, capslock, typed, typist, lost>>
serialVars == <<wlock, arriving, thre, line>>
consoleVars == <<memory, screen, cursor, x, y, text, smeared>>
calendarVars == <<year, mon, mday, days, yday>>
arenaVars == <<used, desc>>
bufferVars == <<buffer_count, block, dirty, valid, data, lock, wait_list, disk, cur, want, halted>>

allVars == <<part, taskVars, rlock, keyboardVars, serialVars, consoleVars, calendarVars, arenaVars, bufferVars, pc, count, free_list, held>>

NoTasks ==
    /\ current = None /\ state = None /\ ring = None /\ rxwaiter = None
    /\ left = None /\ sent = None /\ received = None
NoPipe == readers = None /\ failed = None
NoTx == txwaiter = None
NoLock == rlock = None
NoKeyboard ==
    /\ wire = None /\ extcode = None /\ keymap = None /\ capslock = None
    /\ typed = None /\ typist = None /\ lost = None
NoSerial == wlock = None /\ arriving = None /\ thre = None /\ line = None
NoConsole ==
    /\ memory = None /\ screen = None /\ cursor = None /\ x = None /\ y = None
    /\ text = None /\ smeared = None
NoCalendar == year = None /\ mon = None /\ mday = None /\ days = None /\ yday = None
NoArena == used = None /\ desc = None
NoBuffers ==
    /\ buffer_count = None /\ block = None /\ dirty = None /\ valid = None /\ data = None
    /\ lock = None /\ wait_list = None /\ disk = None /\ cur = None /\ want = None /\ halted = None
NoPlaces == pc = None
NoLists == count = None /\ free_list = None /\ held = None

MCInit ==
    \/ /\ part = "pipe" /\ Init
       /\ NoLock /\ NoKeyboard /\ NoSerial /\ NoConsole /\ NoCalendar
       /\ NoArena /\ NoBuffers /\ NoLists
    \/ /\ part = "keyboard" /\ K!Init
       /\ NoPipe /\ NoTx /\ NoSerial /\ NoConsole /\ NoCalendar
       /\ NoArena /\ NoBuffers /\ NoLists
    \/ /\ part = "serial" /\ S!Init
       /\ NoPipe /\ NoKeyboard /\ NoConsole /\ NoCalendar
       /\ NoArena /\ NoBuffers /\ NoLists
    \/ /\ part \in {"console", "calendar", "arena", "buffers"}
       /\ NoTasks /\ NoPipe /\ NoTx /\ NoLock /\ NoKeyboard /\ NoSerial
       /\ IF part = "console" THEN C!Init ELSE NoConsole
       /\ IF part = "calendar" THEN T!Init ELSE NoCalendar
       /\ IF part = "arena" THEN A!Init ELSE NoArena
       /\ IF part = "buffers" THEN B!Init ELSE NoBuffers /\ NoPlaces
       /\ part \in {"console", "calendar"} => NoLists

MCNext ==
    \/ /\ part = "pipe" /\ Next
       /\ UNCHANGED <<rlock, keyboardVars, serialVars, consoleVars, calendarVars,
                      arenaVars, bufferVars, part, count, free_list, held>>
    \/ /\ part = "keyboard" /\ K!Next
       /\ UNCHANGED <<txwaiter, readers, failed, serialVars, consoleVars, calendarVars,
                      arenaVars, bufferVars, part, count, free_list, held>>
    \/ /\ part = "serial" /\ S!Next
       /\ UNCHANGED <<readers, failed, keyboardVars, consoleVars, calendarVars,
                      arenaVars, bufferVars, part, count, free_list, held>>
    \/ /\ part = "console" /\ C!Next
       /\ UNCHANGED <<taskVars, rlock, keyboardVars, serialVars, calendarVars,
                      arenaVars, bufferVars, part, pc, count, free_list, held>>
    \/ /\ part = "calendar" /\ T!Next
       /\ UNCHANGED <<taskVars, rlock, keyboardVars, serialVars, consoleVars,
                      arenaVars, bufferVars, part, pc, count, free_list, held>>
    \/ /\ part = "arena" /\ A!Next
       /\ UNCHANGED <<taskVars, rlock, keyboardVars, serialVars, consoleVars, calendarVars,
                      bufferVars, part, pc>>
    \/ /\ part = "buffers" /\ B!Next
       /\ UNCHANGED <<taskVars, rlock, keyboardVars, serialVars, consoleVars, calendarVars,
                      arenaVars, part>>

MCSpec == MCInit /\ [][MCNext]_allVars

\* The two tasks at the serial port and the readers of the pipe are alike, the tasks and the blocks of the
\* buffer cache as well; the properties do not tell them apart.
Alike == Permutations(Serials \ {Idle}) \cup Permutations(Users) \cup Permutations(DiskBlocks)

-----------------------------------------------------------------------------
\* The properties of the parts, each in the behaviours of its part.

\* Who waits for bytes, at the pipe, the keyboard and the serial port, and who
\* waits for room in the pipe: a task that sleeps there has nothing to do, it is
\* the one the next wakeup goes to, and no second one overwrites it.
ReadersAreWoken ==
    /\ part = "pipe" => WaitersSleep
    /\ part = "keyboard" => K!ReaderWaits
    /\ part = "serial" => S!ReaderWaits

\* Bytes arrive once and in order: a pipe loses none, the drivers only the
\* oldest of a full fifo, and the bytes of a serial write stay together.
BytesInOrder ==
    /\ part = "pipe" => NothingLost
    /\ part = "keyboard" => K!DropsOldest
    /\ part = "serial" => S!DropsOldest /\ S!WritesStayWhole

\* Pipe: with one reader and one writer no assertion fails.
PipePairNeverFails == part = "pipe" => PairNeverFails

\* Keyboard: characters and pressed marks are what the typist did.
KeyboardTypesAsMeant == part = "keyboard" => K!TypedAsMeant

\* Console: the window shows the text.
ConsoleShowsText == part = "console" => C!ScreenShowsText

\* Calendar: mktime and get_yday count the days, localtime some of them back.
CalendarAgrees == part = "calendar" => T!DatesAgree

\* Arena: every block of every page is accounted for.
ArenaAccounted == part = "arena" => A!BlocksAccounted

\* Buffers: count is the number of references, through every wait.
BufferCountIsReferences == part = "buffers" => B!CountIsReferences

\* Buffers: the free list is what nobody uses, and it is clean.
BufferFreeIsUnused == part = "buffers" => B!FreeIsUnused

\* Buffers: no block is cached twice, and what a task got from bread is the
\* buffer of its block until it gives it back.
BufferOfItsBlock == part = "buffers" => B!OneBufferPerBlock /\ B!HeldIsAsked

\* Buffers: one in use keeps its block and its data.
BufferInUseIsStable == [][part = "buffers" => B!InUseIsKept]_allVars
=============================================================================
