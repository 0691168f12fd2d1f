------------------------------- MODULE Serial -------------------------------
(***************************************************************************)
(* serial.c: serial_handler, serial_read and serial_write of one port.     *)
(*                                                                         *)
(* serial_init enables the interrupts for received data, errors and line   *)
(* changes (0x0d), and not the one for an empty transmitter: only the next *)
(* byte that comes in lets the handler look at LSR_THRE.                   *)
(***************************************************************************)
EXTENDS CharDevice

CONSTANTS
    Writers,     \* the tasks that may write to the port
    WriteCount,  \* how many bytes they write at a time
    MaxLine      \* bound of the model: bytes that come in, and that go out

\* What the constants are; an instance assumes it.
SerialAssumption ==
    /\ CharDeviceAssumption
    /\ Writers \subseteq Tasks \ {Idle}
    /\ WriteCount \in Nat \ {0}

VARIABLES
    txwaiter,  \* serial_t.tx_waiter
    wlock,     \* serial_t.wlock
    arriving,  \* LSR_DR: the port holds a byte that came in
    thre,      \* LSR_THRE: the transmitter takes a byte
    line       \* who wrote the bytes that went out, in order

serialVars == <<txwaiter, wlock, arriving, thre, line>>

vars == <<current, state, readVars, serialVars>>

-----------------------------------------------------------------------------
\* serial_init
Init ==
    /\ ReadInit
    /\ txwaiter = None
    /\ wlock = FreeLock
    /\ arriving = FALSE
    /\ thre = TRUE
    /\ line = << >>

\* The other end sends a byte, and takes one.
Arrive ==
    /\ ~arriving /\ sent < MaxLine
    /\ arriving' = TRUE
    /\ UNCHANGED <<current, state, readVars, txwaiter, wlock, thre, line>>

Transmitted ==
    /\ ~thre
    /\ thre' = TRUE
    /\ UNCHANGED <<current, state, readVars, txwaiter, wlock, arriving, line>>

-----------------------------------------------------------------------------
\* recv_data, and then the writer, if the transmitter is ready.
serial_handler ==
    /\ InterruptsOn
    /\ arriving
    /\ arriving' = FALSE
    /\ sent' = sent + 1
    /\ ring' = AfterPut(ring, sent + 1)
    /\ LET writer == IF thre THEN {txwaiter} ELSE {}
       IN  /\ state' = Wake(state, ({rxwaiter} \cup writer) \ {None})
           /\ txwaiter' = IF thre THEN None ELSE txwaiter
    /\ rxwaiter' = None
    /\ UNCHANGED <<current, rlock, pc, left, received, wlock, thre, line>>

serial_read == ReadNext /\ UNCHANGED serialVars

WriteUnlocked(t) ==
    /\ Running(t, "user")
    /\ Len(line) < MaxLine
    /\ left' = [left EXCEPT ![t] = WriteCount]
    /\ pc' = [pc EXCEPT ![t] = "writing"]
    /\ wlock' = Acquired(wlock, t)
    /\ UNCHANGED <<current, state, ring, rxwaiter, rlock, sent, received, txwaiter,
                   arriving, thre, line>>

Write(t) ==
    /\ Running(t, "user")
    /\ Len(line) < MaxLine
    /\ left' = [left EXCEPT ![t] = WriteCount]
    /\ Acquire(wlock, t, "writing", "wlocking")
    /\ wlock' = Acquired(wlock, t)
    /\ UNCHANGED <<ring, rxwaiter, rlock, sent, received, txwaiter, arriving, thre, line>>

WriteRelock(t) ==
    /\ Running(t, "wlocking")
    /\ Acquire(wlock, t, "writing", "wlocking")
    /\ wlock' = Acquired(wlock, t)
    /\ UNCHANGED <<ring, rxwaiter, rlock, left, sent, received, txwaiter, arriving, thre, line>>

\* The transmitter is busy; its state is read again after the wait.
WriteBlocks(t) ==
    /\ Running(t, "writing")
    /\ ~thre
    /\ txwaiter' = t
    /\ Dispatch(Mark(t, "BLOCKED"))
    /\ UNCHANGED <<readVars, wlock, arriving, thre, line>>

WriteByte(t) ==
    /\ Running(t, "writing")
    /\ thre
    /\ thre' = FALSE
    /\ line' = Append(line, t)
    /\ left' = [left EXCEPT ![t] = @ - 1]
    /\ IF left[t] > 1 THEN UNCHANGED <<current, state, wlock, pc>>
       ELSE /\ pc' = [pc EXCEPT ![t] = "user"]
            /\ wlock' = Released(wlock)
            /\ Release(wlock)
    /\ UNCHANGED <<ring, rxwaiter, rlock, sent, received, txwaiter, arriving>>

serial_write ==
    \E t \in Writers : Write(t) \/ WriteRelock(t) \/ WriteBlocks(t) \/ WriteByte(t)

Next ==
    \/ Arrive \/ Transmitted
    \/ serial_handler
    \/ serial_read
    \/ serial_write
    \/ TimerPreempts /\ UNCHANGED serialVars

-----------------------------------------------------------------------------
\* The bytes of a call stay together on the line, whoever writes while the
\* caller sleeps, and a writer that sleeps is the one that gets woken.
WritesStayWhole ==
    /\ \A i \in 2 .. Len(line) : (i - 1) % WriteCount # 0 => line[i] = line[i - 1]
    /\ \A t \in Writers :
        pc[t] = "writing" /\ state[t] = "BLOCKED" => wlock.holder = t /\ txwaiter = t
=============================================================================
