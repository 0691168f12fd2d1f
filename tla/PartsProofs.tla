---------------------------- MODULE PartsProofs ----------------------------
(***************************************************************************)
(* What holds of the buffer cache, the arena, the console, the pipe and    *)
(* the character devices in the behaviours of MCParts, each of which is    *)
(* one of one part.                                                        *)
(*                                                                         *)
(* The first three have their proofs in KernelProofs, the fifo and the     *)
(* tasks at it in WaitingProofs; both come here as instances.              *)
(* The codes on the way from the keyboard, the line of the serial port and *)
(* the calendar are proved here.                                           *)
(***************************************************************************)
EXTENDS MCParts, TLAPS, FiniteSetTheorems

-----------------------------------------------------------------------------
(* A behaviour of MCSpec is one of one part.                               *)

LEMMA StepsOfParts ==
    ASSUME [MCNext]_allVars
    PROVE  /\ part' = part
           /\ part = "pipe" => [Next]_vars
           /\ part = "keyboard" => [K!Next]_K!vars
           /\ part = "serial" => [S!Next]_S!vars
           /\ part = "console" => [C!Next]_C!vars
           /\ part = "arena" => [A!Next]_A!vars
<1>1. part' = part
  BY DEF MCNext, allVars
<1>2. part = "pipe" => [Next]_vars
  BY DEF MCNext, allVars, vars, taskVars
<1>3. part = "keyboard" => [K!Next]_K!vars
  BY DEF MCNext, allVars, K!vars, K!readVars, K!keyVars, taskVars, keyboardVars
<1>4. part = "serial" => [S!Next]_S!vars
  BY DEF MCNext, allVars, S!vars, S!readVars, S!serialVars, taskVars, serialVars
<1>5. part = "console" => [C!Next]_C!vars
  BY DEF MCNext, allVars, C!vars, consoleVars
<1>6. part = "arena" => [A!Next]_A!vars
  BY DEF MCNext, allVars, A!vars, arenaVars
<1> QED
  BY <1>1, <1>2, <1>3, <1>4, <1>5, <1>6

-----------------------------------------------------------------------------
(* What is typed.                                                          *)

Key(c, e) == [code |-> c, ext |-> e]

\* What a reader of the codes knows: whether the last one was the prefix, the
\* keys that are down, caps lock, and the characters so far.
View(ext, down, caps, chars) == [ext |-> ext, down |-> down, caps |-> caps, chars |-> chars]

Pressed(v, code) ==
    LET down == v.down \cup {Key(code, v.ext)}
        caps == v.caps # (code = "caps")
        column == K!Column(code, v.ext, K!Shifted(caps, Key("shift", FALSE) \in down))
    IN  View(FALSE, down, caps,
             IF K!HasChar(code, column) THEN Append(v.chars, <<code, column>>) ELSE v.chars)

Reads(v, c) ==
    IF c = K!Prefix THEN View(TRUE, v.down, v.caps, v.chars)
    ELSE IF c.up THEN View(FALSE, v.down \ {Key(c.code, v.ext)}, v.caps, v.chars)
    ELSE Pressed(v, c.code)

KeySignals == [code : K!Codes, up : BOOLEAN] \cup {K!Prefix}

KeyViews == [ext : BOOLEAN, down : SUBSET [code : K!Codes, ext : BOOLEAN], caps : BOOLEAN,
             chars : Seq(K!Codes \X {0, 1})]

Begins(s, t) == Len(s) <= Len(t) /\ \A i \in 1 .. Len(s) : s[i] = t[i]

\* The codes w take a reader from one view to another.
Takes(h, w, from, to) ==
    /\ w \in Seq(KeySignals) /\ to \in KeyViews
    /\ h[0] = from /\ h[Len(w)] = to
    /\ \A i \in 1 .. Len(w) : h[i] = Reads(h[i - 1], w[i])
    /\ \A i \in 0 .. Len(w) : h[i] \in KeyViews /\ Begins(h[i].chars, to.chars)

Down(map) == {k \in [code : K!Codes, ext : BOOLEAN] : map[<<k.code, k.ext>>]}

\* What the handler knows, and what the typist means.
Seen == View(extcode, Down(keymap), capslock, typed)
Meant == View(FALSE, typist.held, typist.caps, typist.chars)

TypingInv ==
    part = "keyboard" /\ ~lost =>
        /\ extcode \in BOOLEAN /\ capslock \in BOOLEAN /\ typed \in Seq(K!Codes \X {0, 1})
        /\ keymap \in [K!Codes \X BOOLEAN -> BOOLEAN]
        /\ typist \in [held : SUBSET K!Keys, caps : BOOLEAN, chars : Seq(K!Codes \X {0, 1}), presses : Nat]
        /\ \E h : Takes(h, wire, Seen, Meant)

LEMMA CodesAre ==
    /\ "0xe0" \notin K!Codes /\ {"slash", "shift", "caps"} \subseteq K!Codes
    /\ "shift" \notin Letters \cup Pad /\ "caps" \notin Letters \cup Pad
    /\ K!Prefix \in KeySignals /\ \A c \in K!Codes, up \in BOOLEAN : [code |-> c, up |-> up] # K!Prefix
BY MCAssumption DEF MCAssumption, K!KeyboardAssumption, K!Codes, K!Others, K!Prefix, KeySignals

LEMMA PressedIs ==
    ASSUME NEW v \in KeyViews, NEW code \in K!Codes
    PROVE  Pressed(v, code) \in KeyViews /\ Begins(v.chars, Pressed(v, code).chars)
<1>1. /\ v.ext \in BOOLEAN /\ v.down \in SUBSET [code : K!Codes, ext : BOOLEAN]
      /\ v.caps \in BOOLEAN /\ v.chars \in Seq(K!Codes \X {0, 1})
  BY DEF KeyViews
<1>2. PICK down, caps, column, chars :
        /\ down = v.down \cup {Key(code, v.ext)}
        /\ caps = (v.caps # (code = "caps"))
        /\ column = K!Column(code, v.ext, K!Shifted(caps, Key("shift", FALSE) \in down))
        /\ chars = IF K!HasChar(code, column) THEN Append(v.chars, <<code, column>>) ELSE v.chars
  OBVIOUS
<1>3. Pressed(v, code) = View(FALSE, down, caps, chars)
  BY <1>2 DEF Pressed
<1>4. down \in SUBSET [code : K!Codes, ext : BOOLEAN] /\ caps \in BOOLEAN /\ column \in {0, 1}
  BY <1>1, <1>2 DEF Key, K!Column
<1>5. <<code, column>> \in K!Codes \X {0, 1}
  BY <1>4
<1>6. chars \in Seq(K!Codes \X {0, 1}) /\ Begins(v.chars, chars)
  <2>1. CASE K!HasChar(code, column)
    <3>1. chars = Append(v.chars, <<code, column>>)
      BY <1>2, <2>1
    <3>2. chars \in Seq(K!Codes \X {0, 1})
      BY <1>1, <1>5, <3>1
    <3> QED
      BY <1>1, <3>1, <3>2 DEF Begins
  <2>2. CASE ~K!HasChar(code, column)
    <3>1. chars = v.chars
      BY <1>2, <2>2
    <3> QED
      BY <1>1, <3>1 DEF Begins
  <2> QED
    BY <2>1, <2>2
<1>7. View(FALSE, down, caps, chars) \in KeyViews /\ View(FALSE, down, caps, chars).chars = chars
  BY <1>4, <1>6 DEF View, KeyViews
<1> QED
  BY <1>3, <1>6, <1>7

LEMMA ReadsIs ==
    ASSUME NEW v \in KeyViews, NEW c \in KeySignals
    PROVE  Reads(v, c) \in KeyViews /\ Begins(v.chars, Reads(v, c).chars)
<1>1. /\ v.ext \in BOOLEAN /\ v.down \in SUBSET [code : K!Codes, ext : BOOLEAN]
      /\ v.caps \in BOOLEAN /\ v.chars \in Seq(K!Codes \X {0, 1})
  BY DEF KeyViews
<1>2. Begins(v.chars, v.chars)
  BY <1>1 DEF Begins
<1>3. CASE c = K!Prefix
  BY <1>1, <1>2, <1>3 DEF Reads, View, KeyViews
<1>4. CASE c # K!Prefix /\ c.up
  <2>1. v.down \ {Key(c.code, v.ext)} \in SUBSET [code : K!Codes, ext : BOOLEAN]
    BY <1>1
  <2> QED
    BY <1>1, <1>2, <1>4, <2>1 DEF Reads, View, KeyViews
<1>5. CASE c # K!Prefix /\ ~c.up
  <2>1. c.code \in K!Codes
    BY <1>5 DEF KeySignals
  <2> QED
    BY <1>5, <2>1, PressedIs DEF Reads
<1> QED
  BY <1>3, <1>4, <1>5

LEMMA BeginsOn ==
    ASSUME NEW E, NEW r \in Seq(E), NEW s \in Seq(E), NEW t \in Seq(E), Begins(r, s), Begins(s, t)
    PROVE  Begins(r, t)
BY DEF Begins

\* The reader takes the first code.
LEMMA TakesFirst ==
    ASSUME NEW h, NEW w, NEW from, NEW to, Takes(h, w, from, to), w # << >>
    PROVE  \E g : Takes(g, Tail(w), Reads(from, w[1]), to)
<1>1. w \in Seq(KeySignals) /\ Len(w) \in Nat /\ Len(w) # 0
  BY DEF Takes
<1>2. PICK r : r = Tail(w)
  OBVIOUS
<1>3. r \in Seq(KeySignals) /\ Len(r) = Len(w) - 1 /\ \A i \in 1 .. Len(r) : r[i] = w[i + 1]
  BY <1>1, <1>2
<1>4. PICK g : g = [i \in 0 .. Len(r) |-> h[i + 1]]
  OBVIOUS
<1>5. g[0] = Reads(from, w[1]) /\ g[Len(r)] = to
  BY <1>1, <1>3, <1>4 DEF Takes
<1>6. \A i \in 1 .. Len(r) : g[i] = Reads(g[i - 1], r[i])
  <2> SUFFICES ASSUME NEW i \in 1 .. Len(r)
               PROVE  g[i] = Reads(g[i - 1], r[i])
    OBVIOUS
  <2>1. i + 1 \in 1 .. Len(w) /\ i \in 0 .. Len(r) /\ i - 1 \in 0 .. Len(r) /\ (i + 1) - 1 = i /\ (i - 1) + 1 = i
    BY <1>1, <1>3
  <2>2. h[i + 1] = Reads(h[i], w[i + 1])
    BY <2>1 DEF Takes
  <2> QED
    BY <1>3, <1>4, <2>1, <2>2
<1>7. \A i \in 0 .. Len(r) : g[i] \in KeyViews /\ Begins(g[i].chars, to.chars)
  <2> SUFFICES ASSUME NEW i \in 0 .. Len(r)
               PROVE  g[i] \in KeyViews /\ Begins(g[i].chars, to.chars)
    OBVIOUS
  <2>1. i + 1 \in 0 .. Len(w) /\ g[i] = h[i + 1]
    BY <1>1, <1>3, <1>4
  <2> QED
    BY <2>1 DEF Takes
<1>8. Takes(g, r, Reads(from, w[1]), to)
  BY <1>3, <1>5, <1>6, <1>7 DEF Takes
<1> QED
  BY <1>2, <1>8

\* A code is sent.
LEMMA TakesMore ==
    ASSUME NEW h, NEW w, NEW from, NEW to, Takes(h, w, from, to), NEW c \in KeySignals
    PROVE  \E g : Takes(g, Append(w, c), from, Reads(to, c))
<1>1. w \in Seq(KeySignals) /\ Len(w) \in Nat /\ to \in KeyViews
  BY DEF Takes
<1>2. PICK r, last : r = Append(w, c) /\ last = Reads(to, c)
  OBVIOUS
<1>3. r \in Seq(KeySignals) /\ Len(r) = Len(w) + 1 /\ r[Len(r)] = c /\ \A i \in 1 .. Len(w) : r[i] = w[i]
  BY <1>1, <1>2
<1>4. last \in KeyViews /\ Begins(to.chars, last.chars)
  BY <1>1, <1>2, ReadsIs
<1>5. PICK g : g = [i \in 0 .. Len(r) |-> IF i = Len(r) THEN last ELSE h[i]]
  OBVIOUS
<1>6. g[Len(r)] = last /\ g[0] = from /\ \A i \in 0 .. Len(w) : g[i] = h[i]
  BY <1>1, <1>3, <1>5 DEF Takes
<1>7. \A i \in 1 .. Len(r) : g[i] = Reads(g[i - 1], r[i])
  <2> SUFFICES ASSUME NEW i \in 1 .. Len(r)
               PROVE  g[i] = Reads(g[i - 1], r[i])
    OBVIOUS
  <2>1. CASE i = Len(r)
    <3>1. i - 1 = Len(w) /\ h[Len(w)] = to /\ Len(w) \in 0 .. Len(w)
      BY <1>1, <1>3, <2>1 DEF Takes
    <3> QED
      BY <1>2, <1>3, <1>6, <2>1, <3>1
  <2>2. CASE i # Len(r)
    <3>1. i \in 1 .. Len(w) /\ i \in 0 .. Len(w) /\ i - 1 \in 0 .. Len(w)
      BY <1>1, <1>3, <2>2
    <3>2. h[i] = Reads(h[i - 1], w[i])
      BY <3>1 DEF Takes
    <3> QED
      BY <1>3, <1>6, <3>1, <3>2
  <2> QED
    BY <2>1, <2>2
<1>8. \A i \in 0 .. Len(r) : g[i] \in KeyViews /\ Begins(g[i].chars, last.chars)
  <2> SUFFICES ASSUME NEW i \in 0 .. Len(r)
               PROVE  g[i] \in KeyViews /\ Begins(g[i].chars, last.chars)
    OBVIOUS
  <2>1. CASE i = Len(r)
    <3>1. last.chars \in Seq(K!Codes \X {0, 1})
      BY <1>4 DEF KeyViews
    <3>2. Begins(last.chars, last.chars)
      BY <3>1 DEF Begins
    <3> QED
      BY <1>4, <1>6, <2>1, <3>2
  <2>2. CASE i # Len(r)
    <3>1. i \in 0 .. Len(w) /\ g[i] = h[i]
      BY <1>1, <1>3, <1>6, <2>2
    <3>2. h[i] \in KeyViews /\ Begins(h[i].chars, to.chars)
      BY <3>1 DEF Takes
    <3>3. /\ h[i].chars \in Seq(K!Codes \X {0, 1}) /\ to.chars \in Seq(K!Codes \X {0, 1})
          /\ last.chars \in Seq(K!Codes \X {0, 1})
      BY <1>1, <1>4, <3>2 DEF KeyViews
    <3> QED
      BY <1>4, <3>1, <3>2, <3>3, BeginsOn
  <2> QED
    BY <2>1, <2>2
<1>9. Takes(g, r, from, last)
  BY <1>3, <1>4, <1>6, <1>7, <1>8 DEF Takes
<1> QED
  BY <1>2, <1>9

LEMMA TypingStarts == MCInit => TypingInv
<1> SUFFICES ASSUME K!Init
             PROVE  /\ extcode \in BOOLEAN /\ capslock \in BOOLEAN /\ typed \in Seq(K!Codes \X {0, 1})
                    /\ keymap \in [K!Codes \X BOOLEAN -> BOOLEAN]
                    /\ typist \in [held : SUBSET K!Keys, caps : BOOLEAN,
                                   chars : Seq(K!Codes \X {0, 1}), presses : Nat]
                    /\ \E h : Takes(h, wire, Seen, Meant)
  BY DEF MCInit, TypingInv
<1>1. /\ extcode = FALSE /\ capslock = FALSE /\ typed = << >> /\ wire = << >>
      /\ keymap = [key \in K!Codes \X BOOLEAN |-> FALSE]
      /\ typist = [held |-> {}, caps |-> FALSE, chars |-> << >>, presses |-> 0]
  BY DEF K!Init
<1>2. /\ extcode \in BOOLEAN /\ capslock \in BOOLEAN /\ typed \in Seq(K!Codes \X {0, 1})
      /\ typist \in [held : SUBSET K!Keys, caps : BOOLEAN, chars : Seq(K!Codes \X {0, 1}), presses : Nat]
  <2>1. << >> \in Seq(K!Codes \X {0, 1}) /\ {} \in SUBSET K!Keys
    OBVIOUS
  <2> QED
    BY <1>1, <2>1
<1>3. keymap \in [K!Codes \X BOOLEAN -> BOOLEAN] /\ Down(keymap) = {}
  <2>1. keymap \in [K!Codes \X BOOLEAN -> BOOLEAN] /\ \A k \in K!Codes \X BOOLEAN : keymap[k] = FALSE
    BY <1>1
  <2>2. \A k \in [code : K!Codes, ext : BOOLEAN] : <<k.code, k.ext>> \in K!Codes \X BOOLEAN
    OBVIOUS
  <2> QED
    BY <2>1, <2>2 DEF Down
<1>4. PICK v : v = View(FALSE, {}, FALSE, << >>)
  OBVIOUS
<1>5. Seen = v /\ Meant = v
  BY <1>1, <1>3, <1>4 DEF Seen, Meant
<1>6. v \in KeyViews /\ Begins(v.chars, v.chars)
  BY <1>4 DEF View, KeyViews, Begins
<1>7. PICK h : h = [i \in 0 .. 0 |-> v]
  OBVIOUS
<1>8. Takes(h, wire, v, v)
  <2>1. wire \in Seq(KeySignals) /\ Len(wire) = 0 /\ 1 .. Len(wire) = {} /\ h[0] = v
    BY <1>1, <1>7
  <2> QED
    BY <1>6, <2>1 DEF Takes
<1> QED
  BY <1>2, <1>3, <1>5, <1>8

\* Nobody types and the handler does not run.
LEMMA TypingUntouched ==
    ASSUME TypingInv, part' = part, UNCHANGED K!keyVars
    PROVE  TypingInv'
BY DEF TypingInv, K!keyVars, Seen, Meant

\* The codes of one movement of a key.
LEMMA TakesKey ==
    ASSUME NEW h, NEW w, NEW from, NEW to, Takes(h, w, from, to), to.ext = FALSE,
           NEW k \in K!Keys, NEW up \in BOOLEAN
    PROVE  \E g : Takes(g, w \o K!Sends(k, up), from,
                       Reads(View(k.ext, to.down, to.caps, to.chars), [code |-> k.code, up |-> up]))
<1>1. w \in Seq(KeySignals) /\ to \in KeyViews
  BY DEF Takes
<1>2. k.code \in K!Codes /\ k.ext \in BOOLEAN
  <2>1. CASE k \in [code : K!Codes \ {"caps"}, ext : BOOLEAN]
    BY <2>1
  <2>2. CASE k = [code |-> "caps", ext |-> FALSE]
    BY <2>2, CodesAre
  <2> QED
    BY <2>1, <2>2 DEF K!Keys
<1>3. PICK c : c = [code |-> k.code, up |-> up]
  OBVIOUS
<1>4. c \in KeySignals
  BY <1>2, <1>3 DEF KeySignals
<1>5. CASE k.ext
  <2>1. PICK v : v = Reads(to, K!Prefix)
    OBVIOUS
  <2>2. v = View(k.ext, to.down, to.caps, to.chars)
    BY <1>5, <2>1 DEF Reads
  <2>3. PICK g : Takes(g, Append(w, K!Prefix), from, v)
    BY <2>1, CodesAre, TakesMore
  <2>4. \E f : Takes(f, Append(Append(w, K!Prefix), c), from, Reads(v, c))
    BY <1>4, <2>3, TakesMore
  <2>5. w \o K!Sends(k, up) = Append(Append(w, K!Prefix), c)
    BY <1>1, <1>3, <1>4, <1>5, CodesAre DEF K!Sends
  <2> QED
    BY <1>3, <2>2, <2>4, <2>5
<1>6. CASE ~k.ext
  <2>1. to = View(k.ext, to.down, to.caps, to.chars)
    BY <1>1, <1>2, <1>6 DEF View, KeyViews
  <2>2. \E f : Takes(f, Append(w, c), from, Reads(to, c))
    BY <1>4, TakesMore
  <2>3. w \o K!Sends(k, up) = Append(w, c)
    BY <1>1, <1>3, <1>4, <1>6 DEF K!Sends
  <2> QED
    BY <1>3, <2>1, <2>2, <2>3
<1> QED
  BY <1>5, <1>6

\* A key goes down, or up.
LEMMA TypingPresses ==
    ASSUME TypingInv, part = "keyboard", part' = part, NEW k \in K!Keys, K!Press(k)
    PROVE  TypingInv'
<1> SUFFICES ASSUME ~lost
             PROVE  TypingInv'
  BY DEF K!Press, TypingInv
<1>1. /\ UNCHANGED <<extcode, keymap, capslock, typed, lost>>
      /\ wire' = wire \o K!Sends(k, FALSE)
  BY DEF K!Press
<1>2. PICK caps, column, chars :
        /\ caps = (typist.caps # (k.code = "caps"))
        /\ column = K!Column(k.code, k.ext, K!Shifted(caps, Key("shift", FALSE) \in typist.held))
        /\ chars = IF ~K!HasChar(k.code, column) THEN typist.chars
                   ELSE Append(typist.chars, <<k.code, column>>)
  OBVIOUS
<1>3. typist' = [held |-> typist.held \cup {k}, caps |-> caps, presses |-> typist.presses + 1, chars |-> chars]
  BY <1>2 DEF K!Press, Key
<1>4. /\ typist \in [held : SUBSET K!Keys, caps : BOOLEAN, chars : Seq(K!Codes \X {0, 1}), presses : Nat]
      /\ extcode \in BOOLEAN /\ capslock \in BOOLEAN /\ typed \in Seq(K!Codes \X {0, 1})
      /\ keymap \in [K!Codes \X BOOLEAN -> BOOLEAN]
  BY DEF TypingInv
<1>5. PICK h : Takes(h, wire, Seen, Meant)
  BY DEF TypingInv
<1>6. /\ Meant.ext = FALSE /\ Meant.down = typist.held /\ Meant.caps = typist.caps
      /\ Meant.chars = typist.chars
  BY DEF Meant, View
<1>7. PICK to : to = Pressed(View(k.ext, typist.held, typist.caps, typist.chars), k.code)
  OBVIOUS
<1>9. k.code \in K!Codes /\ k.ext \in BOOLEAN /\ k = Key(k.code, k.ext)
  <2>1. CASE k \in [code : K!Codes \ {"caps"}, ext : BOOLEAN]
    BY <2>1 DEF Key
  <2>2. CASE k = [code |-> "caps", ext |-> FALSE]
    BY <2>2, CodesAre DEF Key
  <2> QED
    BY <2>1, <2>2 DEF K!Keys
<1>8. \E g : Takes(g, wire \o K!Sends(k, FALSE), Seen, to)
  <2>1. [code |-> k.code, up |-> FALSE] # K!Prefix
    BY <1>9, CodesAre
  <2>2. Reads(View(k.ext, typist.held, typist.caps, typist.chars), [code |-> k.code, up |-> FALSE]) = to
    BY <1>7, <2>1 DEF Reads
  <2>3. \E g : Takes(g, wire \o K!Sends(k, FALSE), Seen,
                    Reads(View(k.ext, Meant.down, Meant.caps, Meant.chars), [code |-> k.code, up |-> FALSE]))
    BY <1>5, <1>6, TakesKey
  <2> QED
    BY <1>6, <2>2, <2>3
<1>10. to = View(FALSE, typist.held \cup {k}, caps, chars)
  <2>1. PICK now : now = K!Column(k.code, k.ext, K!Shifted(caps, Key("shift", FALSE) \in typist.held \cup {k}))
    OBVIOUS
  <2>9. PICK then : then = IF K!HasChar(k.code, now) THEN Append(typist.chars, <<k.code, now>>) ELSE typist.chars
    OBVIOUS
  <2>2. to = View(FALSE, typist.held \cup {k}, caps, then)
    BY <1>2, <1>7, <1>9, <2>1, <2>9 DEF Pressed, View
  <2>3. CASE k.code = "shift"
    <3>1. ~K!HasChar(k.code, column) /\ ~K!HasChar(k.code, now)
      BY <2>3, CodesAre DEF K!HasChar
    <3>2. then = chars
      BY <1>2, <2>9, <3>1
    <3> QED
      BY <2>2, <3>2
  <2>4. CASE k.code # "shift"
    <3>1. Key("shift", FALSE) # k
      BY <2>4 DEF Key
    <3>2. now = column
      BY <1>2, <2>1, <3>1 DEF K!Column, K!Shifted
    <3>3. then = chars
      BY <1>2, <2>9, <3>2
    <3> QED
      BY <2>2, <3>3
  <2> QED
    BY <2>3, <2>4
<1>11. Meant' = to /\ Seen' = Seen
  BY <1>1, <1>3, <1>10 DEF Meant, Seen
<1>12. typist' \in [held : SUBSET K!Keys, caps : BOOLEAN, chars : Seq(K!Codes \X {0, 1}), presses : Nat]
  <2>1. caps \in BOOLEAN /\ column \in {0, 1}
    BY <1>2 DEF K!Column
  <2>2. <<k.code, column>> \in K!Codes \X {0, 1}
    BY <1>9, <2>1
  <2>3. chars \in Seq(K!Codes \X {0, 1})
    <3>1. CASE K!HasChar(k.code, column)
      BY <1>2, <1>4, <2>2, <3>1
    <3>2. CASE ~K!HasChar(k.code, column)
      BY <1>2, <1>4, <3>2
    <3> QED
      BY <3>1, <3>2
  <2>4. typist.held \cup {k} \in SUBSET K!Keys /\ typist.presses + 1 \in Nat
    BY <1>4
  <2> QED
    BY <1>3, <2>1, <2>3, <2>4
<1> QED
  BY <1>1, <1>4, <1>8, <1>11, <1>12 DEF TypingInv

LEMMA TypingLetsGo ==
    ASSUME TypingInv, part = "keyboard", part' = part, NEW k \in K!Keys, K!LetGo(k)
    PROVE  TypingInv'
<1> SUFFICES ASSUME ~lost
             PROVE  TypingInv'
  BY DEF K!LetGo, TypingInv
<1>1. /\ UNCHANGED <<extcode, keymap, capslock, typed, lost>>
      /\ wire' = wire \o K!Sends(k, TRUE)
      /\ typist' = [typist EXCEPT !.held = @ \ {k}]
  BY DEF K!LetGo
<1>2. /\ typist \in [held : SUBSET K!Keys, caps : BOOLEAN, chars : Seq(K!Codes \X {0, 1}), presses : Nat]
      /\ extcode \in BOOLEAN /\ capslock \in BOOLEAN /\ typed \in Seq(K!Codes \X {0, 1})
      /\ keymap \in [K!Codes \X BOOLEAN -> BOOLEAN]
  BY DEF TypingInv
<1>3. PICK h : Takes(h, wire, Seen, Meant)
  BY DEF TypingInv
<1>4. /\ Meant.ext = FALSE /\ Meant.down = typist.held /\ Meant.caps = typist.caps
      /\ Meant.chars = typist.chars
  BY DEF Meant, View
<1>5. k = Key(k.code, k.ext) /\ [code |-> k.code, up |-> TRUE] # K!Prefix
  <2>1. CASE k \in [code : K!Codes \ {"caps"}, ext : BOOLEAN]
    BY <2>1 DEF Key, K!Prefix
  <2>2. CASE k = [code |-> "caps", ext |-> FALSE]
    BY <2>2 DEF Key, K!Prefix
  <2> QED
    BY <2>1, <2>2 DEF K!Keys
<1>6. PICK to : to = Reads(View(k.ext, typist.held, typist.caps, typist.chars), [code |-> k.code, up |-> TRUE])
  OBVIOUS
<1>7. to = View(FALSE, typist.held \ {k}, typist.caps, typist.chars)
  BY <1>5, <1>6 DEF Reads, View
<1>8. \E g : Takes(g, wire \o K!Sends(k, TRUE), Seen, to)
  <2>1. \E g : Takes(g, wire \o K!Sends(k, TRUE), Seen,
                    Reads(View(k.ext, Meant.down, Meant.caps, Meant.chars), [code |-> k.code, up |-> TRUE]))
    BY <1>3, <1>4, TakesKey
  <2> QED
    BY <1>4, <1>6, <2>1
<1>9. /\ typist'.held = typist.held \ {k} /\ typist'.caps = typist.caps /\ typist'.chars = typist.chars
      /\ typist' \in [held : SUBSET K!Keys, caps : BOOLEAN, chars : Seq(K!Codes \X {0, 1}), presses : Nat]
  BY <1>1, <1>2
<1>10. Meant' = to /\ Seen' = Seen
  BY <1>1, <1>7, <1>9 DEF Meant, Seen
<1> QED
  BY <1>1, <1>2, <1>8, <1>9, <1>10 DEF TypingInv

\* A mark of keymap is set, or cleared.
Marked(map, c, e, down) == [map EXCEPT ![<<c, e>>] = down]

LEMMA MapDown ==
    ASSUME NEW map \in [K!Codes \X BOOLEAN -> BOOLEAN], NEW c \in K!Codes, NEW e \in BOOLEAN
    PROVE  Marked(map, c, e, TRUE) \in [K!Codes \X BOOLEAN -> BOOLEAN] /\ Down(Marked(map, c, e, TRUE)) = Down(map) \cup {Key(c, e)}
<1>5. PICK map2 : map2 = Marked(map, c, e, TRUE)
  OBVIOUS
<1>1. <<c, e>> \in K!Codes \X BOOLEAN /\ map2 \in [K!Codes \X BOOLEAN -> BOOLEAN]
  BY <1>5 DEF Marked
<1>2. \A k \in [code : K!Codes, ext : BOOLEAN] :
        <<k.code, k.ext>> \in K!Codes \X BOOLEAN /\ (k = Key(c, e) <=> <<k.code, k.ext>> = <<c, e>>)
  BY DEF Key
<1>3. Key(c, e) \in [code : K!Codes, ext : BOOLEAN]
  BY DEF Key
<1>4. map2[<<c, e>>] /\ \A k \in K!Codes \X BOOLEAN : k # <<c, e>> => map2[k] = map[k]
  BY <1>1, <1>5 DEF Marked
<1> QED
  BY <1>1, <1>2, <1>3, <1>4, <1>5 DEF Down

LEMMA MapUp ==
    ASSUME NEW map \in [K!Codes \X BOOLEAN -> BOOLEAN], NEW c \in K!Codes, NEW e \in BOOLEAN
    PROVE  Marked(map, c, e, FALSE) \in [K!Codes \X BOOLEAN -> BOOLEAN] /\ Down(Marked(map, c, e, FALSE)) = Down(map) \ {Key(c, e)}
<1>5. PICK map2 : map2 = Marked(map, c, e, FALSE)
  OBVIOUS
<1>1. <<c, e>> \in K!Codes \X BOOLEAN /\ map2 \in [K!Codes \X BOOLEAN -> BOOLEAN]
  BY <1>5 DEF Marked
<1>2. \A k \in [code : K!Codes, ext : BOOLEAN] :
        <<k.code, k.ext>> \in K!Codes \X BOOLEAN /\ (k = Key(c, e) <=> <<k.code, k.ext>> = <<c, e>>)
  BY DEF Key
<1>3. Key(c, e) \in [code : K!Codes, ext : BOOLEAN]
  BY DEF Key
<1>4. ~map2[<<c, e>>] /\ \A k \in K!Codes \X BOOLEAN : k # <<c, e>> => map2[k] = map[k]
  BY <1>1, <1>5 DEF Marked
<1> QED
  BY <1>1, <1>2, <1>3, <1>4, <1>5 DEF Down

\* The handler takes a code, if set_leds has thrown none away.
LEMMA TypingHandles ==
    ASSUME TypingInv, part = "keyboard", part' = part, K!keyboard_handler
    PROVE  TypingInv'
<1> SUFFICES ASSUME ~lost, ~lost'
             PROVE  TypingInv'
  <2>1. lost => lost'
    BY DEF K!keyboard_handler, K!PrefixCode, K!KeyUp, K!KeyDown, K!SetLeds
  <2> QED
    BY <2>1 DEF TypingInv
<1>1. /\ extcode \in BOOLEAN /\ capslock \in BOOLEAN /\ typed \in Seq(K!Codes \X {0, 1})
      /\ keymap \in [K!Codes \X BOOLEAN -> BOOLEAN]
      /\ typist \in [held : SUBSET K!Keys, caps : BOOLEAN, chars : Seq(K!Codes \X {0, 1}), presses : Nat]
  BY DEF TypingInv
<1>2. PICK h : Takes(h, wire, Seen, Meant)
  BY DEF TypingInv
<1>3. wire \in Seq(KeySignals) /\ wire # << >> /\ Meant' = Meant
  BY <1>2 DEF Takes, K!keyboard_handler, Meant
<1>4. PICK c \in KeySignals : c = wire[1] /\ c = Head(wire)
  BY <1>3
<1>5. \E g : Takes(g, Tail(wire), Reads(Seen, c), Meant)
  BY <1>2, <1>3, <1>4, TakesFirst
<1>6. /\ Seen.ext = extcode /\ Seen.down = Down(keymap) /\ Seen.caps = capslock /\ Seen.chars = typed
  BY DEF Seen, View
<1>7. /\ c # K!Prefix => c.code \in K!Codes
      /\ (c = K!Prefix /\ K!PrefixCode) \/ (c # K!Prefix /\ c.up /\ K!KeyUp(c.code))
                                       \/ (c # K!Prefix /\ ~c.up /\ K!KeyDown(c.code))
  BY <1>4 DEF KeySignals, K!keyboard_handler
<1> DEFINE Types == /\ extcode' \in BOOLEAN /\ capslock' \in BOOLEAN /\ typed' \in Seq(K!Codes \X {0, 1})
                    /\ keymap' \in [K!Codes \X BOOLEAN -> BOOLEAN]
<1> DEFINE Goal == /\ wire' = Tail(wire) /\ Seen' = Reads(Seen, c)
<1>8. ASSUME c = K!Prefix /\ K!PrefixCode
      PROVE  Goal /\ Types
  <2>1. extcode' = TRUE /\ wire' = Tail(wire) /\ UNCHANGED <<keymap, capslock, typed>>
    BY <1>8 DEF K!PrefixCode
  <2>2. Seen' = Reads(Seen, c)
    BY <1>6, <1>8, <2>1 DEF Seen, Reads
  <2>3. Types
    BY <1>1, <2>1
  <2> QED
    BY <2>1, <2>2, <2>3
<1>9. ASSUME c # K!Prefix /\ c.up /\ K!KeyUp(c.code)
      PROVE  Goal /\ Types
  <2>1. /\ extcode' = FALSE /\ wire' = Tail(wire) /\ UNCHANGED <<capslock, typed>>
        /\ keymap' = Marked(keymap, c.code, extcode, FALSE)
    BY <1>9 DEF K!KeyUp, Marked
  <2>2. /\ keymap' \in [K!Codes \X BOOLEAN -> BOOLEAN]
        /\ Down(keymap') = Down(keymap) \ {Key(c.code, extcode)}
    BY ZenonT(30), <1>1, <1>7, <1>9, <2>1, MapUp
  <2>3. Seen' = Reads(Seen, c)
    BY <1>6, <1>9, <2>1, <2>2 DEF Seen, Reads
  <2>4. Types
    BY <1>1, <2>1, <2>2
  <2> QED
    BY <2>1, <2>3, <2>4
<1>10. ASSUME c # K!Prefix /\ ~c.up /\ K!KeyDown(c.code)
      PROVE  Goal /\ Types
  <2>1. /\ extcode' = FALSE
        /\ keymap' = Marked(keymap, c.code, extcode, TRUE)
        /\ capslock' = (capslock # (c.code = "caps"))
    BY <1>10 DEF K!KeyDown, Marked
  <2>2. /\ keymap' \in [K!Codes \X BOOLEAN -> BOOLEAN]
        /\ Down(keymap') = Down(keymap) \cup {Key(c.code, extcode)}
    BY <1>1, <1>7, <1>10, <2>1, MapDown
  <2>3. wire' = Tail(wire)
    <3>1. CASE c.code = "caps"
      <4>1. PICK n \in 0 .. Len(wire) - 1 : wire' = SubSeq(wire, n + 2, Len(wire)) /\ (n > 0 => lost')
        BY <1>10, <3>1 DEF K!KeyDown, K!SetLeds
      <4>2. n = 0
        BY <1>3, <4>1
      <4> QED
        BY <1>3, <4>1, <4>2
    <3>2. CASE c.code # "caps"
      BY <1>10, <3>2 DEF K!KeyDown
    <3> QED
      BY <3>1, <3>2
  <2>4. PICK column : column = K!Column(c.code, extcode, K!Shifted(capslock', keymap'[<<"shift", FALSE>>]))
    OBVIOUS
  <2>5. typed' = IF K!HasChar(c.code, column) THEN Append(typed, <<c.code, column>>) ELSE typed
    BY <1>10, <2>4 DEF K!KeyDown, K!shift_state
  <2>6. /\ keymap'[<<"shift", FALSE>>] <=> Key("shift", FALSE) \in Down(keymap')
        /\ keymap'[<<"shift", FALSE>>] \in BOOLEAN
    <3>1. keymap'[<<"shift", FALSE>>] \in BOOLEAN
      BY <2>2, CodesAre
    <3>2. keymap'[<<"shift", FALSE>>] <=> Key("shift", FALSE) \in Down(keymap')
      BY <2>2, CodesAre DEF Down, Key
    <3> QED
      BY <3>1, <3>2
  <2>7. typed' \in Seq(K!Codes \X {0, 1}) /\ capslock' \in BOOLEAN
    <3>1. <<c.code, column>> \in K!Codes \X {0, 1}
      BY <1>7, <1>10, <2>4 DEF K!Column
    <3>2. CASE K!HasChar(c.code, column)
      BY <1>1, <2>1, <2>5, <3>1, <3>2
    <3>3. CASE ~K!HasChar(c.code, column)
      BY <1>1, <2>1, <2>5, <3>3
    <3> QED
      BY <3>2, <3>3
  <2>8. Seen' = Reads(Seen, c)
    <3>1. Seen' = View(FALSE, Down(keymap) \cup {Key(c.code, extcode)}, capslock', typed')
      BY <2>1, <2>2 DEF Seen
    <3>2. column = K!Column(c.code, extcode, K!Shifted(capslock', Key("shift", FALSE) \in Down(keymap')))
      BY <2>4, <2>6 DEF K!Column, K!Shifted
    <3>3. Pressed(Seen, c.code) = View(FALSE, Down(keymap) \cup {Key(c.code, extcode)}, capslock', typed')
      BY <1>6, <2>1, <2>2, <2>5, <3>2 DEF Pressed
    <3> QED
      BY <1>10, <3>1, <3>3 DEF Reads
  <2>9. Types
    BY <2>1, <2>2, <2>7
  <2> QED
    BY <2>3, <2>8, <2>9
<1> HIDE DEF Goal, Types
<1>11. Goal /\ Types
  BY <1>7, <1>8, <1>9, <1>10
<1>12. typist' = typist
  BY DEF K!keyboard_handler
<1> QED
  BY <1>1, <1>3, <1>5, <1>11, <1>12 DEF TypingInv, Goal, Types

LEMMA TypingSteps ==
    ASSUME TypingInv, [MCNext]_allVars
    PROVE  TypingInv'
<1> SUFFICES ASSUME part = "keyboard", part' = part, [K!Next]_K!vars
             PROVE  TypingInv'
  BY StepsOfParts DEF TypingInv
<1>1. CASE UNCHANGED K!keyVars
  BY <1>1, TypingUntouched
<1>2. K!Next => (\E k \in K!Keys : K!Press(k) \/ K!LetGo(k)) \/ K!keyboard_handler \/ UNCHANGED K!keyVars
  BY DEF K!Next, K!keyboard_read
<1>3. UNCHANGED K!vars => UNCHANGED K!keyVars
  BY DEF K!vars
<1> QED
  BY <1>1, <1>2, <1>3, TypingPresses, TypingLetsGo, TypingHandles

LEMMA TypingMeans == TypingInv => KeyboardTypesAsMeant
<1> SUFFICES ASSUME TypingInv, part = "keyboard", ~lost
             PROVE  /\ IsPrefix(typed, typist.chars)
                    /\ wire = << >> =>
                        /\ typed = typist.chars
                        /\ \A c \in K!Codes, ext \in BOOLEAN :
                            keymap[c, ext] <=> [code |-> c, ext |-> ext] \in typist.held
  BY DEF KeyboardTypesAsMeant, K!TypedAsMeant, K!IsPrefix, IsPrefix
<1>1. PICK h : Takes(h, wire, Seen, Meant)
  BY DEF TypingInv
<1>2. typed \in Seq(K!Codes \X {0, 1}) /\ typist.chars \in Seq(K!Codes \X {0, 1})
  BY DEF TypingInv
<1>3. Begins(typed, typist.chars)
  <2>1. 0 \in 0 .. Len(wire) /\ h[0] = Seen
    BY <1>1 DEF Takes
  <2> QED
    BY <1>1, <2>1 DEF Takes, Seen, Meant, View
<1>4. IsPrefix(typed, typist.chars)
  <2>1. /\ Len(typed) \in Nat /\ Len(typist.chars) \in Nat /\ Len(typed) <= Len(typist.chars)
        /\ \A i \in 1 .. Len(typed) : typed[i] = typist.chars[i]
    BY <1>2, <1>3 DEF Begins
  <2>2. PICK s, t : s = SubSeq(typed, 1, Len(typed)) /\ t = SubSeq(typist.chars, 1, Len(typed))
    OBVIOUS
  <2>3. /\ s \in Seq(K!Codes \X {0, 1}) /\ t \in Seq(K!Codes \X {0, 1})
        /\ Len(s) = Len(typed) /\ Len(t) = Len(typed)
        /\ \A i \in 1 .. Len(typed) : s[i] = typed[i] /\ t[i] = typist.chars[i]
    BY <1>2, <2>1, <2>2
  <2>4. Len(s) = Len(t) /\ \A i \in 1 .. Len(s) : s[i] = t[i]
    BY <2>1, <2>3
  <2>5. s = t
    BY <2>3, <2>4
  <2> QED
    BY <2>1, <2>2, <2>5 DEF IsPrefix
<1>5. ASSUME wire = << >>
      PROVE  /\ typed = typist.chars
             /\ \A c \in K!Codes, ext \in BOOLEAN :
                 keymap[c, ext] <=> [code |-> c, ext |-> ext] \in typist.held
  <2>1. Seen = Meant
    BY <1>1, <1>5 DEF Takes
  <2>2. typed = typist.chars /\ Down(keymap) = typist.held
    BY <2>1 DEF Seen, Meant, View
  <2> QED
    BY <2>2 DEF Down
<1> QED
  BY <1>4, <1>5

\* What was typed is what the typist meant: whatever the codes on their way to
\* the handler, and however late it takes them, as long as set_leds throws
\* none away.
THEOREM KeyboardTypes == MCSpec => []KeyboardTypesAsMeant
BY TypingStarts, TypingSteps, TypingMeans, PTL DEF MCSpec

-----------------------------------------------------------------------------
(* Division with remainder.                                                *)

LEMMA MultipleBelow ==
    ASSUME NEW n \in Nat \ {0}, NEW d \in Int, NEW e \in Int, n * d = e, e < n, -n < e
    PROVE  d = 0
<1>1. CASE d >= 1
  <2>1. n * (d - 1) >= 0 /\ n * d = n * (d - 1) + n
    BY <1>1
  <2> QED
    BY <2>1
<1>2. CASE d <= -1
  <2>1. n * (-d - 1) >= 0 /\ n * d = -(n * (-d - 1)) - n
    BY <1>2
  <2> QED
    BY <2>1
<1> QED
  BY <1>1, <1>2

\* Division with remainder, one way only.
LEMMA RemainderIs ==
    ASSUME NEW a \in Int, NEW n \in Nat \ {0}, NEW q \in Int, NEW r \in 0 .. n - 1, a = n * q + r
    PROVE  a % n = r /\ a \div n = q
<1>1. PICK p \in Int, s \in Int : p = a \div n /\ s = a % n
  OBVIOUS
<1>2. a = n * p + s /\ s >= 0 /\ s < n
  BY <1>1
<1>3. PICK d \in Int, e \in Int : d = q - p /\ e = s - r
  OBVIOUS
<1>4. n * d = n * q - n * p
  BY <1>3
<1>5. n * d = e /\ e < n /\ -n < e
  BY <1>2, <1>3, <1>4
<1>6. d = 0
  BY <1>5, MultipleBelow
<1> QED
  BY <1>1, <1>2, <1>3, <1>5, <1>6

LEMMA AddedDivides ==
    ASSUME NEW a \in Nat, NEW n \in Nat \ {0}
    PROVE  (a + n) % n = a % n
<1>1. PICK q \in Int, r \in Int : q = a \div n /\ r = a % n
  OBVIOUS
<1>2. a = n * q + r /\ r \in 0 .. n - 1
  BY <1>1
<1>3. a + n = n * (q + 1) + r
  BY <1>2
<1>4. PICK b \in Int, c \in Int : b = a + n /\ c = q + 1
  OBVIOUS
<1>5. b = n * c + r
  BY <1>3, <1>4
<1>6. b % n = r
  BY <1>2, <1>5, RemainderIs
<1> QED
  BY <1>1, <1>4, <1>6

-----------------------------------------------------------------------------
(* The line of a serial port.                                              *)

LEMMA WriteCountAssumed == WriteCount \in Nat \ {0}
BY MCAssumption DEF MCAssumption, S!SerialAssumption

\* The line between two bytes: whole writes, and after them the part of one
\* whose task is inside the loop and has the rest to write.
Line(ln, p, rest) ==
    /\ ln \in Seq(Serials)
    /\ \A i \in 2 .. Len(ln) : (i - 1) % WriteCount # 0 => ln[i] = ln[i - 1]
    /\ \A t \in Serials : p[t] = "writing" =>
        /\ rest[t] \in 1 .. WriteCount
        /\ (Len(ln) + rest[t]) % WriteCount = 0
        /\ rest[t] # WriteCount => Len(ln) # 0 /\ ln[Len(ln)] = t
    /\ (\A t \in Serials : p[t] # "writing") => Len(ln) % WriteCount = 0
    /\ \A t \in Serials : p[t] = "wlocking" => rest[t] = WriteCount

LEMMA LineStays ==
    ASSUME NEW ln, NEW p, NEW q, NEW rest, NEW rest2, Line(ln, p, rest),
           \A u \in Serials : p[u] \in {"writing", "wlocking"} \/ q[u] \in {"writing", "wlocking"}
                              => q[u] = p[u] /\ rest2[u] = rest[u]
    PROVE  Line(ln, q, rest2)
<1>1. \A t \in Serials : q[t] \in {"writing", "wlocking"} => p[t] = q[t] /\ rest2[t] = rest[t]
  OBVIOUS
<1>2. (\A t \in Serials : q[t] # "writing") => (\A t \in Serials : p[t] # "writing")
  OBVIOUS
<1> QED
  BY <1>1, <1>2 DEF Line

\* A call begins, or waits for the lock.
LEMMA LineEnters ==
    ASSUME NEW ln, NEW p, NEW q, NEW rest, NEW rest2, Line(ln, p, rest), NEW t \in Serials,
           NEW place \in {"writing", "wlocking"},
           p[t] # "writing",
           place = "writing" => \A u \in Serials : p[u] # "writing",
           rest2[t] = WriteCount, q[t] = place,
           \A u \in Serials : u # t => q[u] = p[u] /\ rest2[u] = rest[u]
    PROVE  Line(ln, q, rest2)
<1>1. WriteCount \in Nat \ {0} /\ WriteCount \in 1 .. WriteCount
  BY WriteCountAssumed
<1>2. ln \in Seq(Serials) /\ Len(ln) \in Nat
  BY DEF Line
<1>3. \A u \in Serials : q[u] = "wlocking" => rest2[u] = WriteCount
  BY DEF Line
<1>4. CASE place = "writing"
  <2>1. (Len(ln) + WriteCount) % WriteCount = 0
    <3>1. Len(ln) % WriteCount = 0
      BY <1>4 DEF Line
    <3> QED
      BY <1>1, <1>2, <3>1, AddedDivides
  <2>2. \A u \in Serials : q[u] = "writing" => u = t
    BY <1>4
  <2> QED
    BY <1>1, <1>3, <1>4, <2>1, <2>2 DEF Line
<1>5. CASE place = "wlocking"
  <2>1. \A u \in Serials : q[u] = "writing" => p[u] = "writing" /\ rest2[u] = rest[u]
    BY <1>5
  <2>2. (\A u \in Serials : q[u] # "writing") => (\A u \in Serials : p[u] # "writing")
    OBVIOUS
  <2> QED
    BY <1>3, <2>1, <2>2 DEF Line
<1> QED
  BY <1>4, <1>5

\* A byte of t goes out; with the last one the call returns.
OneByte(t, ln, p, rest, ln2, q, rest2) ==
    /\ ln2 = Append(ln, t) /\ rest2[t] = rest[t] - 1
    /\ q[t] = IF rest[t] > 1 THEN "writing" ELSE "user"
    /\ \A u \in Serials : u # t => q[u] = p[u] /\ rest2[u] = rest[u]

LEMMA LineWrites ==
    ASSUME NEW ln, NEW ln2, NEW p, NEW q, NEW rest, NEW rest2, Line(ln, p, rest), NEW t \in Serials,
           \A u \in Serials : p[u] = "writing" <=> u = t,
           OneByte(t, ln, p, rest, ln2, q, rest2)
    PROVE  Line(ln2, q, rest2)
<1> USE DEF OneByte
<1>1. /\ WriteCount \in Nat \ {0} /\ ln \in Seq(Serials) /\ Len(ln) \in Nat
      /\ rest[t] \in 1 .. WriteCount /\ (Len(ln) + rest[t]) % WriteCount = 0
      /\ rest[t] # WriteCount => Len(ln) # 0 /\ ln[Len(ln)] = t
  BY WriteCountAssumed DEF Line
<1>2. /\ ln2 \in Seq(Serials) /\ Len(ln2) = Len(ln) + 1 /\ ln2[Len(ln2)] = t
      /\ \A i \in 1 .. Len(ln) : ln2[i] = ln[i]
  BY <1>1
<1>3. PICK n \in Nat, r \in Nat : n = Len(ln) /\ r = rest[t]
  BY <1>1
<1>4. r \in 1 .. WriteCount /\ (n + r) % WriteCount = 0 /\ (n + 1) + (r - 1) = n + r
  <2>1. n + r = Len(ln) + rest[t]
    BY <1>3
  <2>2. (n + r) % WriteCount = 0
    BY <1>1, <2>1
  <2>3. r \in 1 .. WriteCount
    BY <1>1, <1>3
  <2> QED
    BY <2>2, <2>3
<1>5. \A i \in 2 .. Len(ln2) : (i - 1) % WriteCount # 0 => ln2[i] = ln2[i - 1]
  <2> SUFFICES ASSUME NEW i \in 2 .. Len(ln2), (i - 1) % WriteCount # 0
               PROVE  ln2[i] = ln2[i - 1]
    OBVIOUS
  <2>1. CASE i = n + 1
    <3>1. r # WriteCount
      <4> SUFFICES ASSUME r = WriteCount
                   PROVE  FALSE
        OBVIOUS
      <4>1. (n + WriteCount) % WriteCount = n % WriteCount
        BY <1>1, AddedDivides
      <4>2. n % WriteCount = 0
        BY <1>4, <4>1
      <4>3. i - 1 = n
        BY <2>1
      <4> QED
        BY <4>2, <4>3
    <3>2. n # 0 /\ ln[n] = t /\ n \in 1 .. n /\ i - 1 = n
      BY <1>1, <1>3, <2>1, <3>1
    <3>3. ln2[n] = t
      BY <1>2, <1>3, <3>2
    <3> QED
      BY <1>2, <1>3, <2>1, <3>2, <3>3
  <2>2. CASE i # n + 1
    <3>1. i \in 2 .. n /\ i \in 1 .. n /\ i - 1 \in 1 .. n
      BY <1>2, <1>3, <2>2
    <3>2. ln[i] = ln[i - 1]
      BY <1>3, <3>1 DEF Line
    <3> QED
      BY <1>2, <1>3, <3>1, <3>2
  <2> QED
    BY <2>1, <2>2
<1>6. \A u \in Serials : q[u] = "writing" =>
        /\ rest2[u] \in 1 .. WriteCount
        /\ (Len(ln2) + rest2[u]) % WriteCount = 0
        /\ rest2[u] # WriteCount => Len(ln2) # 0 /\ ln2[Len(ln2)] = u
  <2> SUFFICES ASSUME NEW u \in Serials, q[u] = "writing"
               PROVE  /\ rest2[u] \in 1 .. WriteCount
                      /\ (Len(ln2) + rest2[u]) % WriteCount = 0
                      /\ rest2[u] # WriteCount => Len(ln2) # 0 /\ ln2[Len(ln2)] = u
    OBVIOUS
  <2>1. u = t /\ r > 1
    BY <1>3
  <2>2. rest2[u] = r - 1 /\ Len(ln2) = n + 1
    BY <1>2, <1>3, <2>1
  <2>3. rest2[u] \in 1 .. WriteCount
    BY <1>1, <1>4, <2>1, <2>2
  <2>4. Len(ln2) + rest2[u] = n + r
    BY <2>2
  <2>5. (Len(ln2) + rest2[u]) % WriteCount = 0
    BY <1>4, <2>4
  <2>6. Len(ln2) # 0 /\ ln2[Len(ln2)] = u
    BY <1>2, <2>1, <2>2
  <2> QED
    BY <2>3, <2>5, <2>6
<1>7. (\A u \in Serials : q[u] # "writing") => Len(ln2) % WriteCount = 0
  <2> SUFFICES ASSUME q[t] # "writing"
               PROVE  Len(ln2) % WriteCount = 0
    OBVIOUS
  <2>1. r = 1
    BY <1>3, <1>4
  <2> QED
    BY <1>2, <1>3, <1>4, <2>1
<1>8. \A u \in Serials : q[u] = "wlocking" => rest2[u] = WriteCount
  BY DEF Line
<1> QED
  BY <1>2, <1>5, <1>6, <1>7, <1>8 DEF Line


-----------------------------------------------------------------------------
(* The two sides of a serial port.                                         *)

\* WaitingProofs is about the mutex of mutex.c too, which is not in use here.
SD == INSTANCE WaitingProofs WITH Tasks <- Serials, Readers <- Serials \ {Idle}, Writers <- Serials \ {Idle},
        MaxCount <- DriverCount, MaxDepth <- 1, value <- 0, waiters <- << >>, holder <- None, repeat <- 0

LEMMA SerialDevice ==
    /\ S!CharDeviceAssumption = SD!D!CharDeviceAssumption
    /\ S!ReadInit = SD!D!ReadInit
    /\ S!ReadNext = SD!D!ReadNext
    /\ S!TimerPreempts = SD!D!TimerPreempts
    /\ S!ReaderWaits = SD!D!ReaderWaits
    /\ S!DropsOldest = SD!D!DropsOldest
<1>1. S!CharDeviceAssumption = SD!D!CharDeviceAssumption
  BY DEF S!CharDeviceAssumption, SD!D!CharDeviceAssumption
<1>2. S!ReadInit = SD!D!ReadInit
  BY DEF
   S!ReadInit, S!DispatchInit, S!fifo_init, S!Cells, S!FreeLock, SD!D!ReadInit,
   SD!D!DispatchInit, SD!D!fifo_init, SD!D!Cells, SD!D!FreeLock
<1>3. S!ReadNext = SD!D!ReadNext
  BY DEF
   S!ReadNext, S!Running, S!Acquire, S!Acquired, S!Release, S!Released, S!Read, S!ReadRelock,
   S!ReadBlocks, S!ReadByte, S!Mark, S!Wake, S!Ready, S!Eligible, S!Switched, S!Dispatch,
   S!fifo_empty, S!fifo_next, S!FirstByte, S!AfterGet, S!Front, S!Last, SD!D!ReadNext,
   SD!D!Running, SD!D!Acquire, SD!D!Acquired, SD!D!Release, SD!D!Released, SD!D!Read,
   SD!D!ReadRelock, SD!D!ReadBlocks, SD!D!ReadByte, SD!D!Mark, SD!D!Wake, SD!D!Ready,
   SD!D!Eligible, SD!D!Switched, SD!D!Dispatch, SD!D!fifo_empty, SD!D!fifo_next,
   SD!D!FirstByte, SD!D!AfterGet, SD!D!Front, SD!D!Last
<1>4. S!TimerPreempts = SD!D!TimerPreempts
  BY DEF
   S!TimerPreempts, S!InterruptsOn, S!Dispatch, S!Ready, S!Eligible, S!Switched, S!readVars,
   SD!D!TimerPreempts, SD!D!InterruptsOn, SD!D!Dispatch, SD!D!Ready, SD!D!Eligible,
   SD!D!Switched, SD!D!readVars
<1>5. S!ReaderWaits = SD!D!ReaderWaits /\ S!DropsOldest = SD!D!DropsOldest
  BY DEF
   S!ReaderWaits, S!DropsOldest, S!fifo_empty, S!Contents, S!Range, SD!D!ReaderWaits,
   SD!D!DropsOldest, SD!D!fifo_empty, SD!D!Contents, SD!D!Range
<1> QED
  BY <1>1, <1>2, <1>3, <1>4, <1>5

LEMMA SerialAssumed ==
    /\ SD!D!CharDeviceAssumption /\ SD!FifosAssumed
    /\ Serials \ {Idle} \subseteq Serials \ {Idle}
    /\ None \notin Serials /\ DriverCount \in Nat /\ MaxBytes \in Nat
    /\ Length \in Nat /\ Length > 1
    /\ Idle \in Serials /\ Boot \notin Serials /\ 1 \in Nat \ {0}
    /\ WriteCount \in Nat \ {0}
<1>1. S!CharDeviceAssumption /\ WriteCount \in Nat \ {0}
  BY MCAssumption DEF MCAssumption, S!SerialAssumption
<1>2. SD!D!CharDeviceAssumption
  BY <1>1, SerialDevice
<1>3. None \notin Serials /\ DriverCount \in Nat /\ Idle \in Serials /\ Boot \notin Serials
  BY <1>1 DEF S!CharDeviceAssumption
<1>4. MaxBytes \in Nat /\ Length \in Nat /\ Length > 1
  BY PipeAssumption, FifoAssumption
<1>5. SD!FifosAssumed
  BY <1>3, <1>4 DEF SD!FifosAssumed
<1> QED
  BY <1>1, <1>2, <1>3, <1>4, <1>5

\* The operators of the writing side.
LEMMA SerialSame ==
    ASSUME NEW lk, NEW t
    PROVE  /\ S!Acquire(lk, t, "writing", "wlocking") <=> SD!D!Acquire(lk, t, "writing", "wlocking")
           /\ S!Acquired(lk, t) = SD!D!Acquired(lk, t)
           /\ S!Release(lk) <=> SD!D!Release(lk)
           /\ S!Released(lk) = SD!D!Released(lk)
           /\ S!Dispatch(S!Mark(t, "BLOCKED")) <=> SD!D!Dispatch(SD!D!Mark(t, "BLOCKED"))
           /\ S!Wake(state, t) = SD!D!Wake(state, t)
           /\ S!AfterPut(lk, t) = SD!D!AfterPut(lk, t)
           /\ S!FreeLock = SD!D!FreeLock
<1>1. S!Dispatch(S!Mark(t, "BLOCKED")) <=> SD!D!Dispatch(SD!D!Mark(t, "BLOCKED"))
  BY DEF S!Dispatch, S!Mark, S!Eligible, S!Ready, S!Switched,
     SD!D!Dispatch, SD!D!Mark, SD!D!Eligible, SD!D!Ready, SD!D!Switched
<1>2. S!Acquire(lk, t, "writing", "wlocking") <=> SD!D!Acquire(lk, t, "writing", "wlocking")
  BY <1>1 DEF S!Acquire, SD!D!Acquire
<1>3. S!Acquired(lk, t) = SD!D!Acquired(lk, t) /\ S!Released(lk) = SD!D!Released(lk)
  BY DEF S!Acquired, SD!D!Acquired, S!Released, SD!D!Released, S!Front, SD!D!Front
<1>4. S!Release(lk) <=> SD!D!Release(lk)
  BY DEF S!Release, S!Wake, S!Last, S!Dispatch, S!Eligible, S!Ready, S!Switched,
     SD!D!Release, SD!D!Wake, SD!D!Last, SD!D!Dispatch, SD!D!Eligible, SD!D!Ready, SD!D!Switched
<1>5. S!Wake(state, t) = SD!D!Wake(state, t) /\ S!FreeLock = SD!D!FreeLock
  BY DEF S!Wake, SD!D!Wake, S!FreeLock, SD!D!FreeLock
<1>6. S!AfterPut(lk, t) = SD!D!AfterPut(lk, t)
  BY DEF S!AfterPut, S!AfterGet, S!fifo_full, S!fifo_next,
     SD!D!AfterPut, SD!D!AfterGet, SD!D!fifo_full, SD!D!fifo_next
<1> QED
  BY <1>1, <1>2, <1>3, <1>4, <1>5, <1>6

SerialInv ==
    part = "serial" =>
        /\ SD!DeviceInv
        /\ SD!Side(SD!Blocked(state), pc, wlock, txwaiter, "writing", "wlocking")
        /\ Line(line, pc, left)

LEMMA SerialStarts == MCInit => SerialInv
<1> SUFFICES ASSUME S!Init
             PROVE  /\ SD!DeviceInv
                    /\ SD!Side(SD!Blocked(state), pc, wlock, txwaiter, "writing", "wlocking")
                    /\ Line(line, pc, left)
  BY DEF MCInit, SerialInv
<1>1. SD!DeviceInv
  <2>1. SD!D!ReadInit
    BY SerialDevice DEF S!Init
  <2> QED
    BY <2>1, SerialAssumed, SD!DeviceInit
<1>2. /\ \A t \in Serials : pc[t] = "user"
      /\ SD!Blocked(state) = {}
      /\ wlock = [holder |-> None, waiters |-> << >>] /\ txwaiter = None /\ line = << >>
  BY DEF S!Init, S!ReadInit, S!DispatchInit, S!FreeLock, SD!Blocked
<1>3. SD!Side(SD!Blocked(state), pc, wlock, txwaiter, "writing", "wlocking")
  <2>1. wlock \in SD!Locks /\ txwaiter \in Serials \cup {None}
    BY <1>2 DEF SD!Locks
  <2>2. wlock.waiters = << >> /\ Len(wlock.waiters) = 0 /\ 1 .. Len(wlock.waiters) = {}
    BY <1>2
  <2> QED
    BY <1>2, <2>1, <2>2 DEF SD!Side
<1>4. Line(line, pc, left)
  <2>1. line \in Seq(Serials) /\ Len(line) = 0 /\ 2 .. Len(line) = {} /\ Len(line) % WriteCount = 0
    BY <1>2, SerialAssumed
  <2> QED
    BY <1>2, <2>1 DEF Line
<1> QED
  BY <1>1, <1>3, <1>4

\* A step that neither the tasks nor the writing side see.
LEMMA SerialUntouched ==
    ASSUME SerialInv, part = "serial", part' = part,
           UNCHANGED <<current, state, S!readVars, txwaiter, wlock, line>>
    PROVE  SerialInv'
<1>1. UNCHANGED <<current, state, ring, rxwaiter, rlock, pc, left, sent, received, txwaiter, wlock, line>>
  BY DEF S!readVars
<1>2. /\ SD!World(current', state', pc') /\ left' \in [Serials -> Int]
      /\ SD!Apart(SD!Blocked(state), pc, SD!Blocked(state'), pc', {})
  BY <1>1 DEF SerialInv, SD!DeviceInv, SD!World, SD!Apart
<1>3. SD!DeviceInv'
  BY <1>1, <1>2, SerialAssumed, SD!DeviceOther DEF SerialInv
<1>4. SD!Side(SD!Blocked(state'), pc', wlock', txwaiter', "writing", "wlocking")
  BY <1>1 DEF SerialInv
<1>5. Line(line', pc', left')
  BY <1>1 DEF SerialInv
<1> QED
  BY <1>3, <1>4, <1>5 DEF SerialInv

\* recv_data and the writer.
LEMMA SerialHandles ==
    ASSUME SerialInv, part = "serial", part' = part, S!serial_handler
    PROVE  SerialInv'
<1>1. /\ SD!DeviceInv /\ SD!World(current, state, pc) /\ Line(line, pc, left)
      /\ SD!Side(SD!Blocked(state), pc, wlock, txwaiter, "writing", "wlocking")
      /\ SD!Side(SD!Blocked(state), pc, rlock, rxwaiter, "reading", "rlocking")
  BY DEF SerialInv, SD!DeviceInv
<1>2. PICK W : W = ({rxwaiter} \cup (IF thre THEN {txwaiter} ELSE {})) \ {None}
  OBVIOUS
<1>3. /\ sent' = sent + 1 /\ ring' = SD!D!AfterPut(ring, sent + 1)
      /\ state' = SD!D!Wake(state, W) /\ rxwaiter' = None
      /\ txwaiter' = IF thre THEN None ELSE txwaiter
      /\ UNCHANGED <<current, rlock, pc, left, received, wlock, line>>
  <2>1. S!AfterPut(ring, sent + 1) = SD!D!AfterPut(ring, sent + 1) /\ S!Wake(state, W) = SD!D!Wake(state, W)
    BY DEF S!AfterPut, S!AfterGet, S!fifo_full, S!fifo_next, S!Wake,
       SD!D!AfterPut, SD!D!AfterGet, SD!D!fifo_full, SD!D!fifo_next, SD!D!Wake
  <2> QED
    BY <1>2, <2>1 DEF S!serial_handler
<1>4. txwaiter # None => pc[txwaiter] = "writing" /\ txwaiter \in Serials
  BY <1>1 DEF SD!Side
<1>5. rxwaiter # None => pc[rxwaiter] = "reading" /\ rxwaiter \in Serials
  BY <1>1 DEF SD!Side
<1>6. SD!DeviceInv'
  <2>1. /\ \A u \in Serials : u \in W /\ u # rxwaiter => pc[u] \notin {"reading", "rlocking"}
        /\ rxwaiter # None => rxwaiter \in W
    BY <1>2, <1>4
  <2> QED
    BY <1>1, <1>3, <2>1, SerialAssumed, SD!DeviceReceives
<1>7. SD!Side(SD!Blocked(state'), pc', wlock', txwaiter', "writing", "wlocking")
  <2>1. pc \in [Serials -> SD!Places] /\ state \in [Serials -> SD!P!TaskState]
    BY <1>1 DEF SD!World
  <2>2. SD!Blocked(state') = SD!Blocked(state) \ W
    BY <1>3 DEF SD!Blocked, SD!D!Wake
  <2>3. SD!Blocked(state) \subseteq Serials /\ SD!Blocked(state') \subseteq Serials
    BY DEF SD!Blocked
  <2>4. CASE thre
    <3>1. SD!Side(SD!Blocked(state) \ {txwaiter}, pc, wlock, None, "writing", "wlocking")
      BY <1>1, <2>1, SerialAssumed, SD!SideWakes DEF SD!SidePlaces
    <3>2. SD!Apart(SD!Blocked(state) \ {txwaiter}, pc, SD!Blocked(state'), pc', {"reading", "rlocking"})
      BY <1>2, <1>3, <1>5, <2>2, <2>3, <2>4, SerialAssumed DEF SD!Apart
    <3>3. SD!Side(SD!Blocked(state'), pc', wlock, None, "writing", "wlocking")
      BY <2>3, <3>1, <3>2, SerialAssumed, SD!SideStays
    <3> QED
      BY <1>3, <2>4, <3>3
  <2>5. CASE ~thre
    <3>1. SD!Apart(SD!Blocked(state), pc, SD!Blocked(state'), pc', {"reading", "rlocking"})
      BY <1>2, <1>3, <1>5, <2>2, <2>3, <2>5, SerialAssumed DEF SD!Apart
    <3>2. SD!Side(SD!Blocked(state'), pc', wlock, txwaiter, "writing", "wlocking")
      BY <1>1, <2>3, <3>1, SerialAssumed, SD!SideStays
    <3> QED
      BY <1>3, <2>5, <3>2
  <2> QED
    BY <2>4, <2>5
<1>8. Line(line', pc', left')
  BY <1>1, <1>3
<1> QED
  BY <1>6, <1>7, <1>8 DEF SerialInv

LEMMA SerialReads ==
    ASSUME SerialInv, part = "serial", part' = part, S!serial_read
    PROVE  SerialInv'
<1>1. /\ SD!DeviceInv /\ SD!World(current, state, pc) /\ Line(line, pc, left)
      /\ SD!Side(SD!Blocked(state), pc, wlock, txwaiter, "writing", "wlocking")
  BY DEF SerialInv, SD!DeviceInv
<1>2. SD!D!ReadNext /\ UNCHANGED <<txwaiter, wlock, line>>
  BY SerialDevice DEF S!serial_read, S!serialVars
<1>3. /\ SD!DeviceInv'
      /\ SD!Apart(SD!Blocked(state), pc, SD!Blocked(state'), pc', {"user", "reading", "rlocking"})
      /\ \A u \in Serials : pc[u] \in {"writing", "wlocking"} => left'[u] = left[u]
  BY <1>1, <1>2, SerialAssumed, SD!DeviceReads
<1>4. PICK q, l, asleep, asleep2 : q = pc' /\ l = left' /\ asleep = SD!Blocked(state) /\ asleep2 = SD!Blocked(state')
  OBVIOUS
<1>5. asleep \subseteq Serials /\ asleep2 \subseteq Serials
  BY <1>4 DEF SD!Blocked
<1>6. SD!Apart(asleep, pc, asleep2, q, {"user", "reading", "rlocking"}) /\ SD!Side(asleep, pc, wlock, txwaiter, "writing", "wlocking")
  BY <1>1, <1>3, <1>4
<1>7. SD!Side(asleep2, q, wlock, txwaiter, "writing", "wlocking")
  BY <1>5, <1>6, SerialAssumed, SD!SideStays
<1>8. \A u \in Serials : pc[u] \in {"writing", "wlocking"} \/ q[u] \in {"writing", "wlocking"} => q[u] = pc[u]
  BY <1>6 DEF SD!Apart
<1>9. \A u \in Serials : pc[u] \in {"writing", "wlocking"} \/ q[u] \in {"writing", "wlocking"}
                          => q[u] = pc[u] /\ l[u] = left[u]
  BY <1>3, <1>4, <1>8
<1>10. Line(line, q, l)
  BY <1>1, <1>9, LineStays
<1> QED
  BY <1>2, <1>3, <1>4, <1>7, <1>10 DEF SerialInv

\* lock_acquire of serial_write, at once or after the wait in mutex_lock.
LEMMA SerialEnters ==
    ASSUME SerialInv, part = "serial", part' = part,
           NEW t \in Serials \ {Idle}, S!Write(t) \/ S!WriteRelock(t)
    PROVE  SerialInv'
<1>1. /\ SD!DeviceInv /\ SD!World(current, state, pc) /\ Line(line, pc, left)
      /\ SD!Side(SD!Blocked(state), pc, wlock, txwaiter, "writing", "wlocking")
      /\ pc \in [Serials -> SD!Places] /\ left \in [Serials -> Int]
  BY DEF SerialInv, SD!DeviceInv, SD!World
<1>2. /\ state[t] = "RUNNING" /\ pc[t] \in {"user", "wlocking"}
      /\ SD!D!Acquire(wlock, t, "writing", "wlocking") /\ wlock' = SD!D!Acquired(wlock, t)
      /\ UNCHANGED <<ring, rxwaiter, rlock, sent, received, txwaiter, line>>
      /\ (pc[t] = "user" /\ left' = [left EXCEPT ![t] = WriteCount]) \/ (pc[t] = "wlocking" /\ left' = left)
  BY SerialSame DEF S!Write, S!WriteRelock, S!Running
<1>3. PICK q, l, asleep, asleep2, lk : q = pc' /\ l = left' /\ asleep = SD!Blocked(state) /\ asleep2 = SD!Blocked(state') /\ lk = wlock'
  OBVIOUS
<1>4. /\ SD!World(current', state', pc') /\ SD!Side(asleep2, q, lk, txwaiter, "writing", "wlocking")
      /\ SD!Apart(asleep, pc, asleep2, q, {"user", "writing", "wlocking"})
  <2>1. lk = SD!D!Acquired(wlock, t) /\ SD!Side(asleep, pc, wlock, txwaiter, "writing", "wlocking")
    BY <1>1, <1>2, <1>3
  <2>2. <<"writing", "wlocking">> \in SD!SidePlaces
    BY DEF SD!SidePlaces
  <2>3. /\ SD!World(current', state', pc')
        /\ SD!Side(SD!Blocked(state'), pc', lk, txwaiter, "writing", "wlocking")
        /\ SD!Apart(SD!Blocked(state), pc, SD!Blocked(state'), pc', {"user", "writing", "wlocking"})
    BY <1>1, <1>2, <2>1, <2>2, SerialAssumed, SD!AcquireStep
  <2> QED
    BY <1>3, <2>3
<1>5. l[t] = WriteCount /\ l \in [Serials -> Int] /\ \A u \in Serials : u # t => l[u] = left[u]
  BY <1>1, <1>2, <1>3, SerialAssumed DEF Line
<1>6. SD!DeviceInv'
  BY <1>1, <1>2, <1>3, <1>4, <1>5, SerialAssumed, SD!DeviceOther
<1>7. \E place \in {"writing", "wlocking"} :
        q[t] = place /\ (place = "writing" => wlock.holder = None) /\ \A u \in Serials : u # t => q[u] = pc[u]
  BY <1>1, <1>2, <1>3 DEF SD!D!Acquire
<1>8. PICK place \in {"writing", "wlocking"} :
        q[t] = place /\ (place = "writing" => wlock.holder = None) /\ \A u \in Serials : u # t => q[u] = pc[u]
  BY <1>7
<1>9. wlock.holder = None => \A u \in Serials : pc[u] # "writing"
  BY <1>1, SerialAssumed DEF SD!Side
<1>10. Line(line, q, l)
  BY <1>1, <1>2, <1>5, <1>8, <1>9, LineEnters
<1> QED
  BY <1>2, <1>3, <1>4, <1>6, <1>10 DEF SerialInv

LEMMA SerialBlocks ==
    ASSUME SerialInv, part = "serial", part' = part,
           NEW t \in Serials \ {Idle}, S!WriteBlocks(t)
    PROVE  SerialInv'
<1>1. /\ SD!DeviceInv /\ SD!World(current, state, pc) /\ Line(line, pc, left)
      /\ SD!Side(SD!Blocked(state), pc, wlock, txwaiter, "writing", "wlocking")
      /\ left \in [Serials -> Int]
  BY DEF SerialInv, SD!DeviceInv
<1>2. /\ pc[t] = "writing" /\ SD!D!Dispatch(SD!D!Mark(t, "BLOCKED")) /\ txwaiter' = t
      /\ UNCHANGED <<ring, rxwaiter, rlock, pc, left, sent, received, wlock, line>>
  BY SerialSame DEF S!WriteBlocks, S!Running, S!readVars
<1>3. /\ SD!World(current', state', pc')
      /\ SD!Side(SD!Blocked(state'), pc', wlock, t, "writing", "wlocking")
      /\ SD!Apart(SD!Blocked(state), pc, SD!Blocked(state'), pc', {"user", "writing", "wlocking"})
  <2>1. <<"writing", "wlocking">> \in SD!SidePlaces
    BY DEF SD!SidePlaces
  <2> QED
    BY <1>1, <1>2, <2>1, SerialAssumed, SD!BlockStep
<1>4. SD!DeviceInv'
  BY <1>1, <1>2, <1>3, SerialAssumed, SD!DeviceOther
<1> QED
  BY <1>1, <1>2, <1>3, <1>4 DEF SerialInv

LEMMA SerialWrites ==
    ASSUME SerialInv, part = "serial", part' = part,
           NEW t \in Serials \ {Idle}, S!WriteByte(t)
    PROVE  SerialInv'
<1>1. /\ SD!DeviceInv /\ SD!World(current, state, pc) /\ Line(line, pc, left)
      /\ SD!Side(SD!Blocked(state), pc, wlock, txwaiter, "writing", "wlocking")
      /\ pc \in [Serials -> SD!Places] /\ left \in [Serials -> Int]
  BY DEF SerialInv, SD!DeviceInv, SD!World
<1>2. /\ state[t] = "RUNNING" /\ pc[t] = "writing"
      /\ line' = Append(line, t) /\ left' = [left EXCEPT ![t] = @ - 1]
      /\ UNCHANGED <<ring, rxwaiter, rlock, sent, received, txwaiter>>
      /\ IF left[t] > 1 THEN UNCHANGED <<current, state, wlock, pc>>
         ELSE /\ pc' = [pc EXCEPT ![t] = "user"]
              /\ wlock' = SD!D!Released(wlock)
              /\ SD!D!Release(wlock)
  BY SerialSame DEF S!WriteByte, S!Running
<1>3. PICK q, l, asleep, asleep2, lk, ln : /\ q = pc' /\ l = left' /\ asleep = SD!Blocked(state) /\ asleep2 = SD!Blocked(state')
                               /\ lk = wlock' /\ ln = line'
  OBVIOUS
<1>4. /\ SD!World(current', state', pc') /\ SD!Side(asleep2, q, lk, txwaiter, "writing", "wlocking")
      /\ SD!Apart(asleep, pc, asleep2, q, {"user", "writing", "wlocking"})
  <2>1. CASE left[t] > 1
    BY <1>1, <1>2, <1>3, <2>1 DEF SD!Apart
  <2>2. CASE ~(left[t] > 1)
    <3>1. lk = SD!D!Released(wlock) /\ SD!Side(asleep, pc, wlock, txwaiter, "writing", "wlocking")
      BY <1>1, <1>2, <1>3, <2>2
    <3>2. <<"writing", "wlocking">> \in SD!SidePlaces
      BY DEF SD!SidePlaces
    <3>3. /\ SD!World(current', state', pc')
          /\ SD!Side(SD!Blocked(state'), pc', lk, txwaiter, "writing", "wlocking")
          /\ SD!Apart(SD!Blocked(state), pc, SD!Blocked(state'), pc', {"user", "writing", "wlocking"})
      BY <1>1, <1>2, <2>2, <3>1, <3>2, SerialAssumed, SD!LeaveStep
    <3> QED
      BY <1>3, <3>3
  <2> QED
    BY <2>1, <2>2
<1>5. l[t] = left[t] - 1 /\ l \in [Serials -> Int] /\ \A u \in Serials : u # t => l[u] = left[u]
  BY <1>1, <1>2, <1>3
<1>6. SD!DeviceInv'
  BY <1>1, <1>2, <1>3, <1>4, <1>5, SerialAssumed, SD!DeviceOther
<1>7. /\ t \in Serials /\ (left[t] > 1 => q[t] = "writing") /\ (~(left[t] > 1) => q[t] = "user")
      /\ \A u \in Serials : u # t => q[u] = pc[u]
  BY <1>1, <1>2, <1>3
<1>8. \A u \in Serials : pc[u] = "writing" <=> u = t
  BY <1>1, <1>2, SerialAssumed DEF SD!Side
<1>9. ln = Append(line, t)
  BY <1>2, <1>3
<1>10. OneByte(t, line, pc, left, ln, q, l)
  BY <1>5, <1>7, <1>9 DEF OneByte
<1>11. Line(ln, q, l)
  BY <1>1, <1>8, <1>10, LineWrites
<1> QED
  BY <1>2, <1>3, <1>4, <1>6, <1>11 DEF SerialInv

LEMMA SerialSteps ==
    ASSUME SerialInv, [MCNext]_allVars
    PROVE  SerialInv'
<1> SUFFICES ASSUME part = "serial", part' = part, [S!Next]_S!vars
             PROVE  SerialInv'
  BY StepsOfParts DEF SerialInv
<1>1. CASE S!Arrive \/ S!Transmitted \/ UNCHANGED S!vars
  BY <1>1, SerialUntouched DEF S!Arrive, S!Transmitted, S!vars, S!serialVars
<1>2. CASE S!TimerPreempts /\ UNCHANGED S!serialVars
  <2>1. SD!D!TimerPreempts /\ UNCHANGED <<txwaiter, wlock, line>>
    BY <1>2, SerialDevice DEF S!serialVars
  <2>2. /\ SD!DeviceInv /\ Line(line, pc, left)
        /\ SD!Side(SD!Blocked(state), pc, wlock, txwaiter, "writing", "wlocking")
    BY DEF SerialInv
  <2>3. SD!DeviceInv' /\ pc' = pc /\ left' = left /\ SD!Blocked(state') = SD!Blocked(state)
    BY <2>1, <2>2, SerialAssumed, SD!DeviceTimer
  <2> QED
    BY <2>1, <2>2, <2>3 DEF SerialInv
<1>3. CASE S!serial_write
  BY <1>3, SerialEnters, SerialBlocks, SerialWrites DEF S!serial_write
<1> QED
  BY <1>1, <1>2, <1>3, SerialHandles, SerialReads DEF S!Next

LEMMA SerialMeans ==
    ASSUME SerialInv
    PROVE  part = "serial" => S!ReaderWaits /\ S!DropsOldest /\ S!WritesStayWhole
<1> SUFFICES ASSUME part = "serial"
             PROVE  S!ReaderWaits /\ S!DropsOldest /\ S!WritesStayWhole
  OBVIOUS
<1>1. SD!D!ReaderWaits /\ SD!D!DropsOldest
  BY SerialAssumed, SD!DeviceReaderWaits, SD!DeviceDropsOldest DEF SerialInv
<1>2. S!WritesStayWhole
  <2>1. \A i \in 2 .. Len(line) : (i - 1) % WriteCount # 0 => line[i] = line[i - 1]
    BY DEF SerialInv, Line
  <2>2. \A t \in Serials : pc[t] = "writing" /\ state[t] = "BLOCKED" => wlock.holder = t /\ txwaiter = t
    BY DEF SerialInv, SD!Side, SD!Blocked
  <2> QED
    BY <2>1, <2>2 DEF S!WritesStayWhole
<1> QED
  BY <1>1, <1>2, SerialDevice

-----------------------------------------------------------------------------
(* The reading side of the keyboard.                                       *)

KD == INSTANCE WaitingProofs WITH Tasks <- Keyboards, Readers <- Keyboards \ {Idle}, Writers <- {},
        MaxCount <- DriverCount, MaxDepth <- 1, value <- 0, waiters <- << >>, holder <- None, repeat <- 0

LEMMA KeyboardDevice ==
    /\ K!CharDeviceAssumption = KD!D!CharDeviceAssumption
    /\ K!ReadInit = KD!D!ReadInit
    /\ K!ReadNext = KD!D!ReadNext
    /\ K!TimerPreempts = KD!D!TimerPreempts
    /\ K!ReaderWaits = KD!D!ReaderWaits
    /\ K!DropsOldest = KD!D!DropsOldest
<1>1. K!CharDeviceAssumption = KD!D!CharDeviceAssumption
  BY DEF K!CharDeviceAssumption, KD!D!CharDeviceAssumption
<1>2. K!ReadInit = KD!D!ReadInit
  BY DEF
   K!ReadInit, K!DispatchInit, K!fifo_init, K!Cells, K!FreeLock, KD!D!ReadInit,
   KD!D!DispatchInit, KD!D!fifo_init, KD!D!Cells, KD!D!FreeLock
<1>3. K!ReadNext = KD!D!ReadNext
  BY DEF
   K!ReadNext, K!Running, K!Acquire, K!Acquired, K!Release, K!Released, K!Read, K!ReadRelock,
   K!ReadBlocks, K!ReadByte, K!Mark, K!Wake, K!Ready, K!Eligible, K!Switched, K!Dispatch,
   K!fifo_empty, K!fifo_next, K!FirstByte, K!AfterGet, K!Front, K!Last, KD!D!ReadNext,
   KD!D!Running, KD!D!Acquire, KD!D!Acquired, KD!D!Release, KD!D!Released, KD!D!Read,
   KD!D!ReadRelock, KD!D!ReadBlocks, KD!D!ReadByte, KD!D!Mark, KD!D!Wake, KD!D!Ready,
   KD!D!Eligible, KD!D!Switched, KD!D!Dispatch, KD!D!fifo_empty, KD!D!fifo_next,
   KD!D!FirstByte, KD!D!AfterGet, KD!D!Front, KD!D!Last
<1>4. K!TimerPreempts = KD!D!TimerPreempts
  BY DEF
   K!TimerPreempts, K!InterruptsOn, K!Dispatch, K!Ready, K!Eligible, K!Switched, K!readVars,
   KD!D!TimerPreempts, KD!D!InterruptsOn, KD!D!Dispatch, KD!D!Ready, KD!D!Eligible,
   KD!D!Switched, KD!D!readVars
<1>5. K!ReaderWaits = KD!D!ReaderWaits /\ K!DropsOldest = KD!D!DropsOldest
  BY DEF
   K!ReaderWaits, K!DropsOldest, K!fifo_empty, K!Contents, K!Range, KD!D!ReaderWaits,
   KD!D!DropsOldest, KD!D!fifo_empty, KD!D!Contents, KD!D!Range
<1> QED
  BY <1>1, <1>2, <1>3, <1>4, <1>5

LEMMA KeyboardAssumed ==
    /\ KD!D!CharDeviceAssumption /\ KD!FifosAssumed
    /\ Keyboards \ {Idle} \subseteq Keyboards \ {Idle} /\ {} \subseteq Keyboards \ {Idle}
    /\ None \notin Keyboards /\ DriverCount \in Nat /\ MaxBytes \in Nat
    /\ Length \in Nat /\ Length > 1
    /\ Idle \in Keyboards /\ Boot \notin Keyboards /\ 1 \in Nat \ {0}
<1>1. K!CharDeviceAssumption
  BY MCAssumption DEF MCAssumption, K!KeyboardAssumption
<1>2. KD!D!CharDeviceAssumption
  BY <1>1, KeyboardDevice
<1>3. None \notin Keyboards /\ DriverCount \in Nat /\ Idle \in Keyboards /\ Boot \notin Keyboards
  BY <1>1 DEF K!CharDeviceAssumption
<1>4. MaxBytes \in Nat /\ Length \in Nat /\ Length > 1
  BY PipeAssumption, FifoAssumption
<1>5. KD!FifosAssumed
  BY <1>3, <1>4 DEF KD!FifosAssumed
<1> QED
  BY <1>2, <1>3, <1>4, <1>5

KeyboardInv == part = "keyboard" => KD!DeviceInv

LEMMA KeyboardStarts == MCInit => KeyboardInv
<1>1. MCInit /\ part = "keyboard" => KD!D!ReadInit
  BY KeyboardDevice DEF MCInit, K!Init
<1> QED
  BY <1>1, KeyboardAssumed, KD!DeviceInit DEF KeyboardInv

LEMMA KeyboardUntouched ==
    ASSUME KD!DeviceInv, UNCHANGED <<current, state, K!readVars>>
    PROVE  KD!DeviceInv'
<1>1. UNCHANGED <<current, state, ring, rxwaiter, rlock, pc, left, sent, received>>
  BY DEF K!readVars
<1>2. /\ KD!World(current', state', pc') /\ left' \in [Keyboards -> Int]
      /\ KD!Apart(KD!Blocked(state), pc, KD!Blocked(state'), pc', {})
  BY <1>1 DEF KD!DeviceInv, KD!World, KD!Apart
<1> QED
  BY <1>1, <1>2, KeyboardAssumed, KD!DeviceOther

\* The handler, whether its code is a character or not.
LEMMA KeyboardHandles ==
    ASSUME KD!DeviceInv, K!keyboard_handler
    PROVE  KD!DeviceInv'
<1>1. (UNCHANGED <<current, state, K!readVars>>) \/ K!Receive
  BY DEF K!keyboard_handler, K!PrefixCode, K!KeyUp, K!KeyDown
<1>2. CASE UNCHANGED <<current, state, K!readVars>>
  BY <1>2, KeyboardUntouched
<1>3. CASE K!Receive
  <2>1. /\ sent' = sent + 1 /\ ring' = KD!D!AfterPut(ring, sent + 1) /\ rxwaiter' = None
        /\ state' = IF rxwaiter = None THEN state ELSE KD!D!Wake(state, {rxwaiter})
        /\ UNCHANGED <<current, rlock, pc, left, received>>
    BY <1>3 DEF K!Receive, K!AfterPut, K!AfterGet, K!fifo_full, K!fifo_next, K!Wake,
       KD!D!AfterPut, KD!D!AfterGet, KD!D!fifo_full, KD!D!fifo_next, KD!D!Wake
  <2>2. state \in [Keyboards -> KD!P!TaskState]
    BY DEF KD!DeviceInv, KD!World
  <2>3. PICK W : W = IF rxwaiter = None THEN {} ELSE {rxwaiter}
    OBVIOUS
  <2>4. state' = KD!D!Wake(state, W)
    BY <2>1, <2>2, <2>3 DEF KD!D!Wake
  <2>5. /\ \A u \in Keyboards : u \in W /\ u # rxwaiter => pc[u] \notin {"reading", "rlocking"}
        /\ rxwaiter # None => rxwaiter \in W
    BY <2>3
  <2> QED
    BY <2>1, <2>4, <2>5, KeyboardAssumed, KD!DeviceReceives
<1> QED
  BY <1>1, <1>2, <1>3

LEMMA KeyboardSteps ==
    ASSUME KeyboardInv, [MCNext]_allVars
    PROVE  KeyboardInv'
<1> SUFFICES ASSUME part = "keyboard", KD!DeviceInv, [K!Next]_K!vars
             PROVE  KD!DeviceInv'
  BY StepsOfParts DEF KeyboardInv
<1>1. ASSUME NEW k, K!Press(k) \/ K!LetGo(k)
      PROVE  KD!DeviceInv'
  BY <1>1, KeyboardUntouched DEF K!Press, K!LetGo
<1>2. CASE K!keyboard_read
  <2>1. KD!D!ReadNext
    BY <1>2, KeyboardDevice DEF K!keyboard_read
  <2> QED
    BY <2>1, KeyboardAssumed, KD!DeviceReads
<1>3. CASE K!TimerPreempts
  <2>1. KD!D!TimerPreempts
    BY <1>3, KeyboardDevice
  <2> QED
    BY <2>1, KeyboardAssumed, KD!DeviceTimer
<1>4. CASE UNCHANGED K!vars
  BY <1>4, KeyboardUntouched DEF K!vars
<1> QED
  BY <1>1, <1>2, <1>3, <1>4, KeyboardHandles DEF K!Next

LEMMA KeyboardMeans ==
    ASSUME KeyboardInv
    PROVE  part = "keyboard" => K!ReaderWaits /\ K!DropsOldest
BY KeyboardDevice, KeyboardAssumed, KD!DeviceReaderWaits, KD!DeviceDropsOldest DEF KeyboardInv

-----------------------------------------------------------------------------
(* The pipe.                                                               *)

PP == INSTANCE WaitingProofs WITH
        MaxDepth <- 1, value <- 0, waiters <- << >>, holder <- None, repeat <- 0

LEMMA PipeAssumed == PP!FifosAssumed /\ None \notin Tasks /\ 1 \in Nat \ {0} /\ Idle \in Tasks /\ Boot \notin Tasks
BY PipeAssumption, FifoAssumption, DispatcherAssumption DEF PP!FifosAssumed

LEMMA PipeSame ==
    /\ Init = PP!P!Init
    /\ Next = PP!P!Next
    /\ WaitersSleep = PP!P!WaitersSleep
    /\ NothingLost = PP!P!NothingLost
    /\ PairNeverFails = PP!P!PairNeverFails
<1>1. Init = PP!P!Init
  BY DEF Init, DispatchInit, fifo_init, Cells, PP!P!Init, PP!P!DispatchInit, PP!P!fifo_init, PP!P!Cells
<1>2. Next = PP!P!Next
  BY DEF
   Next, Running, InterruptsOn, Call, Read, Write, Fail, Advance, WakeOther, GetByte,
   ReadBlocks, ReadByte, ReadResume, PutByte, WriteBlocks, WriteByte, WriteResume,
   TimerPreempts, Mark, Wake, Ready, Eligible, Switched, Dispatch, fifo_empty, fifo_full,
   fifo_next, FirstByte, AfterGet, AfterPut, PP!P!Next, PP!P!Running, PP!P!InterruptsOn, PP!P!Call,
   PP!P!Read, PP!P!Write, PP!P!Fail, PP!P!Advance, PP!P!WakeOther, PP!P!GetByte, PP!P!ReadBlocks,
   PP!P!ReadByte, PP!P!ReadResume, PP!P!PutByte, PP!P!WriteBlocks, PP!P!WriteByte, PP!P!WriteResume,
   PP!P!TimerPreempts, PP!P!Mark, PP!P!Wake, PP!P!Ready, PP!P!Eligible, PP!P!Switched, PP!P!Dispatch,
   PP!P!fifo_empty, PP!P!fifo_full, PP!P!fifo_next, PP!P!FirstByte, PP!P!AfterGet, PP!P!AfterPut
<1>3. /\ WaitersSleep = PP!P!WaitersSleep /\ NothingLost = PP!P!NothingLost
      /\ PairNeverFails = PP!P!PairNeverFails
  BY DEF WaitersSleep, NothingLost, PairNeverFails, fifo_empty, fifo_full, fifo_next, Contents,
   PP!P!WaitersSleep, PP!P!NothingLost, PP!P!PairNeverFails, PP!P!fifo_empty, PP!P!fifo_full,
   PP!P!fifo_next, PP!P!Contents, Cardinality, PP!P!Cardinality
<1> QED
  BY <1>1, <1>2, <1>3

PipeInv == part = "pipe" => PP!PipeInv

LEMMA PipeStarts == MCInit => PipeInv
<1>1. MCInit /\ part = "pipe" => PP!P!Init
  BY PipeSame DEF MCInit
<1> QED
  BY <1>1, PP!PipeStarts, PipeAssumed DEF PipeInv

LEMMA PipeSteps ==
    ASSUME PP!OneWriter, PipeInv, [MCNext]_allVars
    PROVE  PipeInv'
<1>1. part' = part /\ (part = "pipe" => [PP!P!Next]_(PP!P!vars))
  BY PipeSame, StepsOfParts DEF vars, PP!P!vars
<1> QED
  BY <1>1, PP!PipeSteps, PipeAssumed DEF PipeInv

\* With one reader and one writer no assertion of pipe.c and fifo.c fails.
THEOREM PipePair ==
    ASSUME PP!OneWriter, IsFiniteSet(Readers)
    PROVE  MCSpec => []PipePairNeverFails
<1>1. PP!IsFiniteSet(Readers)
  BY DEF IsFiniteSet, PP!IsFiniteSet
<1>2. PipeInv => PipePairNeverFails
  BY <1>1, PP!OneReaderNeverFails, PipeAssumed, PipeSame DEF PipeInv, PipePairNeverFails
<1> QED
  BY <1>2, PipeStarts, PipeSteps, PTL DEF MCSpec

-----------------------------------------------------------------------------
(* The three together.                                                     *)

LEMMA DevicesAlways == MCSpec => [](KeyboardInv /\ SerialInv)
BY KeyboardStarts, KeyboardSteps, SerialStarts, SerialSteps, PTL DEF MCSpec

LEMMA PipeAlways ==
    ASSUME PP!OneWriter
    PROVE  MCSpec => []PipeInv
BY PipeStarts, PipeSteps, PTL DEF MCSpec

\* Whoever sleeps in pipe.c, keyboard.c or serial.c has nothing to do and is
\* the one the next wakeup goes to: for a pipe with one writer, and for any
\* number of tasks at the devices.
THEOREM ReadersWoken ==
    ASSUME PP!OneWriter
    PROVE  MCSpec => []ReadersAreWoken
<1>1. PipeInv => (part = "pipe" => WaitersSleep)
  BY PipeSame DEF PipeInv, PP!PipeInv, PP!Waiters
<1>2. PipeInv /\ KeyboardInv /\ SerialInv => ReadersAreWoken
  BY <1>1, KeyboardMeans, SerialMeans DEF ReadersAreWoken
<1> QED
  BY <1>2, PipeAlways, DevicesAlways, PTL

\* Bytes arrive once and in order, through any ring and any number of wraps:
\* a pipe with one writer loses none, the drivers lose only the oldest of a
\* full ring, and the bytes of a serial_write stay together.
THEOREM BytesArriveInOrder ==
    ASSUME PP!OneWriter
    PROVE  MCSpec => []BytesInOrder
<1>1. PipeInv => (part = "pipe" => NothingLost)
  BY PipeSame, PP!NumberedLosesNothing, PipeAssumed DEF PipeInv
<1>2. PipeInv /\ KeyboardInv /\ SerialInv => BytesInOrder
  BY <1>1, KeyboardMeans, SerialMeans DEF BytesInOrder
<1> QED
  BY <1>2, PipeAlways, DevicesAlways, PTL

-----------------------------------------------------------------------------
(* The buffer cache.                                                       *)

\* KernelProofs is about processes too, which are not in use here.
LP == INSTANCE KernelProofs WITH Blocks <- DiskBlocks, column <- x, line <- y,
        Tasks <- {0, 1}, Idle <- 0, InitTask <- 1, Boot <- 2, Any <- 2,
        current <- 2, state <- 0, ppid <- 0, waitpid <- 0, torn <- 0

LEMMA BuffersAssumed == LP!B!BufferAssumption
BY MCAssumption DEF MCAssumption, B!BufferAssumption, LP!B!BufferAssumption, B!IsFiniteSet,
                    LP!B!IsFiniteSet

LEMMA BuffersInit == MCInit /\ part = "buffers" => LP!B!Init
BY DEF MCInit, B!Init, LP!B!Init, B!Buffers, LP!B!Buffers

LEMMA BuffersNext == B!Next = LP!B!Next
BY DEF
      B!Next, B!MayRead, B!Cached, B!Returns, B!StartRead, B!BreadHit, B!FreeBuffer,
      B!BreadMiss, B!BreadWait, B!BreadLocked, B!BreadDone, B!Modify, B!Bwrite, B!Transfer,
      B!Written, B!BwriteDone, B!Release, B!Brelse, B!BrelseDone, B!Made, B!Buffers, B!fields,
      B!lists, B!callers, B!Without, B!RemoveAt, B!Front, B!Last, LP!B!Next, LP!B!MayRead,
      LP!B!Cached, LP!B!Returns, LP!B!StartRead, LP!B!BreadHit, LP!B!FreeBuffer, LP!B!BreadMiss,
      LP!B!BreadWait, LP!B!BreadLocked, LP!B!BreadDone, LP!B!Modify, LP!B!Bwrite, LP!B!Transfer,
      LP!B!Written, LP!B!BwriteDone, LP!B!Release, LP!B!Brelse, LP!B!BrelseDone, LP!B!Made,
      LP!B!Buffers, LP!B!fields, LP!B!lists, LP!B!callers, LP!B!Without, LP!B!RemoveAt, LP!B!Front, LP!B!Last

LEMMA BuffersStep ==
    ASSUME [MCNext]_allVars
    PROVE  part' = part /\ (part = "buffers" => [LP!B!Next]_LP!B!vars)
BY BuffersNext DEF MCNext, allVars, LP!B!vars, LP!B!fields, LP!B!lists, LP!B!callers, bufferVars

BuffersInv == part = "buffers" => LP!BufferInv

LEMMA BuffersStarts == MCInit => BuffersInv
BY BuffersInit, BuffersAssumed, LP!BuffersStart DEF BuffersInv

LEMMA BuffersSteps ==
    ASSUME BuffersInv, [MCNext]_allVars
    PROVE  BuffersInv'
BY BuffersStep, BuffersAssumed, LP!StepKeeps DEF BuffersInv

LEMMA BuffersAlways == MCSpec => []BuffersInv
BY BuffersStarts, BuffersSteps, PTL DEF MCSpec

LEMMA BuffersMeans ==
    ASSUME BuffersInv
    PROVE  /\ BufferCountIsReferences
           /\ BufferFreeIsUnused
           /\ BufferOfItsBlock
<1> SUFFICES ASSUME part = "buffers", LP!BufferInv
             PROVE  /\ B!CountIsReferences /\ B!FreeIsUnused
                    /\ B!OneBufferPerBlock /\ B!HeldIsAsked
  BY DEF BuffersInv, BufferCountIsReferences, BufferFreeIsUnused, BufferOfItsBlock
<1>1. /\ LP!B!CountIsReferences /\ LP!B!FreeIsUnused /\ LP!B!OneBufferPerBlock /\ LP!B!HeldIsAsked
  BY LP!InvariantMeans DEF LP!BufferInv
<1>2. B!CountIsReferences = LP!B!CountIsReferences
  BY DEF B!CountIsReferences, LP!B!CountIsReferences, B!References, LP!B!References, B!Refers,
         LP!B!Refers, B!Buffers, LP!B!Buffers, B!Cardinality, LP!B!Cardinality
<1>3. B!FreeIsUnused = LP!B!FreeIsUnused
  BY DEF B!FreeIsUnused, LP!B!FreeIsUnused, B!Buffers, LP!B!Buffers, B!Made, LP!B!Made
<1>4. B!OneBufferPerBlock = LP!B!OneBufferPerBlock /\ B!HeldIsAsked = LP!B!HeldIsAsked
  BY DEF B!OneBufferPerBlock, LP!B!OneBufferPerBlock, B!Made, LP!B!Made, B!HeldIsAsked,
         LP!B!HeldIsAsked
<1> QED
  BY <1>1, <1>2, <1>3, <1>4

\* count of a buffer is the number of references to it, through every wait in
\* bread and brelse, for any number of tasks, blocks and buffers.
THEOREM BuffersCountReferences == MCSpec => []BufferCountIsReferences
BY BuffersMeans, BuffersAlways, PTL

\* The free list holds the buffers nobody uses, once, and all of them clean:
\* the assertions of getblk.
THEOREM BuffersFreeList == MCSpec => []BufferFreeIsUnused
BY BuffersMeans, BuffersAlways, PTL

\* No block is cached twice, and what a task got from bread stays the valid
\* buffer of its block until it gives it to brelse.
THEOREM BuffersOfTheirBlocks == MCSpec => []BufferOfItsBlock
BY BuffersMeans, BuffersAlways, PTL

\* A buffer in use keeps its block, stays valid, and its data change only
\* under a task that marks it dirty.
THEOREM BuffersInUseAreStable == MCSpec => BufferInUseIsStable
<1>1. ASSUME BuffersInv, [MCNext]_allVars
      PROVE  [part = "buffers" => B!InUseIsKept]_allVars
  <2>1. part = "buffers" => LP!B!InUseIsKept \/ UNCHANGED LP!B!vars
    BY <1>1, BuffersStep, BuffersAssumed, LP!StepKeepsWhatIsUsed DEF BuffersInv
  <2>2. B!InUseIsKept = LP!B!InUseIsKept
    BY DEF B!InUseIsKept, LP!B!InUseIsKept, B!Buffers, LP!B!Buffers
  <2>3. part = "buffers" /\ UNCHANGED LP!B!vars => LP!B!InUseIsKept
    BY DEF LP!B!vars, LP!B!fields, LP!B!InUseIsKept
  <2> QED
    BY <2>1, <2>2, <2>3
<1> QED
  BY <1>1, BuffersAlways, PTL DEF MCSpec, BufferInUseIsStable

-----------------------------------------------------------------------------
(* The arena.                                                              *)

LEMMA ArenaSame ==
    /\ LP!A!ArenaAssumption /\ A!Init = LP!A!Init /\ A!Next = LP!A!Next /\ A!vars = LP!A!vars
    /\ A!BlocksAccounted = LP!A!BlocksAccounted
<1>1. LP!A!ArenaAssumption
  BY MCAssumption DEF MCAssumption, A!ArenaAssumption, LP!A!ArenaAssumption
<1>2. A!Init = LP!A!Init /\ A!vars = LP!A!vars
  BY DEF A!Init, LP!A!Init, A!vars, LP!A!vars, A!Pages, LP!A!Pages, A!Large, LP!A!Large
<1>3. A!Next = LP!A!Next
  BY DEF A!Next, LP!A!Next, A!Pages, LP!A!Pages, A!Large, LP!A!Large, A!TotalBlock,
         LP!A!TotalBlock, A!BlocksOf, LP!A!BlocksOf, A!Fits, LP!A!Fits, A!First,
         LP!A!First, A!kmalloc_large, LP!A!kmalloc_large, A!kmalloc, LP!A!kmalloc,
         A!kfree_block, LP!A!kfree_block, A!kfree_large, LP!A!kfree_large, A!kfree,
         LP!A!kfree, A!Removed, LP!A!Removed, A!Without, LP!A!Without, A!RemoveAt,
         LP!A!RemoveAt
<1>4. A!BlocksAccounted = LP!A!BlocksAccounted
  BY DEF A!BlocksAccounted, LP!A!BlocksAccounted, A!PagesOf, LP!A!PagesOf, A!BlocksOf,
         LP!A!BlocksOf, A!TotalBlock, LP!A!TotalBlock, A!Large, LP!A!Large,
         A!IsInjective, LP!A!IsInjective, A!ToSet, LP!A!ToSet, A!Cardinality,
         LP!A!Cardinality
<1> QED
  BY <1>1, <1>2, <1>3, <1>4

ArenaInv == part = "arena" => LP!ArenaInv

LEMMA ArenaStarts == MCInit => ArenaInv
BY ArenaSame, LP!ArenaStarts DEF MCInit, ArenaInv

LEMMA ArenaSteps ==
    ASSUME ArenaInv, [MCNext]_allVars
    PROVE  ArenaInv'
<1>1. part' = part /\ (part = "arena" => [A!Next]_A!vars)
  BY StepsOfParts
<1>2. part = "arena" => [LP!A!Next]_LP!A!vars
  BY <1>1, ArenaSame DEF A!vars, LP!A!vars
<1> QED
  BY <1>1, <1>2, ArenaSame, LP!ArenaSteps DEF ArenaInv

LEMMA ArenaMeans == ArenaInv => ArenaAccounted
BY ArenaSame, LP!ArenaMeans DEF ArenaInv, ArenaAccounted

\* Every block of every page is accounted for, whatever the sizes of the
\* blocks and the number of pages.
THEOREM ArenaAccounts == MCSpec => []ArenaAccounted
BY ArenaStarts, ArenaSteps, ArenaMeans, PTL DEF MCSpec

-----------------------------------------------------------------------------
(* The console.                                                            *)

LEMMA ConsoleSame ==
    /\ LP!C!ConsoleAssumption /\ C!Init = LP!C!Init /\ C!Next = LP!C!Next /\ C!vars = LP!C!vars
    /\ C!ScreenShowsText = LP!C!ScreenShowsText
<1>1. LP!C!ConsoleAssumption
  BY MCAssumption DEF MCAssumption, C!ConsoleAssumption, C!Scr, LP!C!ConsoleAssumption, LP!C!Scr, C!Nul, LP!C!Nul
<1>2. C!Init = LP!C!Init /\ C!vars = LP!C!vars
  BY DEF C!Init, C!vars, C!BlankRow, C!Rows, C!Columns, C!Erase, C!Scr, LP!C!Init, LP!C!vars,
         LP!C!BlankRow, LP!C!Rows, LP!C!Columns, LP!C!Erase, LP!C!Scr
<1>3. C!Next = LP!C!Next
  <2>1. C!Window = LP!C!Window /\ C!Erase = LP!C!Erase /\ C!Scr = LP!C!Scr /\ C!Nul = LP!C!Nul /\ C!BlankRow = LP!C!BlankRow
    BY DEF C!Window, LP!C!Window, C!Erase, LP!C!Erase, C!Scr, LP!C!Scr, C!Nul, LP!C!Nul,
           C!BlankRow, LP!C!BlankRow, C!Columns, LP!C!Columns
  <2>2. ASSUME NEW w
        PROVE  /\ C!scroll_up(w) = LP!C!scroll_up(w)
               /\ C!command_cr(w) = LP!C!command_cr(w)
    BY <2>1 DEF C!scroll_up, LP!C!scroll_up, C!Rewound, LP!C!Rewound, C!command_cr, LP!C!command_cr
  <2>3. ASSUME NEW w
        PROVE  /\ C!command_lf(w) = LP!C!command_lf(w)
               /\ (C!Becomes(w) <=> LP!C!Becomes(w))
    BY <2>2 DEF C!command_lf, LP!C!command_lf, C!Becomes, LP!C!Becomes
  <2>4. ASSUME NEW w, NEW ch
        PROVE  C!Put(w, ch) = LP!C!Put(w, ch)
    BY <2>3 DEF C!Put, LP!C!Put
  <2>5. ASSUME NEW t
        PROVE  C!NextRow(t) = LP!C!NextRow(t)
    BY <2>1 DEF C!NextRow, LP!C!NextRow, C!Scrolled, LP!C!Scrolled, C!Rows, LP!C!Rows
  <2>6. ASSUME NEW m, NEW a
        PROVE  C!Erased(m, a) = LP!C!Erased(m, a) /\ (C!Smears(a) <=> LP!C!Smears(a))
    BY <2>1 DEF C!Erased, LP!C!Erased, C!Smears, LP!C!Smears
  <2>7. ASSUME NEW ch
        PROVE  C!Printable(ch) <=> LP!C!Printable(ch)
    BY <2>1, <2>3, <2>4, <2>5 DEF C!Printable, LP!C!Printable
  <2>8. C!LineFeed = LP!C!LineFeed /\ C!CarriageReturn = LP!C!CarriageReturn
    BY <2>1, <2>2, <2>3, <2>5 DEF C!LineFeed, LP!C!LineFeed, C!CarriageReturn, LP!C!CarriageReturn
  <2>9. C!Backspace = LP!C!Backspace
    BY <2>1, <2>3, <2>6 DEF C!Backspace, LP!C!Backspace
  <2>10. C!Delete = LP!C!Delete
    BY <2>1, <2>3, <2>6 DEF C!Delete, LP!C!Delete
  <2> QED
    BY <2>7, <2>8, <2>9, <2>10 DEF C!Next, LP!C!Next
<1>4. C!ScreenShowsText = LP!C!ScreenShowsText
  BY DEF C!ScreenShowsText, C!Rows, C!Columns, C!Erase, C!Nul, C!Scr, LP!C!ScreenShowsText,
         LP!C!Rows, LP!C!Columns, LP!C!Erase, LP!C!Nul, LP!C!Scr
<1> QED
  BY <1>1, <1>2, <1>3, <1>4

ScreenInv == part = "console" => LP!ConsoleInv

LEMMA ScreenStarts == MCInit => ScreenInv
BY ConsoleSame, LP!ConsoleStarts DEF MCInit, ScreenInv

LEMMA ScreenSteps ==
    ASSUME ScreenInv, [MCNext]_allVars
    PROVE  ScreenInv'
<1>1. part' = part /\ (part = "console" => [C!Next]_C!vars)
  BY StepsOfParts
<1>2. part = "console" => [LP!C!Next]_(LP!C!vars)
  BY <1>1, ConsoleSame DEF C!vars, LP!C!vars
<1> QED
  BY <1>1, <1>2, ConsoleSame, LP!ConsoleSteps DEF ScreenInv

LEMMA ScreenMeans == ScreenInv => ConsoleShowsText
BY ConsoleSame, LP!ConsoleInvShows DEF ScreenInv, ConsoleShowsText

\* The window shows the text, on a screen of any size and in any memory of at
\* least two screens, until a control character has smeared it.
THEOREM ConsoleShows == MCSpec => []ConsoleShowsText
BY ScreenStarts, ScreenSteps, ScreenMeans, PTL DEF MCSpec

-----------------------------------------------------------------------------
(* The calendar.                                                           *)

\* The days of the year that go before the month.
Before(m, yr) == T!month[m] - (IF T!Leap(yr) \/ m <= 2 THEN 0 ELSE 1)

\* Of the years a two-digit tm_year stands for, those divided by four are the
\* leap years: the century among them is 2000.
LEMMA LeapYears ==
    ASSUME NEW yr \in 70 .. 169
    PROVE  /\ T!Leap(yr) <=> yr % 4 = 0
           /\ T!is_leap_year(yr) <=> T!Leap(yr)
           /\ T!NotLeap(yr - 70) <=> ~T!Leap(yr)
           /\ T!YearsOf(yr % 100) = yr - 70
           /\ T!elapsed_leap_years(yr) = (yr - 69) \div 4
<1>1. T!Leap(yr) <=> yr % 4 = 0
  BY SMT DEF T!Leap
<1>2. T!is_leap_year(yr) <=> T!Leap(yr)
  BY SMT DEF T!Leap, T!is_leap_year
<1>3. T!NotLeap(yr - 70) <=> ~T!Leap(yr)
  BY <1>1, SMT DEF T!NotLeap
<1>4. T!YearsOf(yr % 100) = yr - 70
  BY SMT DEF T!YearsOf
<1>5. T!elapsed_leap_years(yr) = (yr - 69) \div 4
  BY SMT DEF T!elapsed_leap_years
<1> QED
  BY <1>1, <1>2, <1>3, <1>4, <1>5

LEMMA MonthNames ==
    ASSUME NEW m \in 1 .. 12
    PROVE  m = 1 \/ m = 2 \/ m = 3 \/ m = 4 \/ m = 5 \/ m = 6
           \/ m = 7 \/ m = 8 \/ m = 9 \/ m = 10 \/ m = 11 \/ m = 12
OBVIOUS

LEMMA MonthsOfTable ==
    /\ T!month[1] = 0 /\ T!month[2] = 31 /\ T!month[3] = 60 /\ T!month[4] = 91
    /\ T!month[5] = 121 /\ T!month[6] = 152 /\ T!month[7] = 182 /\ T!month[8] = 213
    /\ T!month[9] = 244 /\ T!month[10] = 274 /\ T!month[11] = 305 /\ T!month[12] = 335
BY DEF T!month

\* The table of time.c counts the days of the months before.
LEMMA MonthsFollow ==
    ASSUME NEW m \in 1 .. 12, NEW yr
    PROVE  /\ Before(m, yr) \in Nat
           /\ T!MonthLength(m, yr) \in 28 .. 31
           /\ m < 12 => Before(m + 1, yr) = Before(m, yr) + T!MonthLength(m, yr)
           /\ Before(1, yr) = 0
           /\ m = 12 => /\ Before(m, yr) = IF T!Leap(yr) THEN 335 ELSE 334
                        /\ T!MonthLength(m, yr) = 31
<1>1. CASE m \in {1, 3, 5, 7, 8, 10, 12}
  BY <1>1, MonthsOfTable DEF Before, T!MonthLength
<1>2. CASE m \in {4, 6, 9, 11}
  BY <1>2, MonthsOfTable DEF Before, T!MonthLength
<1>3. CASE m = 2
  BY <1>3, MonthsOfTable DEF Before, T!MonthLength
<1> QED
  BY <1>1, <1>2, <1>3, MonthNames

\* The months are in the order of their days.
LEMMA MonthsRise ==
    ASSUME NEW m \in 1 .. 12, NEW k \in 1 .. 12
    PROVE  /\ T!month[m] \in Nat
           /\ k < m => T!month[k] < T!month[m]
BY MonthNames, MonthsOfTable

DateInv ==
    /\ year \in 70 .. 169 /\ mon \in 1 .. 12 /\ mday \in 1 .. T!MonthLength(mon, year)
    /\ yday = Before(mon, year) + mday - 1
    /\ days = 365 * (year - 70) + (year - 69) \div 4 + yday

LEMMA FirstDay == T!Init => DateInv
BY MonthsFollow DEF T!Init, DateInv

\* The year has a day more when it is divided by four.
LEMMA YearPasses ==
    ASSUME NEW yr \in 70 .. 169
    PROVE  (yr + 1 - 69) \div 4 = (yr - 69) \div 4 + (IF yr % 4 = 0 THEN 1 ELSE 0)
BY SMT

LEMMA DayPasses ==
    ASSUME DateInv, [T!Next]_T!vars
    PROVE  DateInv'
<1>1. CASE T!NextDay /\ days' = days + 1
  BY <1>1, MonthsFollow DEF DateInv, T!NextDay
<1>2. CASE T!NextMonth /\ days' = days + 1
  <2>1. mon' = mon + 1 /\ mon' \in 1 .. 12 /\ mday' = 1 /\ year' = year /\ yday' = yday + 1
    BY <1>2 DEF T!NextMonth, DateInv
  <2>2. /\ Before(mon, year) \in Nat /\ T!MonthLength(mon, year) \in 28 .. 31
        /\ Before(mon + 1, year) = Before(mon, year) + T!MonthLength(mon, year)
        /\ T!MonthLength(mon + 1, year) \in 28 .. 31
    BY <2>1, MonthsFollow DEF DateInv
  <2>3. mday = T!MonthLength(mon, year)
    BY <1>2 DEF T!NextMonth
  <2>4. yday' = Before(mon + 1, year)
    BY <2>1, <2>2, <2>3 DEF DateInv
  <2> QED
    BY <1>2, <2>1, <2>2, <2>4 DEF DateInv
<1>3. CASE T!NextYear /\ days' = days + 1
  <2>1. mon = 12 /\ mon' = 1 /\ mday' = 1 /\ year' = year + 1 /\ year' \in 70 .. 169 /\ yday' = 0
    BY <1>3, MCAssumption DEF T!NextYear, DateInv, T!CalendarAssumption
  <2>2. yday = IF T!Leap(year) THEN 365 ELSE 364
    BY <1>3, MonthsFollow DEF T!NextYear, DateInv
  <2>3. (year + 1 - 69) \div 4 = (year - 69) \div 4 + (IF T!Leap(year) THEN 1 ELSE 0)
    BY YearPasses, LeapYears DEF DateInv
  <2>4. Before(1, year + 1) = 0 /\ T!MonthLength(1, year + 1) \in 28 .. 31
    BY MonthsFollow
  <2>5. days' = 365 * (year + 1 - 70) + (year + 1 - 69) \div 4
    BY <1>3, <2>2, <2>3 DEF DateInv
  <2> QED
    BY <2>1, <2>4, <2>5 DEF DateInv
<1>4. CASE UNCHANGED T!vars
  BY <1>4 DEF T!vars, DateInv
<1> QED
  BY <1>1, <1>2, <1>3, <1>4 DEF T!Next

-----------------------------------------------------------------------------
\* The days that mktime and get_yday make of a date are those that went by.
LEMMA DaysAreCounted ==
    ASSUME DateInv
    PROVE  /\ T!mktime(year % 100, mon, mday) = days
           /\ T!get_yday(year % 100, mon, mday) = yday + 1
<1>1. T!YearsOf(year % 100) = year - 70 /\ (T!NotLeap(year - 70) <=> ~T!Leap(year))
  BY LeapYears DEF DateInv
<1>2. T!MonthDays(mon, year - 70) = Before(mon, year)
  BY <1>1, MonthsRise DEF T!MonthDays, Before, DateInv
<1>3. Before(mon, year) \in Nat
  BY MonthsFollow DEF DateInv
<1>4. T!MonthLength(mon, year) \in 28 .. 31
  BY MonthsFollow DEF DateInv
<1>5. T!mktime(year % 100, mon, mday) = days
  BY <1>1, <1>2, <1>3, <1>4 DEF T!mktime, DateInv
<1>6. T!get_yday(year % 100, mon, mday) = yday + 1
  BY <1>1, <1>2, <1>3, <1>4 DEF T!get_yday, DateInv
<1> QED
  BY <1>5, <1>6

Offset == IF T!is_leap_year(days \div 365 + 70) THEN 0 ELSE 1
YearDay == (days - T!elapsed_leap_years(days \div 365 + 70)) % (366 - Offset)
Later == {m \in 1 .. 12 : T!month[m] - Offset > YearDay}
MonthOf == (IF Later = {} THEN 13 ELSE T!Min(Later)) - 1

LEMMA LocalTime ==
    T!localtime(days) = [year |-> days \div 365 + 70, mon |-> MonthOf, yday |-> YearDay,
                         mday |-> YearDay - T!month[MonthOf] + Offset + 1]
BY DEF T!localtime, Offset, YearDay, Later, MonthOf

\* The date localtime gives back, part by part.
IsDate ==
    /\ days \div 365 + 70 = year /\ MonthOf = mon /\ YearDay = yday
    /\ YearDay - T!month[MonthOf] + Offset + 1 = mday

LEMMA LocalTimeIsDate ==
    T!localtime(days) = [year |-> year, mon |-> mon, yday |-> yday, mday |-> mday] <=> IsDate
BY LocalTime DEF IsDate

LEMMA Quotient ==
    ASSUME NEW a \in Nat, NEW b \in Nat, b < 730
    PROVE  (365 * a + b) \div 365 = a + (IF b < 365 THEN 0 ELSE 1)
BY SMT

LEMMA Remainder ==
    ASSUME NEW a \in Nat, NEW b \in Nat, b < 365
    PROVE  (365 * a + b) % 365 = b
BY SMT

\* The years the days make are the year, unless its days and the leap days
\* before it make 365.
LEMMA YearIsFound ==
    ASSUME DateInv
    PROVE  /\ yday \in 0 .. 365 /\ (~T!Leap(year) => yday < 365)
           /\ T!elapsed_leap_years(year) \in 0 .. 25
           /\ days = 365 * (year - 70) + T!elapsed_leap_years(year) + yday
           /\ days \div 365 + 70 = year <=> yday + T!elapsed_leap_years(year) < 365
<1>1. T!elapsed_leap_years(year) = (year - 69) \div 4
  BY LeapYears DEF DateInv
<1>2. (year - 69) \div 4 \in 0 .. 25
  BY SMT DEF DateInv
<1>3. yday \in 0 .. 365 /\ (~T!Leap(year) => yday < 365)
  <2>1. yday + 1 <= Before(mon, year) + T!MonthLength(mon, year) /\ yday \in Nat
    BY MonthsFollow DEF DateInv
  <2>2. CASE mon = 12
    BY <2>1, <2>2, MonthsFollow DEF DateInv
  <2>3. CASE mon < 12
    <3>1. yday + 1 <= Before(mon + 1, year) /\ mon + 1 \in 1 .. 12
      BY <2>1, <2>3, MonthsFollow DEF DateInv
    <3>2. Before(mon + 1, year) <= T!month[mon + 1] /\ T!month[mon + 1] <= 335
      BY <3>1, MonthsOfTable, MonthsRise DEF Before
    <3>3. Before(mon + 1, year) \in Nat
      BY <3>1, MonthsFollow
    <3> QED
      BY <2>1, <3>1, <3>2, <3>3, MonthsRise
  <2> QED
    BY <2>2, <2>3 DEF DateInv
<1>4. days = 365 * (year - 70) + T!elapsed_leap_years(year) + yday
  BY <1>1 DEF DateInv
<1>5. PICK a \in Nat : a = year - 70
  BY DEF DateInv
<1>6. PICK b \in Nat : b = T!elapsed_leap_years(year) + yday
  BY <1>1, <1>2, <1>3
<1>7. days = 365 * a + b /\ b < 730
  BY <1>1, <1>2, <1>3, <1>4, <1>5, <1>6
<1>8. days \div 365 = a + (IF b < 365 THEN 0 ELSE 1)
  BY <1>7, Quotient
<1>9. days \div 365 + 70 = year <=> b < 365
  BY <1>5, <1>8 DEF DateInv
<1> QED
  BY <1>1, <1>2, <1>3, <1>4, <1>6, <1>9

\* In a common year, before its days and the leap days make 365, the day is
\* that of the year.
LEMMA DayIsFound ==
    ASSUME DateInv, ~T!Leap(year), days \div 365 + 70 = year
    PROVE  Offset = 1 /\ YearDay = yday
<1>1. Offset = 1
  BY LeapYears DEF Offset, DateInv
<1>2. PICK a \in Nat : a = year - 70
  BY DEF DateInv
<1>3. days - T!elapsed_leap_years(year) = 365 * a + yday
  BY <1>2, YearIsFound DEF DateInv
<1>4. yday \in Nat /\ yday < 365
  BY YearIsFound
<1>5. (365 * a + yday) % 365 = yday
  BY <1>4, Remainder
<1> QED
  BY <1>1, <1>3, <1>5 DEF YearDay

\* From March on the table, a day less, finds the month.
LEMMA MonthIsFound ==
    ASSUME DateInv, ~T!Leap(year), mon > 2, Offset = 1, YearDay = yday
    PROVE  MonthOf = mon
<1>1. Before(mon, year) = T!month[mon] - 1 /\ mday \in 1 .. T!MonthLength(mon, year)
  BY MonthsRise DEF Before, DateInv
<1>2. /\ T!MonthLength(mon, year) \in 28 .. 31 /\ T!month[mon] \in Nat
      /\ T!month[mon] - 1 <= yday /\ yday < T!month[mon] - 1 + T!MonthLength(mon, year)
  BY <1>1, MonthsFollow, MonthsRise DEF DateInv
<1>3. ASSUME NEW m \in 1 .. 12, m <= mon
      PROVE  m \notin Later
  <2>1. T!month[m] <= T!month[mon] /\ T!month[m] \in Nat
    BY <1>3, MonthsRise DEF DateInv
  <2> QED
    BY <1>2, <2>1 DEF Later, DateInv
<1>4. CASE mon = 12
  <2>1. Later = {}
    BY <1>3, <1>4 DEF Later
  <2> QED
    BY <1>4, <2>1 DEF MonthOf
<1>5. CASE mon < 12
  <2>1. mon + 1 \in 1 .. 12 /\ T!month[mon + 1] - 1 = T!month[mon] - 1 + T!MonthLength(mon, year)
    BY <1>1, <1>5, MonthsFollow, MonthsRise DEF Before, DateInv
  <2>2. mon + 1 \in Later
    BY <1>2, <2>1 DEF Later
  <2>3. \A m \in Later : mon + 1 <= m
    BY <1>3 DEF Later, DateInv
  <2>4. \A m \in Later : m \in Int
    BY DEF Later
  <2>5. T!Min(Later) = mon + 1
    BY <2>2, <2>3, <2>4 DEF T!Min
  <2> QED
    BY <2>2, <2>5 DEF MonthOf, DateInv
<1> QED
  BY <1>4, <1>5 DEF DateInv

LEMMA DatesDoAgree ==
    ASSUME DateInv
    PROVE  T!DatesAgree
<1>1. ASSUME ~T!Leap(year), mon > 2, yday + T!elapsed_leap_years(year) < 365
      PROVE  IsDate
  <2>1. days \div 365 + 70 = year
    BY <1>1, YearIsFound
  <2>2. Offset = 1 /\ YearDay = yday
    BY <1>1, <2>1, DayIsFound
  <2>3. MonthOf = mon
    BY <1>1, <2>2, MonthIsFound
  <2>4. YearDay - T!month[MonthOf] + Offset + 1 = mday
    <3>1. Before(mon, year) = T!month[mon] - 1 /\ T!month[mon] \in Nat
      BY <1>1, MonthsRise DEF Before, DateInv
    <3>2. T!MonthLength(mon, year) \in 28 .. 31
      BY MonthsFollow DEF DateInv
    <3> QED
      BY <2>2, <2>3, <3>1, <3>2 DEF DateInv
  <2> QED
    BY <2>1, <2>2, <2>3, <2>4 DEF IsDate
<1> QED
  BY <1>1, DaysAreCounted, LocalTimeIsDate DEF T!DatesAgree

CalendarInv == part = "calendar" => DateInv

LEMMA CalendarSteps ==
    ASSUME CalendarInv, [MCNext]_allVars
    PROVE  CalendarInv'
<1>1. part' = part /\ (part = "calendar" => [T!Next]_T!vars)
  BY DEF MCNext, allVars, T!vars, calendarVars
<1> QED
  BY <1>1, DayPasses DEF CalendarInv

LEMMA CalendarStarts == MCInit => CalendarInv
BY FirstDay DEF MCInit, CalendarInv

\* mktime and get_yday count the days of every date from 1970 to the last
\* year, and localtime gives a date back in the dates the property names.
THEOREM CalendarCounts == MCSpec => []CalendarAgrees
<1>1. CalendarInv => CalendarAgrees
  BY DatesDoAgree DEF CalendarInv, CalendarAgrees
<1> QED
  BY <1>1, CalendarStarts, CalendarSteps, PTL DEF MCSpec

=============================================================================
