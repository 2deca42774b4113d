---------------------- MODULE TerminalDashboardProofs ----------------------
(***************************************************************************)
(* Proofs about TerminalDashboard: what is on the screen is what is in     *)
(* hand, a key does what it means wherever its bytes were split, the pages *)
(* hold every row of their tab once and no page or row outgrows the        *)
(* terminal.                                                               *)
(***************************************************************************)
EXTENDS TerminalDashboard, FiniteSetTheorems, SequenceTheorems, WellFoundedInduction, TLAPS

-----------------------------------------------------------------------------
(* The screen.                                                             *)

\* Whether the output is a terminal is decided before anything is shown, and only a
\* terminal has keys.
KeysOfTerminal ==
    /\ phase = "created" => scan = 0 /\ pressed.bytes = <<>>
    /\ ~interactive => pressed.bytes = <<>>

ScreenInv == ScreenCurrent /\ KeysOfTerminal

\* Rendering brings the screen up to date.
LEMMA Rendered ==
    ASSUME NEW number, NEW t, NEW p, Render(number, t, p), interactive' = interactive
    PROVE  ScreenCurrent' /\ scan' = number
<1>1. CASE number = 0
  BY <1>1 DEF Render, ScreenCurrent
<1>2. CASE number # 0 /\ interactive
  <2>1. /\ scan' = number /\ lastSize' = size /\ tab' = t
        /\ screen' = [tab |-> t, page |-> page', scan |-> number, size |-> size]
    BY <1>2 DEF Render
  <2>2. QED
    BY <1>2, <2>1 DEF ScreenCurrent
<1>3. CASE number # 0 /\ ~interactive
  <2>1. scan' = number /\ screen' = [Blank EXCEPT !.scan = number]
    BY <1>3 DEF Render
  <2>2. screen'.scan = number
    BY <2>1 DEF Blank
  <2>3. QED
    BY <1>3, <2>1, <2>2 DEF ScreenCurrent
<1>4. QED
  BY <1>1, <1>2, <1>3

LEMMA ScreenKept ==
    ASSUME ScreenCurrent, UNCHANGED <<scan, layout>>, interactive' = interactive
    PROVE  ScreenCurrent' /\ scan' = scan
BY DEF ScreenCurrent, layout

\* A key acts on the layout by rendering, or not at all.
LEMMA Applied ==
    ASSUME ScreenCurrent, NEW action, Apply(action), interactive' = interactive
    PROVE  ScreenCurrent' /\ scan' = scan
<1>1. \/ \E t, p : Render(scan, t, p)
      \/ UNCHANGED <<scan, layout>>
  <2>1. \A t : SelectTab(t) => UNCHANGED <<scan, layout>> \/ Render(scan, t, 0)
    BY DEF SelectTab
  <2>2. \A d : ChangePage(d) => UNCHANGED <<scan, layout>> \/ Render(scan, tab, page + d)
    BY DEF ChangePage
  <2>3. \/ \E t : SelectTab(t)
        \/ \E d : ChangePage(d)
        \/ UNCHANGED <<scan, layout>>
    BY DEF Apply
  <2>4. QED
    BY <2>1, <2>2, <2>3
<1>2. QED
  BY <1>1, Rendered, ScreenKept

LEMMA ScreenNext ==
    ASSUME ScreenInv, [Next]_vars
    PROVE  ScreenInv'
<1>1. ScreenCurrent /\ KeysOfTerminal
  BY DEF ScreenInv
<1>2. CASE Start
  <2>1. /\ phase = "created" /\ phase' = "started" /\ UNCHANGED <<scan, size, layout, keys>>
    BY <1>2 DEF Start
  <2>2. scan' = 0 /\ pressed' = pressed /\ pressed.bytes = <<>>
    BY <1>1, <2>1 DEF KeysOfTerminal, keys
  <2>3. QED
    BY <2>1, <2>2 DEF ScreenInv, ScreenCurrent, KeysOfTerminal
<1>3. ASSUME NEW number \in DOMAIN Scans, Update(number)
      PROVE  ScreenInv'
  <2>1. phase = "started" /\ UNCHANGED <<phase, interactive, size, keys>>
    BY <1>3 DEF Update
  <2>2. KeysOfTerminal'
    BY <1>1, <2>1 DEF KeysOfTerminal, keys
  <2>3. CASE Render(number, tab, page)
    BY <2>1, <2>2, <2>3, Rendered DEF ScreenInv
  <2>4. CASE /\ ~interactive /\ scan # 0 /\ Scans[scan].bar = Scans[number].bar
             /\ scan' = number /\ UNCHANGED layout
    <3>1. Scans[screen.scan].bar = Scans[scan].bar
      BY <1>1, <2>4 DEF ScreenCurrent
    <3>2. screen' = screen
      BY <2>4 DEF layout
    <3>3. QED
      BY <2>1, <2>2, <2>4, <3>1, <3>2 DEF ScreenInv, ScreenCurrent
  <2>5. QED
    BY <1>3, <2>3, <2>4 DEF Update
<1>4. CASE \E s \in Size : Resize(s)
  <2>1. UNCHANGED <<phase, interactive, scan, layout, keys>>
    BY <1>4 DEF Resize
  <2>2. QED
    BY <1>1, <2>1, ScreenKept DEF ScreenInv, KeysOfTerminal, keys
<1>5. CASE RenderIfResized
  <2>1. UNCHANGED <<phase, interactive, size, keys>> /\ Render(scan, tab, page) /\ phase = "started"
    BY <1>5 DEF RenderIfResized
  <2>2. QED
    BY <1>1, <2>1, Rendered DEF ScreenInv, KeysOfTerminal, keys
<1>6. CASE \E key \in Key : Press(key)
  <2>1. /\ phase = "started" /\ interactive
        /\ UNCHANGED <<phase, interactive, scan, size, layout, decoder>>
    BY <1>6 DEF Press
  <2>2. QED
    BY <1>1, <2>1, ScreenKept DEF ScreenInv, KeysOfTerminal
<1>7. CASE InputByte
  <2>1. /\ phase = "started" /\ pressed.bytes # <<>> /\ UNCHANGED <<phase, interactive, size>>
        /\ \E action : Apply(action)
    BY <1>7 DEF InputByte
  <2>2. interactive
    BY <1>1, <2>1 DEF KeysOfTerminal
  <2>3. ScreenCurrent'
    BY <1>1, <2>1, Applied
  <2>4. KeysOfTerminal'
    BY <2>1, <2>2 DEF KeysOfTerminal
  <2>5. QED
    BY <2>3, <2>4 DEF ScreenInv
<1>8. CASE Stop
  <2>1. phase' = "stopped" /\ UNCHANGED <<interactive, scan, size, layout, keys>>
    BY <1>8 DEF Stop
  <2>2. QED
    BY <1>1, <2>1, ScreenKept DEF ScreenInv, KeysOfTerminal, keys
<1>9. CASE UNCHANGED vars
  <2>1. UNCHANGED <<phase, interactive, scan, size, layout, keys>>
    BY <1>9 DEF vars
  <2>2. QED
    BY <1>1, <2>1, ScreenKept DEF ScreenInv, KeysOfTerminal, keys
<1>10. QED
  BY <1>2, <1>3, <1>4, <1>5, <1>6, <1>7, <1>8, <1>9 DEF Next

\* What was printed is what is in hand, for any scans, terminal sizes and keys: no path
\* changes the tab, the page or the scan of a terminal and leaves without rendering, and
\* the log has the bar of the latest scan.
THEOREM ScreenStaysCurrent == Spec => []ScreenCurrent
<1>1. Init => ScreenInv
  BY DEF Init, ScreenInv, ScreenCurrent, KeysOfTerminal
<1>2. ScreenInv => ScreenCurrent
  BY DEF ScreenInv
<1>3. QED
  BY <1>1, <1>2, ScreenNext, PTL DEF Spec

-----------------------------------------------------------------------------
(* The keys.                                                               *)

\* A lone Escape is not told from the beginning of a sequence: where it is a key, the
\* next one must not be one that begins like the rest of a sequence.
Unambiguous == "escape" \notin Key \/ Key \cap {"right", "left", "control-right", "["} = {}

Byte == {"esc", "[", "]", "C", "D", "1", ";", "5", "tab", "4", "q"}

\* The decoder between two keys.
Resting == IF "escape" \in Key THEN {"plain", "escape"} ELSE {"plain"}

\* The states of the decoder when i bytes of a key have been read.
StatesAfter(key, i) ==
    IF i = 0 \/ key = "escape" THEN Resting
    ELSE IF i = Len(Bytes(key)) THEN {"plain"}
    ELSE IF i = 1 THEN {"escape"} ELSE {"control"}

\* What a key has done when its bytes have been read.
Done(key) == IF Meaning(key) = None THEN <<>> ELSE <<Meaning(key)>>

\* How far the decoder is with a key when i bytes of it have been read.
InProgress(key, i, state, did) ==
    /\ state \in StatesAfter(key, i)
    /\ did = IF i = Len(Bytes(key)) THEN Done(key) ELSE <<>>

KeysInv ==
    /\ pressed = [key |-> pressed.key, bytes |-> pressed.bytes]
    /\ \/ pressed.key = None /\ pressed.bytes = <<>> /\ decoder = "plain" /\ acted = <<>>
       \/ /\ pressed.key \in Key
          /\ \E i \in 0 .. Len(Bytes(pressed.key)) :
                 /\ pressed.bytes = SubSeq(Bytes(pressed.key), i + 1, Len(Bytes(pressed.key)))
                 /\ InProgress(pressed.key, i, decoder, acted)

\* Reading a sequence from its front.
LEMMA ReadFromFront ==
    ASSUME NEW S, NEW s \in Seq(S), NEW i \in 0 .. Len(s)
    PROVE  /\ SubSeq(s, i + 1, Len(s)) = <<>> <=> i = Len(s)
           /\ i = 0 => SubSeq(s, i + 1, Len(s)) = s
           /\ i < Len(s) => /\ Head(SubSeq(s, i + 1, Len(s))) = s[i + 1]
                            /\ Tail(SubSeq(s, i + 1, Len(s))) = SubSeq(s, i + 2, Len(s))
<1> DEFINE r == SubSeq(s, i + 1, Len(s))
           u == SubSeq(s, i + 2, Len(s))
<1>1. /\ r \in Seq(S) /\ Len(r) = Len(s) - i
      /\ \A k \in 1 .. Len(s) - i : r[k] = s[i + k]
  OBVIOUS
<1>2. r = <<>> <=> i = Len(s)
  <2> HIDE DEF r
  <2>1. QED
    BY <1>1
<1>3. i = 0 => r = s
  BY <1>1
<1>4. ASSUME i < Len(s) PROVE Head(r) = s[i + 1] /\ Tail(r) = u
  <2>1. /\ u \in Seq(S) /\ Len(u) = Len(s) - i - 1
        /\ \A k \in 1 .. Len(s) - i - 1 : u[k] = s[i + 1 + k]
    BY <1>4
  <2> HIDE DEF r, u
  <2>2. r # <<>> /\ Head(r) = s[i + 1]
    BY <1>1, <1>4
  <2>3. /\ Tail(r) \in Seq(S) /\ Len(Tail(r)) = Len(r) - 1
        /\ \A k \in 1 .. Len(r) - 1 : Tail(r)[k] = r[k + 1]
    BY <1>1, <2>2
  <2>4. /\ Len(Tail(r)) = Len(u)
        /\ \A k \in 1 .. Len(u) : Tail(r)[k] = u[k]
    BY <1>1, <1>4, <2>1, <2>3
  <2>5. Tail(r) = u
    BY <2>1, <2>3, <2>4
  <2>6. QED
    BY <2>2, <2>5
<1>5. QED
  BY <1>2, <1>3, <1>4

\* Sequences written out.
OneByte(s, a) == s \in Seq(Byte) /\ Len(s) = 1 /\ s[1] = a
ThreeBytes(s, a, b, c) ==
    s \in Seq(Byte) /\ Len(s) = 3 /\ s[1] = a /\ s[2] = b /\ s[3] = c
SixBytes(s, a, b, c, d, e, f) ==
    /\ s \in Seq(Byte) /\ Len(s) = 6
    /\ s[1] = a /\ s[2] = b /\ s[3] = c /\ s[4] = d /\ s[5] = e /\ s[6] = f

LEMMA One == ASSUME NEW a \in Byte PROVE OneByte(<<a>>, a)
BY DEF OneByte

LEMMA Three ==
    ASSUME NEW a \in Byte, NEW b \in Byte, NEW c \in Byte
    PROVE  ThreeBytes(<<a, b, c>>, a, b, c)
BY DEF ThreeBytes

LEMMA Six ==
    ASSUME NEW a \in Byte, NEW b \in Byte, NEW c \in Byte,
           NEW d \in Byte, NEW e \in Byte, NEW f \in Byte
    PROVE  SixBytes(<<a, b, c, d, e, f>>, a, b, c, d, e, f)
BY DEF SixBytes

\* The bytes of the keys.
LEMMA BytesOf ==
    ASSUME NEW key \in Key
    PROVE  /\ key = "right" => ThreeBytes(Bytes(key), "esc", "[", "C")
           /\ key = "left" => ThreeBytes(Bytes(key), "esc", "[", "D")
           /\ key = "control-right" => SixBytes(Bytes(key), "esc", "[", "1", ";", "5", "C")
           /\ key = "escape" => OneByte(Bytes(key), "esc")
           /\ key \in {"tab", "4", "[", "]", "q"} => OneByte(Bytes(key), key)
<1>1. /\ "esc" \in Byte /\ "[" \in Byte /\ "C" \in Byte /\ "D" \in Byte
      /\ "1" \in Byte /\ ";" \in Byte /\ "5" \in Byte
      /\ \A k \in {"tab", "4", "[", "]", "q"} : k \in Byte
  BY DEF Byte
<1>2. ASSUME key = "right" PROVE ThreeBytes(Bytes(key), "esc", "[", "C")
  <2>1. Bytes(key) = <<"esc", "[", "C">>
    BY <1>2 DEF Bytes
  <2>2. QED
    BY <1>1, <2>1, Three, Zenon
<1>3. ASSUME key = "left" PROVE ThreeBytes(Bytes(key), "esc", "[", "D")
  <2>1. Bytes(key) = <<"esc", "[", "D">>
    BY <1>3 DEF Bytes
  <2>2. QED
    BY <1>1, <2>1, Three, Zenon
<1>4. ASSUME key = "control-right"
      PROVE  SixBytes(Bytes(key), "esc", "[", "1", ";", "5", "C")
  <2>1. Bytes(key) = <<"esc", "[", "1", ";", "5", "C">>
    BY <1>4 DEF Bytes
  <2>2. SixBytes(<<"esc", "[", "1", ";", "5", "C">>, "esc", "[", "1", ";", "5", "C")
    BY <1>1, Six
  <2>3. QED
    BY <2>1, <2>2, Zenon
<1>5. ASSUME key = "escape" PROVE OneByte(Bytes(key), "esc")
  <2>1. Bytes(key) = <<"esc">>
    BY <1>5 DEF Bytes
  <2>2. QED
    BY <1>1, <2>1, One, Zenon
<1>6. ASSUME key \in {"tab", "4", "[", "]", "q"} PROVE OneByte(Bytes(key), key)
  <2>1. Bytes(key) = <<key>>
    BY <1>6 DEF Bytes
  <2>2. key \in Byte
    BY <1>1, <1>6, Zenon
  <2>3. QED
    BY <2>1, <2>2, One, Zenon
<1>7. QED
  BY <1>2, <1>3, <1>4, <1>5, <1>6

LEMMA SingleOrSequenced ==
    ASSUME NEW key \in Key
    PROVE  key \in {"right", "left", "control-right", "escape"} \cup {"tab", "4", "[", "]", "q"}
BY KeyAssumption

LEMMA BytesTyped ==
    ASSUME NEW key \in Key
    PROVE  Bytes(key) \in Seq(Byte) /\ Len(Bytes(key)) > 0
<1> DEFINE typed(s) == s \in Seq(Byte) /\ Len(s) > 0
<1>1. /\ \A s, a : OneByte(s, a) => typed(s)
      /\ \A s, a, b, c : ThreeBytes(s, a, b, c) => typed(s)
      /\ \A s, a, b, c, d, e, f : SixBytes(s, a, b, c, d, e, f) => typed(s)
  BY DEF OneByte, ThreeBytes, SixBytes
<1> HIDE DEF typed
<1>2. typed(Bytes(key))
  BY <1>1, BytesOf, SingleOrSequenced, Zenon
<1>3. QED
  BY <1>2 DEF typed

LEMMA BytesOfSingle ==
    ASSUME NEW key \in Key, key \in {"escape", "tab", "4", "[", "]", "q"}
    PROVE  /\ Len(Bytes(key)) = 1
           /\ Bytes(key)[1] = IF key = "escape" THEN "esc" ELSE key
<1>1. \A s, a : OneByte(s, a) => Len(s) = 1 /\ s[1] = a
  BY DEF OneByte
<1>2. CASE key = "escape"
  <2>1. OneByte(Bytes(key), "esc")
    BY <1>2, BytesOf, Zenon
  <2>2. QED
    BY <1>1, <1>2, <2>1, Zenon
<1>3. CASE key # "escape"
  <2>1. key \in {"tab", "4", "[", "]", "q"}
    BY <1>3
  <2>2. OneByte(Bytes(key), key)
    BY <2>1, BytesOf, Zenon
  <2>3. QED
    BY <1>1, <1>3, <2>2, Zenon
<1>4. QED
  BY <1>2, <1>3

LEMMA BytesOfSequenced ==
    ASSUME NEW key \in Key, key \in {"right", "left", "control-right"}
    PROVE  /\ Len(Bytes(key)) = IF key = "control-right" THEN 6 ELSE 3
           /\ Bytes(key)[1] = "esc" /\ Bytes(key)[2] = "["
           /\ \A k \in 3 .. Len(Bytes(key)) - 1 : Bytes(key)[k] \in {"1", ";", "5"}
           /\ Bytes(key)[Len(Bytes(key))] = IF key = "left" THEN "D" ELSE "C"
<1> DEFINE middle(s) == \A k \in 3 .. Len(s) - 1 : s[k] \in {"1", ";", "5"}
           word(s, n, c) == Len(s) = n /\ s[1] = "esc" /\ s[2] = "[" /\ middle(s) /\ s[n] = c
<1>1. \A s, c : ThreeBytes(s, "esc", "[", c) => word(s, 3, c)
  BY DEF ThreeBytes
<1>2. \A s : SixBytes(s, "esc", "[", "1", ";", "5", "C") => word(s, 6, "C")
  <2>1. SUFFICES ASSUME NEW s, SixBytes(s, "esc", "[", "1", ";", "5", "C")
                 PROVE  word(s, 6, "C")
    OBVIOUS
  <2>2. /\ Len(s) = 6 /\ s[1] = "esc" /\ s[2] = "["
        /\ s[3] = "1" /\ s[4] = ";" /\ s[5] = "5" /\ s[6] = "C"
    BY <2>1 DEF SixBytes
  <2>3. \A k \in 3 .. 6 - 1 : k \in {3, 4, 5}
    OBVIOUS
  <2>4. middle(s)
    BY <2>2, <2>3
  <2>5. QED
    BY <2>2, <2>4
<1> HIDE DEF word
<1>3. CASE key = "right"
  <2>1. word(Bytes(key), 3, "C")
    BY <1>1, <1>3, BytesOf, Zenon
  <2>2. QED
    BY <1>3, <2>1 DEF word
<1>4. CASE key = "left"
  <2>1. word(Bytes(key), 3, "D")
    BY <1>1, <1>4, BytesOf, Zenon
  <2>2. QED
    BY <1>4, <2>1 DEF word
<1>5. CASE key = "control-right"
  <2>1. word(Bytes(key), 6, "C")
    BY <1>2, <1>5, BytesOf, Zenon
  <2>2. QED
    BY <1>5, <2>1 DEF word
<1>6. QED
  BY <1>3, <1>4, <1>5, Zenon

\* What the decoder makes of the bytes that occur.
LEMMA Consumed ==
    /\ Consume("plain", "esc") = <<"escape", None>>
    /\ Consume("escape", "esc") = <<"plain", None>>
    /\ Consume("escape", "[") = <<"control", None>>
    /\ \A byte \in {"1", ";", "5"} : Consume("control", byte) = <<"control", None>>
    /\ Consume("control", "C") = <<"plain", "next tab">>
    /\ Consume("control", "D") = <<"plain", "previous tab">>
    /\ \A key \in {"tab", "4", "[", "]", "q"} :
           /\ Consume("plain", key) = <<"plain", Meaning(key)>>
           /\ key # "[" => Consume("escape", key) = <<"plain", Meaning(key)>>
<1>1. /\ Consume("plain", "esc") = <<"escape", None>>
      /\ Consume("escape", "esc") = <<"plain", None>>
      /\ Consume("escape", "[") = <<"control", None>>
  BY DEF Consume, DecodePlain, None
<1>2. \A byte \in {"1", ";", "5"} : Consume("control", byte) = <<"control", None>>
  BY DEF Consume, Terminates
<1>3. /\ Consume("control", "C") = <<"plain", "next tab">>
      /\ Consume("control", "D") = <<"plain", "previous tab">>
  BY DEF Consume, Terminates
<1>4. ASSUME NEW key \in {"tab", "4", "[", "]", "q"}
      PROVE  /\ Consume("plain", key) = <<"plain", Meaning(key)>>
             /\ key # "[" => Consume("escape", key) = <<"plain", Meaning(key)>>
  BY DEF Consume, Meaning
<1>5. QED
  BY <1>1, <1>2, <1>3, <1>4

\* One byte brings the decoder one state further; only the last one acts.
LEMMA ByteMeans ==
    ASSUME Unambiguous, NEW key \in Key, NEW i \in 0 .. Len(Bytes(key)) - 1,
           NEW state \in StatesAfter(key, i)
    PROVE  \E new \in StatesAfter(key, i + 1) :
               Consume(state, Bytes(key)[i + 1])
                   = <<new, IF i + 1 = Len(Bytes(key)) THEN Meaning(key) ELSE None>>
<1>1. CASE key = "escape"
  <2>1. Len(Bytes(key)) = 1 /\ Bytes(key)[1] = "esc"
    BY <1>1, BytesOfSingle, Zenon
  <2>2. i = 0 /\ i + 1 = 1
    BY <2>1
  <2>3. i = 0 /\ Len(Bytes(key)) = 1 /\ Bytes(key)[i + 1] = "esc"
    BY <2>1, <2>2, Zenon
  <2>4. state \in {"plain", "escape"} /\ StatesAfter(key, 1) = {"plain", "escape"}
    BY <1>1 DEF StatesAfter, Resting
  <2>5. Meaning(key) = None
    BY <1>1 DEF Meaning, DecodePlain
  <2>6. \E new \in {"plain", "escape"} : Consume(state, "esc") = <<new, None>>
    BY <2>4, Consumed
  <2>7. QED
    BY <2>3, <2>4, <2>5, <2>6
<1>2. CASE key \in {"tab", "4", "[", "]", "q"}
  <2>1. key # "escape"
    BY <1>2
  <2>2. Len(Bytes(key)) = 1 /\ Bytes(key)[1] = key
    BY <1>2, <2>1, BytesOfSingle, Zenon
  <2>3. i = 0 /\ i + 1 = 1
    BY <2>2
  <2>4. i = 0 /\ Len(Bytes(key)) = 1 /\ Bytes(key)[i + 1] = key
    BY <2>2, <2>3, Zenon
  <2>5. state = "plain" \/ (state = "escape" /\ key # "[")
    BY <2>4 DEF StatesAfter, Resting, Unambiguous
  <2>6. Consume(state, key) = <<"plain", Meaning(key)>>
    BY <1>2, <2>5, Consumed
  <2>7. "plain" \in StatesAfter(key, 1)
    BY <1>2, <2>4 DEF StatesAfter
  <2>8. QED
    BY <2>4, <2>6, <2>7
<1>3. CASE key \in {"right", "left", "control-right"}
  <2>1. Resting = {"plain"}
    BY <1>3 DEF Resting, Unambiguous
  <2> DEFINE b == Bytes(key)
             n == Len(Bytes(key))
  <2>2. /\ n \in {3, 6} /\ b[1] = "esc" /\ b[2] = "["
        /\ \A k \in 3 .. n - 1 : b[k] \in {"1", ";", "5"}
        /\ b[n] = IF key = "left" THEN "D" ELSE "C"
    BY <1>3, BytesOfSequenced
  <2>3. StatesAfter(key, i) = IF i = 0 \/ i = n THEN {"plain"}
                              ELSE IF i = 1 THEN {"escape"} ELSE {"control"}
    BY <1>3, <2>1 DEF StatesAfter
  <2>4. StatesAfter(key, i + 1) = IF i + 1 = n THEN {"plain"}
                                  ELSE IF i = 0 THEN {"escape"} ELSE {"control"}
    BY <1>3 DEF StatesAfter
  <2>5. n \in {3, 6}
    BY <2>2, Zenon
  <2>6. i \in 0 .. n - 1
    BY Zenon DEF n
  <2> HIDE DEF b, n
  <2>7. CASE i = 0
    <3>1. i + 1 # n /\ i + 1 = 1
      BY <2>5, <2>6, <2>7
    <3>2. state = "plain" /\ StatesAfter(key, i + 1) = {"escape"} /\ b[i + 1] = "esc"
      BY <2>2, <2>3, <2>4, <2>7, <3>1
    <3>3. QED
      BY <3>1, <3>2, Consumed, Zenon DEF b, n
  <2>8. CASE i = 1
    <3>1. i + 1 # n /\ i + 1 = 2 /\ i # 0 /\ i # n
      BY <2>5, <2>6, <2>8
    <3>2. state = "escape" /\ StatesAfter(key, i + 1) = {"control"} /\ b[i + 1] = "["
      BY <2>2, <2>3, <2>4, <2>8, <3>1
    <3>3. QED
      BY <3>1, <3>2, Consumed, Zenon DEF b, n
  <2>9. CASE i > 1 /\ i + 1 < n
    <3>1. i + 1 # n /\ i + 1 \in 3 .. n - 1 /\ i # 0 /\ i # 1 /\ i # n
      BY <2>5, <2>6, <2>9
    <3>2. /\ state = "control" /\ StatesAfter(key, i + 1) = {"control"}
          /\ b[i + 1] \in {"1", ";", "5"}
      BY <2>2, <2>3, <2>4, <3>1, Zenon
    <3>3. QED
      BY <3>1, <3>2, Consumed, Zenon DEF b, n
  <2>10. CASE i > 1 /\ i + 1 = n
    <3>1. i # 0 /\ i # 1 /\ i # n
      BY <2>5, <2>6, <2>10
    <3>2. state = "control" /\ StatesAfter(key, i + 1) = {"plain"}
      BY <2>3, <2>4, <2>10, <3>1, Zenon
    <3>3. CASE key = "left"
      <4>1. Meaning(key) = "previous tab"
        BY <3>3 DEF Meaning
      <4>2. b[i + 1] = "D"
        BY <2>2, <2>10, <3>3, Zenon
      <4>3. Consume("control", "D") = <<"plain", "previous tab">>
        BY Consumed, Zenon
      <4>4. QED
        BY <2>10, <3>2, <4>1, <4>2, <4>3, Zenon DEF b, n
    <3>4. CASE key # "left"
      <4>1. Meaning(key) = "next tab"
        BY <1>3, <3>4 DEF Meaning
      <4>2. b[i + 1] = "C"
        BY <2>2, <2>10, <3>4, Zenon
      <4>3. Consume("control", "C") = <<"plain", "next tab">>
        BY Consumed, Zenon
      <4>4. QED
        BY <2>10, <3>2, <4>1, <4>2, <4>3, Zenon DEF b, n
    <3>5. QED
      BY <3>3, <3>4
  <2>11. i = 0 \/ i = 1 \/ (i > 1 /\ i + 1 < n) \/ (i > 1 /\ i + 1 = n)
    <3>1. n \in Int /\ i \in Nat /\ i < n
      BY <2>5, <2>6
    <3>2. QED
      BY <3>1
  <2>12. QED
    BY <2>7, <2>8, <2>9, <2>10, <2>11
<1>4. QED
  BY <1>1, <1>2, <1>3, SingleOrSequenced

\* A key that is pressed has none of its bytes read.
LEMMA PressBegins ==
    ASSUME KeysInv, NEW key \in Key, Press(key)
    PROVE  KeysInv'
<1>1. pressed.bytes = <<>> /\ pressed' = [key |-> key, bytes |-> Bytes(key)]
      /\ acted' = <<>> /\ decoder' = decoder
  BY DEF Press
<1>2. decoder \in Resting
  <2>1. CASE decoder = "plain"
    BY <2>1 DEF Resting
  <2>2. CASE /\ pressed.key \in Key
             /\ \E i \in 0 .. Len(Bytes(pressed.key)) :
                    /\ pressed.bytes = SubSeq(Bytes(pressed.key), i + 1, Len(Bytes(pressed.key)))
                    /\ InProgress(pressed.key, i, decoder, acted)
    <3>1. PICK i \in 0 .. Len(Bytes(pressed.key)) :
              /\ pressed.bytes = SubSeq(Bytes(pressed.key), i + 1, Len(Bytes(pressed.key)))
              /\ InProgress(pressed.key, i, decoder, acted)
      BY <2>2
    <3>2. i = Len(Bytes(pressed.key))
      BY <1>1, <2>2, <3>1, BytesTyped, ReadFromFront
    <3>3. decoder \in StatesAfter(pressed.key, i)
      BY <3>1 DEF InProgress
    <3>4. QED
      BY <3>2, <3>3 DEF StatesAfter, Resting
  <2>3. QED
    BY <2>1, <2>2 DEF KeysInv
<1>3. /\ Bytes(key) = SubSeq(Bytes(key), 0 + 1, Len(Bytes(key)))
      /\ 0 \in 0 .. Len(Bytes(key)) /\ 0 # Len(Bytes(key))
  BY BytesTyped, ReadFromFront
<1>4. InProgress(key, 0, decoder', acted')
  BY <1>1, <1>2, <1>3 DEF InProgress, StatesAfter
<1>5. pressed'.key = key /\ pressed'.bytes = Bytes(key)
  BY <1>1
<1>6. QED
  BY <1>1, <1>3, <1>4, <1>5 DEF KeysInv

LEMMA ByteInProgress ==
    ASSUME Unambiguous, KeysInv, InputByte
    PROVE  KeysInv'
<1> DEFINE key == pressed.key
           b == Bytes(pressed.key)
           n == Len(Bytes(pressed.key))
<1>1. /\ pressed.bytes # <<>>
      /\ decoder' = Consume(decoder, Head(pressed.bytes))[1]
      /\ acted' = LET action == Consume(decoder, Head(pressed.bytes))[2]
                  IN IF action = None THEN acted ELSE Append(acted, action)
      /\ pressed' = [pressed EXCEPT !.bytes = Tail(pressed.bytes)]
  BY DEF InputByte
<1>2. /\ pressed = [key |-> key, bytes |-> pressed.bytes] /\ key \in Key
      /\ \E i \in 0 .. n : /\ pressed.bytes = SubSeq(b, i + 1, n)
                           /\ InProgress(key, i, decoder, acted)
  BY <1>1 DEF KeysInv
<1>3. PICK i \in 0 .. n : pressed.bytes = SubSeq(b, i + 1, n) /\ InProgress(key, i, decoder, acted)
  BY <1>2
<1>4. b \in Seq(Byte) /\ n > 0
  BY <1>2, BytesTyped
<1>5. /\ i < n /\ Head(pressed.bytes) = b[i + 1]
      /\ Tail(pressed.bytes) = SubSeq(b, i + 2, n)
  <2>1. SubSeq(b, i + 1, n) = <<>> <=> i = n
    BY <1>4, ReadFromFront
  <2>2. i < n
    BY <1>1, <1>3, <2>1
  <2>3. /\ Head(SubSeq(b, i + 1, n)) = b[i + 1]
        /\ Tail(SubSeq(b, i + 1, n)) = SubSeq(b, i + 2, n)
    BY <1>4, <2>2, ReadFromFront
  <2>4. QED
    BY <1>3, <2>2, <2>3, Zenon
<1>6. i \in 0 .. n - 1 /\ i + 1 \in 0 .. n /\ (i + 1) + 1 = i + 2 /\ i # n
  BY <1>4, <1>5
<1>7. decoder \in StatesAfter(key, i) /\ acted = <<>>
  BY <1>3, <1>6 DEF InProgress
<1>8. PICK new \in StatesAfter(key, i + 1) :
          Consume(decoder, b[i + 1]) = <<new, IF i + 1 = n THEN Meaning(key) ELSE None>>
  BY <1>2, <1>6, <1>7, ByteMeans
<1> HIDE DEF key, b, n
<1>9. decoder' = new
  BY <1>1, <1>5, <1>8
<1>10. acted' = IF i + 1 = n THEN Done(key) ELSE <<>>
  <2>1. Consume(decoder, b[i + 1])[2] = IF i + 1 = n THEN Meaning(key) ELSE None
    BY <1>8
  <2>2. CASE i + 1 = n /\ Meaning(key) # None
    <3>1. acted' = Append(<<>>, Meaning(key))
      BY <1>1, <1>5, <1>7, <2>1, <2>2
    <3>2. QED
      BY <2>2, <3>1 DEF Done
  <2>3. CASE ~(i + 1 = n /\ Meaning(key) # None)
    BY <1>1, <1>5, <1>7, <2>1, <2>3 DEF Done
  <2>4. QED
    BY <2>2, <2>3
<1>11. InProgress(key, i + 1, decoder', acted')
  <2>1. decoder' \in StatesAfter(key, i + 1)
    BY <1>9
  <2>2. QED
    BY <1>10, <2>1 DEF InProgress, n, key
<1>12. /\ pressed' = [key |-> pressed'.key, bytes |-> pressed'.bytes]
       /\ pressed'.key = key /\ pressed'.bytes = SubSeq(b, i + 2, n)
  <2>1. pressed' = [pressed EXCEPT !.bytes = SubSeq(b, i + 2, n)]
    BY <1>1, <1>5, Zenon
  <2>2. \A y : LET q == [pressed EXCEPT !.bytes = y]
               IN q = [key |-> q.key, bytes |-> q.bytes] /\ q.key = key /\ q.bytes = y
    BY <1>2
  <2>3. QED
    BY <2>1, <2>2, Zenon
<1>13. QED
  BY <1>2, <1>6, <1>11, <1>12 DEF KeysInv, key, b, n

LEMMA KeysNext ==
    ASSUME Unambiguous, KeysInv, [Next]_vars
    PROVE  KeysInv'
<1>1. CASE \E key \in Key : Press(key)
  BY <1>1, PressBegins
<1>2. CASE InputByte
  BY <1>2, ByteInProgress
<1>3. CASE UNCHANGED keys
  BY <1>3 DEF keys, KeysInv
<1>4. QED
  BY <1>1, <1>2, <1>3 DEF Next, Start, Update, Resize, RenderIfResized, Stop, vars, keys

\* Once the bytes of a key have been read it has done what it means, once, wherever
\* the reads were split and whatever was pressed before: the state the decoder is left
\* in by one key does not change the next one, with a lone Escape followed by anything
\* that does not begin like a sequence.
THEOREM KeysAreDecoded == ASSUME Unambiguous PROVE Spec => []KeysDecoded
<1>1. Init => KeysInv
  BY DEF Init, KeysInv
<1>2. ASSUME KeysInv PROVE KeysDecoded
  <2>1. SUFFICES ASSUME pressed.bytes = <<>>, pressed.key # None
                 PROVE  acted = Done(pressed.key)
    <3>1. pressed.key = None => acted = <<>>
      <4>1. None \notin Key
        BY KeyAssumption DEF None
      <4>2. QED
        BY <1>2, <4>1 DEF KeysInv
    <3>2. QED
      BY <3>1 DEF KeysDecoded, Done
  <2>2. PICK i \in 0 .. Len(Bytes(pressed.key)) :
            /\ pressed.bytes = SubSeq(Bytes(pressed.key), i + 1, Len(Bytes(pressed.key)))
            /\ InProgress(pressed.key, i, decoder, acted)
    BY <1>2, <2>1 DEF KeysInv
  <2>3. pressed.key \in Key
    BY <1>2, <2>1 DEF KeysInv
  <2>4. i = Len(Bytes(pressed.key))
    BY <2>1, <2>2, <2>3, BytesTyped, ReadFromFront
  <2>5. QED
    BY <2>2, <2>4 DEF InProgress
<1>3. QED
  BY <1>1, <1>2, KeysNext, PTL DEF Spec

-----------------------------------------------------------------------------
(* Recursion on the numbers up to n: what is defined so exists, and what   *)
(* each step keeps holds at the end.                                       *)

LEMMA LeastOf ==
    ASSUME NEW S \in SUBSET Nat, S # {}
    PROVE  \E m \in S : \A n \in S : m <= n
<1>1. PICK m \in S : \A n \in S : <<n, m>> \notin OpToRel(<, Nat)
  BY NatLessThanWellFounded, WFMin, Zenon
<1>2. \A n \in S : ~(n < m)
  BY <1>1 DEF OpToRel
<1>3. QED
  BY <1>2

LEMMA Inductively ==
    ASSUME NEW n \in Nat, NEW S, 0 \in S, \A k \in 1 .. n : k - 1 \in S => k \in S
    PROVE  \A k \in 0 .. n : k \in S
<1> DEFINE bad == {k \in 0 .. n : k \notin S}
<1>1. SUFFICES ASSUME bad # {} PROVE FALSE
  OBVIOUS
<1>2. PICK m \in bad : \A k \in bad : m <= k
  <2>1. bad \in SUBSET Nat
    OBVIOUS
  <2> HIDE DEF bad
  <2>2. QED
    BY <1>1, <2>1, LeastOf, Zenon
<1>3. m \in 0 .. n /\ m \notin S /\ m # 0
  BY <1>2
<1>4. m - 1 \in 0 .. n /\ m - 1 \notin bad /\ m \in 1 .. n
  BY <1>2, <1>3
<1>5. QED
  BY <1>3, <1>4

\* f is computed from base, its value at k by step[k] from the one before.
Computes(f, n, base, step) == f[0] = base /\ \A k \in 1 .. n : f[k] = step[k][f[k - 1]]

LEMMA Computed ==
    ASSUME NEW n \in Nat, NEW R, NEW base \in R, NEW step \in [1 .. n -> [R -> R]]
    PROVE  \E f \in [0 .. n -> R] : Computes(f, n, base, step)
<1> DEFINE good == {m \in 0 .. n : \E f \in [0 .. m -> R] : Computes(f, m, base, step)}
<1>1. 0 \in good
  <2>1. [k \in 0 .. 0 |-> base] \in [0 .. 0 -> R]
    OBVIOUS
  <2>2. Computes([k \in 0 .. 0 |-> base], 0, base, step)
    BY DEF Computes
  <2>3. QED
    BY <2>1, <2>2
<1>2. ASSUME NEW m \in 1 .. n, m - 1 \in good PROVE m \in good
  <2>1. PICK f \in [0 .. m - 1 -> R] : Computes(f, m - 1, base, step)
    BY <1>2
  <2> DEFINE g == [k \in 0 .. m |-> IF k = m THEN step[m][f[m - 1]] ELSE f[k]]
  <2>2. step[m] \in [R -> R] /\ f[m - 1] \in R
    BY <2>1
  <2>3. g \in [0 .. m -> R]
    BY <2>1, <2>2
  <2>4. f[0] = base /\ \A k \in 1 .. m - 1 : f[k] = step[k][f[k - 1]]
    BY <2>1 DEF Computes
  <2>5. g[0] = base /\ \A k \in 1 .. m : g[k] = step[k][g[k - 1]]
    BY <2>4
  <2>6. Computes(g, m, base, step)
    BY <2>5 DEF Computes
  <2>7. QED
    BY <2>3, <2>6
<1> HIDE DEF good
<1>3. n \in good
  <2>1. \A m \in 1 .. n : m - 1 \in good => m \in good
    BY <1>2
  <2>2. \A k \in 0 .. n : k \in good
    BY <1>1, <2>1, Inductively, Zenon
  <2>3. QED
    BY <2>2
<1>4. QED
  BY <1>3 DEF good

\* What is computed alike agrees.
Alike(f, g, n) == f[0] = g[0] /\ \A k \in 1 .. n : f[k - 1] = g[k - 1] => f[k] = g[k]
Agree(f, g, n) == \A k \in 0 .. n : f[k] = g[k]

LEMMA AlikeAgree ==
    ASSUME NEW n \in Nat, NEW f, NEW g, Alike(f, g, n)
    PROVE  Agree(f, g, n)
<1> DEFINE S == {k \in 0 .. n : f[k] = g[k]}
<1>1. 0 \in S /\ \A k \in 1 .. n : k - 1 \in S => k \in S
  BY DEF Alike
<1> HIDE DEF S
<1>2. \A k \in 0 .. n : k \in S
  BY <1>1, Inductively, Zenon
<1>3. QED
  BY <1>2 DEF S, Agree

-----------------------------------------------------------------------------
(* The lines put one after the other.                                      *)

\* The provers do not know that a text written out is a STRING.
LineKind == {"title", "continued", "header", "none", "blank", "row"}
GroupName == {"strong", "neutral", "weak"}
Symbol == STRING \cup {""}
AnyLine == [kind : LineKind, group : GroupName, symbol : Symbol]
AnyPage == Seq(AnyLine)
Book == {pages \in Seq(AnyPage) : Len(pages) > 0}

\* f[k] are the pages with the first k lines, or rows, put.
PutsAll(f, pages, lines, c) ==
    /\ f[0] = pages
    /\ \A k \in 1 .. Len(lines) : f[k] = Put(f[k - 1], lines[k], c)
    /\ PutAll(pages, lines, c) = f[Len(lines)]

PutsRows(f, pages, group, ranks, c) ==
    /\ f[0] = pages
    /\ \A k \in 1 .. Len(ranks) : f[k] = PutRow(f[k - 1], group, ranks[k], c)
    /\ PutRows(pages, group, ranks, c) = f[Len(ranks)]

LEMMA PutAllBy ==
    ASSUME NEW c, NEW R, NEW pages \in R, NEW lines, Len(lines) \in Nat,
           \A x \in R : \A k \in 1 .. Len(lines) : Put(x, lines[k], c) \in R
    PROVE  \E f \in [0 .. Len(lines) -> R] : PutsAll(f, pages, lines, c)
<1> DEFINE n == Len(lines)
           step == [k \in 1 .. n |-> [x \in R |-> Put(x, lines[k], c)]]
           body(f) == [k \in 0 .. n |-> IF k = 0 THEN pages ELSE Put(f[k - 1], lines[k], c)]
           after == CHOOSE f : f = body(f)
<1>1. step \in [1 .. n -> [R -> R]]
  OBVIOUS
<1>2. \A k \in 1 .. n, x \in R : step[k][x] = Put(x, lines[k], c)
  OBVIOUS
<1>3. PutAll(pages, lines, c) = after[n]
  BY DEF PutAll
<1> HIDE DEF step
<1>4. PICK f \in [0 .. n -> R] : Computes(f, n, pages, step)
  BY <1>1, Computed
<1>5. f[0] = pages /\ \A k \in 1 .. n : f[k] = Put(f[k - 1], lines[k], c)
  <2>1. ASSUME NEW k \in 1 .. n PROVE f[k] = Put(f[k - 1], lines[k], c)
    <3>1. f[k - 1] \in R
      BY <1>4
    <3>2. QED
      BY <1>2, <1>4, <3>1 DEF Computes
  <2>2. QED
    BY <1>4, <2>1 DEF Computes
<1>6. f = body(f)
  BY <1>4, <1>5
<1>7. after = body(after)
  <2> HIDE DEF body
  <2>1. QED
    BY <1>6
<1>8. after[0] = pages /\ \A k \in 1 .. n : after[k] = Put(after[k - 1], lines[k], c)
  <2> HIDE DEF after
  <2>1. QED
    BY <1>7
<1> HIDE DEF after
<1>9. Agree(f, after, n)
  <2>1. Alike(f, after, n)
    BY <1>5, <1>8 DEF Alike
  <2>2. QED
    BY <2>1, AlikeAgree
<1>10. QED
  BY <1>3, <1>5, <1>9 DEF Agree, PutsAll

LEMMA PutRowsBy ==
    ASSUME NEW c, NEW group, NEW R, NEW pages \in R, NEW ranks, Len(ranks) \in Nat,
           \A x \in R : \A k \in 1 .. Len(ranks) : PutRow(x, group, ranks[k], c) \in R
    PROVE  \E f \in [0 .. Len(ranks) -> R] : PutsRows(f, pages, group, ranks, c)
<1> DEFINE n == Len(ranks)
           step == [k \in 1 .. n |-> [x \in R |-> PutRow(x, group, ranks[k], c)]]
           body(f) == [k \in 0 .. n |-> IF k = 0 THEN pages ELSE PutRow(f[k - 1], group, ranks[k], c)]
           after == CHOOSE f : f = body(f)
<1>1. step \in [1 .. n -> [R -> R]]
  OBVIOUS
<1>2. \A k \in 1 .. n, x \in R : step[k][x] = PutRow(x, group, ranks[k], c)
  OBVIOUS
<1>3. PutRows(pages, group, ranks, c) = after[n]
  BY DEF PutRows
<1> HIDE DEF step
<1>4. PICK f \in [0 .. n -> R] : Computes(f, n, pages, step)
  BY <1>1, Computed
<1>5. f[0] = pages /\ \A k \in 1 .. n : f[k] = PutRow(f[k - 1], group, ranks[k], c)
  <2>1. ASSUME NEW k \in 1 .. n PROVE f[k] = PutRow(f[k - 1], group, ranks[k], c)
    <3>1. f[k - 1] \in R
      BY <1>4
    <3>2. QED
      BY <1>2, <1>4, <3>1 DEF Computes
  <2>2. QED
    BY <1>4, <2>1 DEF Computes
<1>6. f = body(f)
  BY <1>4, <1>5
<1>7. after = body(after)
  <2> HIDE DEF body
  <2>1. QED
    BY <1>6
<1>8. after[0] = pages /\ \A k \in 1 .. n : after[k] = PutRow(after[k - 1], group, ranks[k], c)
  <2> HIDE DEF after
  <2>1. QED
    BY <1>7
<1> HIDE DEF after
<1>9. Agree(f, after, n)
  <2>1. Alike(f, after, n)
    BY <1>5, <1>8 DEF Alike
  <2>2. QED
    BY <2>1, AlikeAgree
<1>10. QED
  BY <1>3, <1>5, <1>9 DEF Agree, PutsRows

RowAfter(rows, line) == IF line.kind = "row" THEN Append(rows, line) ELSE rows

LEMMA RowsBy ==
    ASSUME NEW R, <<>> \in R, NEW lines, Len(lines) \in Nat,
           \A x \in R : \A k \in 1 .. Len(lines) : RowAfter(x, lines[k]) \in R
    PROVE  \E f \in [0 .. Len(lines) -> R] :
              /\ f[0] = <<>>
              /\ \A k \in 1 .. Len(lines) : f[k] = RowAfter(f[k - 1], lines[k])
              /\ Rows(lines) = f[Len(lines)]
<1> DEFINE n == Len(lines)
           step == [k \in 1 .. n |-> [x \in R |-> RowAfter(x, lines[k])]]
           body(f) == [k \in 0 .. n |-> IF k = 0 THEN <<>> ELSE RowAfter(f[k - 1], lines[k])]
           after == CHOOSE f : f = body(f)
<1>1. step \in [1 .. n -> [R -> R]]
  OBVIOUS
<1>2. \A k \in 1 .. n, x \in R : step[k][x] = RowAfter(x, lines[k])
  OBVIOUS
<1>3. Rows(lines) = after[n]
  BY DEF Rows, RowAfter
<1> HIDE DEF step
<1>4. PICK f \in [0 .. n -> R] : Computes(f, n, <<>>, step)
  BY <1>1, Computed
<1>5. f[0] = <<>> /\ \A k \in 1 .. n : f[k] = RowAfter(f[k - 1], lines[k])
  <2>1. ASSUME NEW k \in 1 .. n PROVE f[k] = RowAfter(f[k - 1], lines[k])
    <3>1. f[k - 1] \in R
      BY <1>4
    <3>2. QED
      BY <1>2, <1>4, <3>1 DEF Computes
  <2>2. QED
    BY <1>4, <2>1 DEF Computes
<1>6. f = body(f)
  BY <1>4, <1>5
<1>7. after = body(after)
  <2> HIDE DEF body
  <2>1. QED
    BY <1>6
<1>8. after[0] = <<>> /\ \A k \in 1 .. n : after[k] = RowAfter(after[k - 1], lines[k])
  <2> HIDE DEF after
  <2>1. QED
    BY <1>7
<1> HIDE DEF after
<1>9. Agree(f, after, n)
  <2>1. Alike(f, after, n)
    BY <1>5, <1>8 DEF Alike
  <2>2. QED
    BY <2>1, AlikeAgree
<1>10. QED
  BY <1>3, <1>5, <1>9 DEF Agree

WithRows(rows, sheet) == rows \o Rows(sheet)

LEMMA RowsOnBy ==
    ASSUME NEW R, <<>> \in R, NEW pages, Len(pages) \in Nat,
           \A x \in R : \A k \in 1 .. Len(pages) : WithRows(x, pages[k]) \in R
    PROVE  \E f \in [0 .. Len(pages) -> R] :
              /\ f[0] = <<>>
              /\ \A k \in 1 .. Len(pages) : f[k] = WithRows(f[k - 1], pages[k])
              /\ RowsOn(pages) = f[Len(pages)]
<1> DEFINE n == Len(pages)
           step == [k \in 1 .. n |-> [x \in R |-> WithRows(x, pages[k])]]
           body(f) == [k \in 0 .. n |-> IF k = 0 THEN <<>> ELSE WithRows(f[k - 1], pages[k])]
           after == CHOOSE f : f = body(f)
<1>1. step \in [1 .. n -> [R -> R]]
  OBVIOUS
<1>2. \A k \in 1 .. n, x \in R : step[k][x] = WithRows(x, pages[k])
  OBVIOUS
<1>3. RowsOn(pages) = after[n]
  BY DEF RowsOn, WithRows
<1> HIDE DEF step
<1>4. PICK f \in [0 .. n -> R] : Computes(f, n, <<>>, step)
  BY <1>1, Computed
<1>5. f[0] = <<>> /\ \A k \in 1 .. n : f[k] = WithRows(f[k - 1], pages[k])
  <2>1. ASSUME NEW k \in 1 .. n PROVE f[k] = WithRows(f[k - 1], pages[k])
    <3>1. f[k - 1] \in R
      BY <1>4
    <3>2. QED
      BY <1>2, <1>4, <3>1 DEF Computes
  <2>2. QED
    BY <1>4, <2>1 DEF Computes
<1>6. f = body(f)
  BY <1>4, <1>5
<1>7. after = body(after)
  <2> HIDE DEF body
  <2>1. QED
    BY <1>6
<1>8. after[0] = <<>> /\ \A k \in 1 .. n : after[k] = WithRows(after[k - 1], pages[k])
  <2> HIDE DEF after
  <2>1. QED
    BY <1>7
<1> HIDE DEF after
<1>9. Agree(f, after, n)
  <2>1. Alike(f, after, n)
    BY <1>5, <1>8 DEF Alike
  <2>2. QED
    BY <2>1, AlikeAgree
<1>10. QED
  BY <1>3, <1>5, <1>9 DEF Agree

\* f[k] is the width of the first k cells.
Widens(f, cells) ==
    /\ f[0] = 0
    /\ \A k \in 1 .. Len(cells) : f[k] = f[k - 1] + cells[k]
    /\ Width(cells) = f[Len(cells)]

LEMMA WidthBy ==
    ASSUME NEW R, 0 \in R, NEW cells, Len(cells) \in Nat,
           \A x \in R : \A k \in 1 .. Len(cells) : x + cells[k] \in R
    PROVE  \E f \in [0 .. Len(cells) -> R] : Widens(f, cells)
<1> DEFINE n == Len(cells)
           step == [k \in 1 .. n |-> [x \in R |-> x + cells[k]]]
           body(f) == [k \in 0 .. n |-> IF k = 0 THEN 0 ELSE f[k - 1] + cells[k]]
           after == CHOOSE f : f = body(f)
<1>1. step \in [1 .. n -> [R -> R]]
  OBVIOUS
<1>2. \A k \in 1 .. n, x \in R : step[k][x] = x + cells[k]
  OBVIOUS
<1>3. Width(cells) = after[n]
  BY DEF Width
<1> HIDE DEF step
<1>4. PICK f \in [0 .. n -> R] : Computes(f, n, 0, step)
  BY <1>1, Computed
<1>5. f[0] = 0 /\ \A k \in 1 .. n : f[k] = f[k - 1] + cells[k]
  <2>1. ASSUME NEW k \in 1 .. n PROVE f[k] = f[k - 1] + cells[k]
    <3>1. f[k - 1] \in R
      BY <1>4
    <3>2. QED
      BY <1>2, <1>4, <3>1 DEF Computes
  <2>2. QED
    BY <1>4, <2>1 DEF Computes
<1>6. f = body(f)
  BY <1>4, <1>5
<1>7. after = body(after)
  <2> HIDE DEF body
  <2>1. QED
    BY <1>6
<1>8. after[0] = 0 /\ \A k \in 1 .. n : after[k] = after[k - 1] + cells[k]
  <2> HIDE DEF after
  <2>1. QED
    BY <1>7
<1> HIDE DEF after
<1>9. Agree(f, after, n)
  <2>1. Alike(f, after, n)
    BY <1>5, <1>8 DEF Alike
  <2>2. QED
    BY <2>1, AlikeAgree
<1>10. QED
  BY <1>3, <1>5, <1>9 DEF Agree, Widens

LEMMA RowsOfPage ==
    ASSUME NEW lines \in AnyPage
    PROVE  \E f \in [0 .. Len(lines) -> AnyPage] :
              /\ f[0] = <<>>
              /\ \A k \in 1 .. Len(lines) : f[k] = RowAfter(f[k - 1], lines[k])
              /\ Rows(lines) = f[Len(lines)]
<1>1. <<>> \in AnyPage /\ Len(lines) \in Nat
  BY DEF AnyPage
<1>2. \A x \in AnyPage : \A k \in 1 .. Len(lines) : RowAfter(x, lines[k]) \in AnyPage
  BY DEF AnyPage, RowAfter
<1>3. QED
  BY <1>1, <1>2, RowsBy

LEMMA RowsGrow ==
    /\ Rows(<<>>) = <<>>
    /\ \A lines \in AnyPage :
           /\ Rows(lines) \in AnyPage
           /\ \A line \in AnyLine : Rows(Append(lines, line)) = RowAfter(Rows(lines), line)
<1>1. Rows(<<>>) = <<>>
  <2>1. <<>> \in AnyPage /\ Len(<<>>) = 0
    BY DEF AnyPage
  <2>2. QED
    BY <2>1, RowsOfPage
<1>2. ASSUME NEW lines \in AnyPage, NEW line \in AnyLine
      PROVE  Rows(Append(lines, line)) = RowAfter(Rows(lines), line)
  <2> DEFINE n == Len(lines)
             more == Append(lines, line)
  <2>1. /\ n \in Nat /\ more \in AnyPage /\ Len(more) = n + 1 /\ more[n + 1] = line
        /\ \A k \in 1 .. n : more[k] = lines[k]
    BY DEF AnyPage
  <2>2. PICK f \in [0 .. n -> AnyPage] :
            /\ f[0] = <<>> /\ \A k \in 1 .. n : f[k] = RowAfter(f[k - 1], lines[k])
            /\ Rows(lines) = f[n]
    BY RowsOfPage
  <2> HIDE DEF n, more
  <2>3. PICK g \in [0 .. Len(more) -> AnyPage] :
            /\ g[0] = <<>> /\ \A k \in 1 .. Len(more) : g[k] = RowAfter(g[k - 1], more[k])
            /\ Rows(more) = g[Len(more)]
    BY <2>1, RowsOfPage
  <2>4. Agree(f, g, n)
    <3>1. Alike(f, g, n)
      BY <2>1, <2>2, <2>3 DEF Alike
    <3>2. QED
      BY <2>1, <3>1, AlikeAgree
  <2>5. g[n] = f[n] /\ g[n + 1] = RowAfter(g[(n + 1) - 1], line)
    BY <2>1, <2>3, <2>4 DEF Agree
  <2>6. (n + 1) - 1 = n
    BY <2>1
  <2>7. QED
    BY <2>1, <2>2, <2>3, <2>5, <2>6 DEF more
<1>3. ASSUME NEW lines \in AnyPage PROVE Rows(lines) \in AnyPage
  <2>1. Len(lines) \in 0 .. Len(lines)
    BY DEF AnyPage
  <2>2. QED
    BY <2>1, RowsOfPage
<1>4. QED
  BY <1>1, <1>2, <1>3

LEMMA RowsOfPages ==
    ASSUME NEW pages \in Seq(AnyPage)
    PROVE  \E f \in [0 .. Len(pages) -> AnyPage] :
              /\ f[0] = <<>>
              /\ \A k \in 1 .. Len(pages) : f[k] = WithRows(f[k - 1], pages[k])
              /\ RowsOn(pages) = f[Len(pages)]
<1>1. <<>> \in AnyPage /\ Len(pages) \in Nat
  BY DEF AnyPage
<1>2. ASSUME NEW x \in AnyPage, NEW k \in 1 .. Len(pages) PROVE WithRows(x, pages[k]) \in AnyPage
  <2>1. Rows(pages[k]) \in AnyPage
    BY RowsGrow
  <2>2. QED
    BY <2>1 DEF AnyPage, WithRows
<1>3. QED
  BY <1>1, <1>2, RowsOnBy

LEMMA RowsOnType ==
    ASSUME NEW pages \in Seq(AnyPage)
    PROVE  RowsOn(pages) \in AnyPage
<1>1. Len(pages) \in 0 .. Len(pages)
  OBVIOUS
<1>2. QED
  BY <1>1, RowsOfPages

\* Up to the last page, those with the same pages before have the same rows.
LEMMA RowsOnAlike ==
    ASSUME NEW n \in Nat, NEW p \in Seq(AnyPage), NEW q \in Seq(AnyPage),
           Len(p) \in {n, n + 1}, Len(q) = n + 1, \A k \in 1 .. n : p[k] = q[k]
    PROVE  \E before \in AnyPage :
              /\ RowsOn(p) = IF Len(p) = n THEN before ELSE WithRows(before, p[n + 1])
              /\ RowsOn(q) = WithRows(before, q[n + 1])
<1>1. PICK f \in [0 .. Len(p) -> AnyPage] :
          /\ f[0] = <<>> /\ \A k \in 1 .. Len(p) : f[k] = WithRows(f[k - 1], p[k])
          /\ RowsOn(p) = f[Len(p)]
  BY RowsOfPages
<1>2. PICK g \in [0 .. Len(q) -> AnyPage] :
          /\ g[0] = <<>> /\ \A k \in 1 .. Len(q) : g[k] = WithRows(g[k - 1], q[k])
          /\ RowsOn(q) = g[Len(q)]
  BY RowsOfPages
<1>3. Agree(f, g, n)
  <2>1. Alike(f, g, n)
    BY <1>1, <1>2 DEF Alike
  <2>2. QED
    BY <2>1, AlikeAgree
<1>4. f[n] = g[n] /\ g[n] \in AnyPage /\ (n + 1) - 1 = n
  BY <1>2, <1>3 DEF Agree
<1>5. RowsOn(q) = WithRows(g[n], q[n + 1])
  <2>1. n + 1 \in 1 .. Len(q)
    OBVIOUS
  <2>2. QED
    BY <1>2, <1>4, <2>1
<1>6. RowsOn(p) = IF Len(p) = n THEN g[n] ELSE WithRows(g[n], p[n + 1])
  <2>1. CASE Len(p) = n
    BY <1>1, <1>4, <2>1
  <2>2. CASE Len(p) = n + 1
    <3>1. n + 1 \in 1 .. Len(p) /\ Len(p) # n
      BY <2>2
    <3>2. QED
      BY <1>1, <1>4, <2>2, <3>1
  <2>3. QED
    BY <2>1, <2>2
<1>7. QED
  BY <1>4, <1>5, <1>6

\* What Put gives: a line more, on the last page or on a new one.
Opened(pages, line, new) ==
    /\ Len(new) = Len(pages) + 1 /\ new[Len(pages) + 1] = <<line>>
    /\ \A k \in 1 .. Len(pages) : new[k] = pages[k]
Extended(pages, line, new) ==
    /\ Len(new) = Len(pages) /\ new[Len(pages)] = Append(pages[Len(pages)], line)
    /\ \A k \in 1 .. Len(pages) - 1 : new[k] = pages[k]

LEMMA InBook ==
    ASSUME NEW pages \in Book
    PROVE  /\ pages \in Seq(AnyPage) /\ Len(pages) \in Nat \ {0}
           /\ LastOf(pages) = pages[Len(pages)] /\ LastOf(pages) \in AnyPage
BY DEF Book, LastOf

LEMMA PutGives ==
    ASSUME NEW pages \in Book, NEW line \in AnyLine, NEW c
    PROVE  /\ Put(pages, line, c) \in Book
           /\ IF Len(LastOf(pages)) >= c THEN Opened(pages, line, Put(pages, line, c))
              ELSE Extended(pages, line, Put(pages, line, c))
<1>1. CASE Len(LastOf(pages)) >= c
  <2>1. Put(pages, line, c) = Append(pages, <<line>>) /\ <<line>> \in AnyPage
    BY <1>1 DEF Put, AnyPage
  <2>2. QED
    BY <1>1, <2>1, InBook DEF Book, Opened
<1>2. CASE ~(Len(LastOf(pages)) >= c)
  <2> DEFINE last == Append(LastOf(pages), line)
  <2>1. Put(pages, line, c) = [pages EXCEPT ![Len(pages)] = last] /\ last \in AnyPage
    BY <1>2, InBook DEF Put, AnyPage
  <2>2. last = Append(pages[Len(pages)], line)
    BY DEF LastOf
  <2> HIDE DEF last
  <2>3. /\ [pages EXCEPT ![Len(pages)] = last] \in Seq(AnyPage)
        /\ Len([pages EXCEPT ![Len(pages)] = last]) = Len(pages)
        /\ [pages EXCEPT ![Len(pages)] = last][Len(pages)] = last
        /\ \A k \in 1 .. Len(pages) - 1 : [pages EXCEPT ![Len(pages)] = last][k] = pages[k]
    BY <2>1, InBook, ExceptSeq
  <2>4. QED
    BY <1>2, <2>1, <2>2, <2>3, InBook DEF Book, Extended
<1>3. QED
  BY <1>1, <1>2

LEMMA AppendJoined ==
    ASSUME NEW S, NEW x \in Seq(S), NEW y \in Seq(S), NEW e \in S
    PROVE  /\ x \o Append(y, e) = Append(x \o y, e)
           /\ x \o <<>> = x /\ <<>> \o x = x
           /\ Append(<<>>, e) = <<e>>
<1>1. /\ x \o Append(y, e) \in Seq(S) /\ Append(x \o y, e) \in Seq(S)
      /\ Len(x \o Append(y, e)) = Len(Append(x \o y, e))
      /\ \A i \in 1 .. Len(x \o Append(y, e)) : (x \o Append(y, e))[i] = Append(x \o y, e)[i]
  OBVIOUS
<1>2. x \o Append(y, e) = Append(x \o y, e)
  BY <1>1, SeqEqual
<1>3. QED
  BY <1>2, ConcatEmptySeq

\* A line more is a row more, or none.
LEMMA PutOneRow ==
    ASSUME NEW pages \in Book, NEW line \in AnyLine, NEW c
    PROVE  RowsOn(Put(pages, line, c)) = RowAfter(RowsOn(pages), line)
<1> DEFINE new == Put(pages, line, c)
<1>1. pages \in Seq(AnyPage) /\ new \in Seq(AnyPage) /\ RowsOn(pages) \in Seq(AnyLine)
  BY PutGives, InBook, RowsOnType DEF AnyPage
<1>2. CASE Len(LastOf(pages)) >= c
  <2>1. Opened(pages, line, new)
    BY <1>2, PutGives
  <2> HIDE DEF new
  <2>2. RowsOn(new) = WithRows(RowsOn(pages), <<line>>)
    <3>1. Len(pages) \in Nat
      BY <1>1
    <3>2. PICK before \in AnyPage :
              /\ RowsOn(pages) = IF Len(pages) = Len(pages) THEN before
                                 ELSE WithRows(before, pages[Len(pages) + 1])
              /\ RowsOn(new) = WithRows(before, new[Len(pages) + 1])
      BY <1>1, <2>1, <3>1, RowsOnAlike DEF Opened
    <3>3. QED
      BY <2>1, <3>2 DEF Opened
  <2>3. Rows(<<line>>) = RowAfter(<<>>, line)
    <3>1. <<line>> = Append(<<>>, line) /\ <<>> \in AnyPage
      BY DEF AnyPage
    <3>2. QED
      BY <3>1, RowsGrow
  <2>4. RowsOn(new) = RowsOn(pages) \o RowAfter(<<>>, line)
    BY <2>2, <2>3 DEF WithRows
  <2>5. CASE line.kind = "row"
    <3>1. RowsOn(new) = RowsOn(pages) \o Append(<<>>, line)
      BY <2>4, <2>5 DEF RowAfter
    <3>2. <<>> \in Seq(AnyLine)
      OBVIOUS
    <3>3. QED
      BY <1>1, <2>5, <3>1, <3>2, AppendJoined DEF RowAfter, new
  <2>6. CASE line.kind # "row"
    BY <1>1, <2>4, <2>6, AppendJoined DEF RowAfter, new
  <2>7. QED
    BY <2>5, <2>6
<1>3. CASE ~(Len(LastOf(pages)) >= c)
  <2> DEFINE n == Len(pages) - 1
  <2>1. /\ n \in Nat /\ Len(pages) = n + 1
        /\ LastOf(pages) = pages[n + 1] /\ LastOf(pages) \in AnyPage
    BY InBook
  <2>2. Extended(pages, line, new)
    BY <1>3, PutGives
  <2> HIDE DEF new
  <2>3. /\ Len(new) = n + 1 /\ new[n + 1] = Append(LastOf(pages), line)
        /\ \A k \in 1 .. n : pages[k] = new[k]
    BY <2>1, <2>2 DEF Extended
  <2> HIDE DEF n
  <2>4. PICK before \in AnyPage :
            /\ RowsOn(pages) = IF Len(pages) = n THEN before ELSE WithRows(before, pages[n + 1])
            /\ RowsOn(new) = WithRows(before, new[n + 1])
    BY <1>1, <2>1, <2>3, RowsOnAlike
  <2>5. RowsOn(pages) = before \o Rows(LastOf(pages))
    BY <2>1, <2>4 DEF WithRows
  <2>6. RowsOn(new) = before \o RowAfter(Rows(LastOf(pages)), line)
    BY <2>1, <2>3, <2>4, RowsGrow DEF WithRows
  <2>7. Rows(LastOf(pages)) \in Seq(AnyLine) /\ before \in Seq(AnyLine)
    BY <2>1, RowsGrow DEF AnyPage
  <2>8. before \o Append(Rows(LastOf(pages)), line) = Append(before \o Rows(LastOf(pages)), line)
    BY <2>7, AppendJoined
  <2>9. QED
    BY <2>5, <2>6, <2>8 DEF RowAfter, new
<1>4. QED
  BY <1>2, <1>3

-----------------------------------------------------------------------------
(* Sorting by rank.                                                        *)

\* The members of a finite set that go before each, in a total order.
Orders(before, D) ==
    /\ before \in [D -> SUBSET D]
    /\ \A x \in D : x \notin before[x]
    /\ \A x, y \in D : y \in before[x] => before[y] \subseteq before[x]
    /\ \A x, y \in D : x = y \/ x \in before[y] \/ y \in before[x]

\* Their number gives each member a place of its own, and every place is taken.
LEMMA Places ==
    ASSUME NEW D, IsFiniteSet(D), NEW before, Orders(before, D)
    PROVE  /\ Cardinality(D) \in Nat
           /\ \A x \in D : Cardinality(before[x]) \in 0 .. Cardinality(D) - 1
           /\ \A x, y \in D : Cardinality(before[x]) < Cardinality(before[y]) <=> x \in before[y]
           /\ \A k \in 1 .. Cardinality(D) : \E x \in D : Cardinality(before[x]) = k - 1
<1> DEFINE c == Cardinality(D)
           rank == [x \in D |-> Cardinality(before[x])]
<1>1. c \in Nat
  BY FS_CardinalityType
<1>2. ASSUME NEW x \in D
      PROVE  IsFiniteSet(before[x]) /\ rank[x] \in 0 .. c - 1
  <2>1. before[x] \in SUBSET D /\ before[x] # D
    BY DEF Orders
  <2>2. /\ IsFiniteSet(before[x]) /\ Cardinality(before[x]) <= c
        /\ c = Cardinality(before[x]) => D = before[x]
    BY <2>1, FS_Subset
  <2>3. Cardinality(before[x]) \in Nat
    BY <2>2, FS_CardinalityType
  <2>4. QED
    BY <1>1, <2>1, <2>2, <2>3
<1>3. ASSUME NEW x \in D, NEW y \in D, x \in before[y]
      PROVE  rank[x] < rank[y]
  <2>1. before[x] \in SUBSET before[y] /\ before[x] # before[y]
    BY <1>3 DEF Orders
  <2>2. /\ Cardinality(before[x]) <= Cardinality(before[y])
        /\ Cardinality(before[y]) = Cardinality(before[x]) => before[y] = before[x]
    BY <1>2, <2>1, FS_Subset
  <2>3. Cardinality(before[x]) \in Int /\ Cardinality(before[y]) \in Int
    BY <1>2
  <2>4. QED
    BY <2>1, <2>2, <2>3
<1>4. \A x, y \in D : rank[x] < rank[y] <=> x \in before[y]
  <2>1. SUFFICES ASSUME NEW x \in D, NEW y \in D, rank[x] < rank[y] PROVE x \in before[y]
    BY <1>3
  <2>2. rank[x] \in Int /\ rank[y] \in Int
    BY <1>2
  <2>3. x # y /\ y \notin before[x]
    BY <1>3, <2>1, <2>2
  <2>4. QED
    BY <2>3 DEF Orders
<1>5. rank \in Injection(D, 0 .. c - 1)
  <2>1. rank \in [D -> 0 .. c - 1]
    BY <1>2
  <2>2. ASSUME NEW x \in D, NEW y \in D, rank[x] = rank[y] PROVE x = y
    <3>1. rank[x] \in Int /\ rank[y] \in Int
      BY <1>2
    <3>2. x \notin before[y] /\ y \notin before[x]
      BY <1>4, <2>2, <3>1
    <3>3. QED
      BY <3>2 DEF Orders
  <2>3. IsInjective(rank)
    BY <2>2 DEF IsInjective
  <2>4. QED
    BY <2>1, <2>3, Zenon DEF Injection
<1>6. IsFiniteSet(0 .. c - 1) /\ Cardinality(0 .. c - 1) = c
  BY <1>1, FS_Interval
<1>7. rank \in Surjection(D, 0 .. c - 1)
  BY <1>5, <1>6, FS_Injection
<1>8. \A k \in 1 .. c : \E x \in D : rank[x] = k - 1
  <2>1. \A k \in 0 .. c - 1 : \E x \in D : rank[x] = k
    BY <1>7 DEF Surjection
  <2>2. \A k \in 1 .. c : k - 1 \in 0 .. c - 1
    BY <1>1
  <2>3. QED
    BY <2>1, <2>2
<1>9. \A x \in D : rank[x] = Cardinality(before[x])
  OBVIOUS
<1> HIDE DEF rank
<1>10. QED
  BY <1>1, <1>2, <1>4, <1>8, <1>9

\* A sequence with each member at its place holds them all, in the order.
LEMMA RankedSorts ==
    ASSUME NEW D, IsFiniteSet(D), NEW before, Orders(before, D),
           NEW f \in [1 .. Cardinality(D) -> D],
           \A k \in 1 .. Cardinality(D) : Cardinality(before[f[k]]) = k - 1
    PROVE  /\ \A x \in D : \E k \in 1 .. Cardinality(D) : f[k] = x
           /\ \A i, j \in 1 .. Cardinality(D) : i < j <=> f[i] \in before[f[j]]
<1> DEFINE c == Cardinality(D)
           place(x) == Cardinality(before[x])
<1>1. /\ c \in Nat
      /\ \A x \in D : place(x) \in 0 .. c - 1
      /\ \A x, y \in D : place(x) < place(y) <=> x \in before[y]
  BY Places
<1>2. \A k \in 1 .. c : f[k] \in D /\ place(f[k]) = k - 1
  OBVIOUS
<1> HIDE DEF place
<1>3. ASSUME NEW x \in D PROVE \E k \in 1 .. c : f[k] = x
  <2> DEFINE k == place(x) + 1
  <2>1. k \in 1 .. c /\ k - 1 = place(x)
    BY <1>1
  <2> HIDE DEF k
  <2>2. f[k] \in D /\ place(f[k]) = place(x)
    BY <1>2, <2>1
  <2>3. x \notin before[f[k]] /\ f[k] \notin before[x]
    BY <1>1, <2>2
  <2>4. f[k] = x
    BY <2>2, <2>3 DEF Orders
  <2>5. QED
    BY <2>1, <2>4
<1>4. ASSUME NEW i \in 1 .. c, NEW j \in 1 .. c
      PROVE  i < j <=> f[i] \in before[f[j]]
  <2>1. place(f[i]) = i - 1 /\ place(f[j]) = j - 1 /\ f[i] \in D /\ f[j] \in D
    BY <1>2
  <2>2. i < j <=> place(f[i]) < place(f[j])
    BY <1>1, <2>1
  <2>3. QED
    BY <1>1, <2>1, <2>2
<1>5. QED
  BY <1>3, <1>4

\* The places of the ranks of a group that the tab shows.
RowsOfGroup(ranks, content, group) ==
    {i \in DOMAIN ranks : /\ ranks[i].signal = group
                          /\ content = "leveraged" => ranks[i].leveraged}

DistinctChanges(ranks) ==
    /\ ranks \in Seq(RotationRank)
    /\ \A i, j \in DOMAIN ranks : i # j => ranks[i].change # ranks[j].change

\* The rows of a group, for any ranks with changes that differ: those of its signal that
\* the tab shows, each of them once, the leaders first, and for the weak the laggards.
THEOREM RanksInOrder ==
    ASSUME NEW ranks, DistinctChanges(ranks), NEW content, NEW group
    PROVE  LET rows == RowsOfGroup(ranks, content, group)
               shown == ResponsiveRanks(ranks, content, group)
           IN /\ shown \in Seq(RotationRank) /\ Len(shown) = Cardinality(rows)
              /\ \A i \in rows : \E k \in DOMAIN shown : shown[k] = ranks[i]
              /\ \A k \in DOMAIN shown : \E i \in rows : shown[k] = ranks[i]
              /\ \A k, l \in DOMAIN shown : k < l <=> Precedes(shown[k], shown[l], group)
<1> DEFINE D == RowsOfGroup(ranks, content, group)
           ahead(i) == {j \in D : Precedes(ranks[j], ranks[i], group)}
           before == [i \in D |-> ahead(i)]
           c == Cardinality(D)
           place(i) == Cardinality(ahead(i))
           f == [k \in 1 .. c |-> CHOOSE i \in D : place(i) = k - 1]
           shown == ResponsiveRanks(ranks, content, group)
<1>1. D \subseteq 1 .. Len(ranks) /\ IsFiniteSet(D) /\ c \in Nat
  <2>1. D \subseteq 1 .. Len(ranks) /\ Len(ranks) \in Nat
    BY DEF DistinctChanges, RowsOfGroup
  <2>2. IsFiniteSet(1 .. Len(ranks))
    BY <2>1, FS_Interval
  <2>3. IsFiniteSet(D)
    BY <2>1, <2>2, FS_Subset
  <2>4. QED
    BY <2>1, <2>3, FS_CardinalityType
<1>2. shown = [k \in 1 .. c |-> ranks[f[k]]]
  <2>1. D = {i \in RotationGroup(ranks, group) : content = "leveraged" => ranks[i].leveraged}
    BY DEF RotationGroup, RowsOfGroup
  <2> HIDE DEF D
  <2>2. shown = [k \in 1 .. c |-> ranks[CHOOSE i \in D : place(i) = k - 1]]
    BY <2>1 DEF ResponsiveRanks
  <2>3. QED
    BY <2>2
<1>3. \A i \in D : i \in DOMAIN ranks /\ ranks[i] \in RotationRank /\ ranks[i].change \in Int
  <2>1. \A i \in D : i \in DOMAIN ranks /\ ranks[i] \in RotationRank
    BY DEF DistinctChanges, RowsOfGroup
  <2>2. \A r \in RotationRank : r.change \in Int
    BY DEF RotationRank
  <2>3. QED
    BY <2>1, <2>2, Zenon
<1>4. \A i, j \in D : i = j \/ ranks[i].change # ranks[j].change
  BY <1>3 DEF DistinctChanges
<1> HIDE DEF D
<1>5. Orders(before, D)
  <2>1. \A i, j \in D : Precedes(ranks[j], ranks[i], group) =>
            \A o \in D : Precedes(ranks[o], ranks[j], group) => Precedes(ranks[o], ranks[i], group)
    BY <1>3 DEF Precedes
  <2>2. \A i, j \in D : \/ i = j \/ Precedes(ranks[i], ranks[j], group)
                        \/ Precedes(ranks[j], ranks[i], group)
    BY <1>3, <1>4 DEF Precedes
  <2>3. \A i \in D : ~Precedes(ranks[i], ranks[i], group)
    BY <1>3 DEF Precedes
  <2>4. QED
    BY <2>1, <2>2, <2>3, Zenon DEF Orders
<1>6. \A i \in D : Cardinality(before[i]) = place(i)
  OBVIOUS
<1>7. \A k \in 1 .. c : \E i \in D : place(i) = k - 1
  <2>1. \A k \in 1 .. c : \E i \in D : Cardinality(before[i]) = k - 1
    BY <1>1, <1>5, Places
  <2>2. QED
    BY <1>6, <2>1
<1> HIDE DEF place
<1>8. \A k \in 1 .. c : f[k] \in D /\ place(f[k]) = k - 1
  BY <1>7
<1>9. f \in [1 .. c -> D]
  BY <1>8
<1>10. \A k \in 1 .. c : Cardinality(before[f[k]]) = k - 1
  BY <1>6, <1>8
<1> HIDE DEF f, before
<1>11. /\ \A x \in D : \E k \in 1 .. c : f[k] = x
       /\ \A i, j \in 1 .. c : i < j <=> f[i] \in before[f[j]]
  BY <1>1, <1>5, <1>9, <1>10, RankedSorts
<1> HIDE DEF c
<1>12. shown \in Seq(RotationRank) /\ DOMAIN shown = 1 .. c /\ Len(shown) = c
  <2>1. \A k \in 1 .. c : ranks[f[k]] \in RotationRank
    BY <1>3, <1>9
  <2>2. [k \in 1 .. c |-> ranks[f[k]]] \in Seq(RotationRank)
    BY <1>1, <2>1
  <2>3. QED
    BY <1>1, <1>2, <2>2
<1>13. \A k, l \in 1 .. c : k < l <=> Precedes(shown[k], shown[l], group)
  <2>1. \A k, l \in 1 .. c : f[k] \in before[f[l]] <=> Precedes(ranks[f[k]], ranks[f[l]], group)
    BY <1>9 DEF before
  <2>2. QED
    BY <1>2, <1>11, <2>1
<1>14. \A k \in 1 .. c : shown[k] = ranks[f[k]]
  BY <1>2
<1> HIDE DEF shown
<1>15. /\ \A i \in D : \E k \in DOMAIN shown : shown[k] = ranks[i]
       /\ \A k \in DOMAIN shown : \E i \in D : shown[k] = ranks[i]
  BY <1>9, <1>11, <1>12, <1>14
<1>16. QED
  BY <1>12, <1>13, <1>15 DEF D, c, shown

-----------------------------------------------------------------------------
(* Laying out a tab.                                                       *)

\* The last lines of a page are of the group, from its heading and the names of its
\* columns on.
UnderGroup(sheet, group) ==
    \E t \in 1 .. Len(sheet) - 1 :
        /\ sheet[t].kind \in {"title", "continued"} /\ sheet[t + 1].kind = "header"
        /\ \A j \in t .. Len(sheet) : sheet[j].group = group

Fine(sheet, c) == Len(sheet) <= c /\ (c > 2 => Headed(sheet))

Laid(pages, c) ==
    /\ pages \in Book
    /\ \A p \in 1 .. Len(pages) : Fine(pages[p], c)
    /\ \A p \in 1 .. Len(pages) - 1 : pages[p] # <<>>

LEMMA HeadedGrows ==
    ASSUME NEW sheet \in AnyPage, NEW line \in AnyLine, Headed(sheet),
           line.kind = "row" => UnderGroup(sheet, line.group)
    PROVE  Headed(Append(sheet, line))
<1> DEFINE new == Append(sheet, line)
           n == Len(sheet)
           shows(s, i) == \E t \in 1 .. i - 2 :
                              /\ s[t].kind \in {"title", "continued"} /\ s[t + 1].kind = "header"
                              /\ \A j \in t .. i : s[j].group = s[i].group
<1>1. /\ n \in Nat /\ DOMAIN sheet = 1 .. n /\ DOMAIN new = 1 .. n + 1 /\ new[n + 1] = line
      /\ \A k \in 1 .. n : new[k] = sheet[k]
  BY DEF AnyPage
<1> HIDE DEF new, n
<1>2. SUFFICES ASSUME NEW i \in 1 .. n + 1, new[i].kind = "row" PROVE shows(new, i)
  <2>1. \A i \in 1 .. n + 1 : new[i].kind = "row" => shows(new, i)
    BY <1>2
  <2> HIDE DEF shows
  <2>2. QED
    BY <1>1, <2>1 DEF Headed, shows, new
<1>3. CASE i \in 1 .. n
  <2>1. shows(sheet, i)
    BY <1>1, <1>2, <1>3 DEF Headed
  <2>2. PICK t \in 1 .. i - 2 :
            /\ sheet[t].kind \in {"title", "continued"} /\ sheet[t + 1].kind = "header"
            /\ \A j \in t .. i : sheet[j].group = sheet[i].group
    BY <2>1
  <2>3. t \in 1 .. n /\ t + 1 \in 1 .. n /\ \A j \in t .. i : j \in 1 .. n
    BY <1>1, <1>3
  <2>4. QED
    BY <1>1, <1>3, <2>2, <2>3
<1>4. CASE i = n + 1
  <2>1. UnderGroup(sheet, line.group)
    BY <1>1, <1>2, <1>4
  <2>2. PICK t \in 1 .. n - 1 :
            /\ sheet[t].kind \in {"title", "continued"} /\ sheet[t + 1].kind = "header"
            /\ \A j \in t .. n : sheet[j].group = line.group
    BY <2>1 DEF UnderGroup, n
  <2>3. t \in 1 .. i - 2 /\ t \in 1 .. n /\ t + 1 \in 1 .. n
    BY <1>1, <1>4
  <2>4. \A j \in t .. i : new[j].group = new[i].group
    <3>1. TAKE j \in t .. i
    <3>2. CASE j = n + 1
      BY <1>4, <3>2
    <3>3. CASE j # n + 1
      <4>1. j \in t .. n /\ j \in 1 .. n
        BY <1>1, <1>4, <2>3, <3>3
      <4>2. QED
        BY <1>1, <1>4, <2>2, <4>1
    <3>4. QED
      BY <3>2, <3>3
  <2>5. QED
    BY <1>1, <2>2, <2>3, <2>4
<1>5. QED
  BY <1>1, <1>3, <1>4

LEMMA UnderGrows ==
    ASSUME NEW sheet \in AnyPage, NEW line \in AnyLine, UnderGroup(sheet, line.group)
    PROVE  UnderGroup(Append(sheet, line), line.group)
<1> DEFINE new == Append(sheet, line)
           n == Len(sheet)
<1>1. /\ n \in Nat /\ Len(new) = n + 1 /\ new[n + 1] = line
      /\ \A k \in 1 .. n : new[k] = sheet[k]
  BY DEF AnyPage
<1>2. PICK t \in 1 .. n - 1 :
          /\ sheet[t].kind \in {"title", "continued"} /\ sheet[t + 1].kind = "header"
          /\ \A j \in t .. n : sheet[j].group = line.group
  BY DEF UnderGroup
<1> HIDE DEF new, n
<1>3. t \in 1 .. (n + 1) - 1 /\ t \in 1 .. n /\ t + 1 \in 1 .. n
  BY <1>1
<1>4. \A j \in t .. n + 1 : new[j].group = line.group
  <2>1. TAKE j \in t .. n + 1
  <2>2. CASE j = n + 1
    BY <1>1, <2>2
  <2>3. CASE j # n + 1
    <3>1. j \in t .. n /\ j \in 1 .. n
      BY <1>1, <1>3, <2>3
    <3>2. QED
      BY <1>1, <1>2, <3>1
  <2>4. QED
    BY <2>2, <2>3
<1>5. QED
  BY <1>1, <1>2, <1>3, <1>4 DEF UnderGroup, new


IsLine(line, kind, group) == line \in AnyLine /\ line.kind = kind /\ line.group = group

LEMMA LinesAreLines ==
    ASSUME NEW kind \in LineKind, NEW group \in GroupName, NEW symbol \in Symbol
    PROVE  IsLine(Line(kind, group, symbol), kind, group)
BY DEF Line, AnyLine, IsLine

LEMMA Words ==
    /\ "title" \in LineKind /\ "continued" \in LineKind /\ "header" \in LineKind
    /\ "none" \in LineKind /\ "blank" \in LineKind /\ "row" \in LineKind
    /\ "" \in Symbol /\ \A name \in STRING : name \in Symbol
BY DEF LineKind, Symbol

\* Headings bring a page under their group.
LEMMA UnderHeadings ==
    ASSUME NEW sheet \in AnyPage, NEW lines \in AnyPage, NEW group, NEW m \in Nat,
           Len(lines) = m + 2,
           lines[m + 1].kind \in {"title", "continued"}, lines[m + 2].kind = "header",
           lines[m + 1].group = group, lines[m + 2].group = group
    PROVE  UnderGroup(sheet \o lines, group)
<1> DEFINE new == sheet \o lines
           n == Len(sheet)
           t == n + m + 1
<1>1. /\ n \in Nat /\ Len(new) = n + m + 2
      /\ new[t] = lines[m + 1] /\ new[t + 1] = lines[m + 2]
  BY DEF AnyPage
<1>2. t \in 1 .. Len(new) - 1 /\ \A j \in t .. Len(new) : j = t \/ j = t + 1
  BY <1>1
<1> HIDE DEF new, n, t
<1>3. \A j \in t .. Len(new) : new[j].group = group
  BY <1>1, <1>2
<1>4. UnderGroup(new, group)
  BY <1>1, <1>2, <1>3 DEF UnderGroup
<1>5. QED
  BY <1>4 DEF new

\* Lines that are not rows leave the rows where they are.
NoRow(lines) == \A k \in DOMAIN lines : lines[k].kind # "row"

LEMMA HeadedBefore ==
    ASSUME NEW sheet \in AnyPage, NEW lines \in AnyPage, Headed(sheet), NoRow(lines)
    PROVE  Headed(sheet \o lines)
<1> DEFINE new == sheet \o lines
           n == Len(sheet)
           shows(s, i) == \E t \in 1 .. i - 2 :
                              /\ s[t].kind \in {"title", "continued"} /\ s[t + 1].kind = "header"
                              /\ \A j \in t .. i : s[j].group = s[i].group
<1>1. /\ n \in Nat /\ Len(lines) \in Nat
      /\ DOMAIN sheet = 1 .. n /\ DOMAIN new = 1 .. n + Len(lines)
      /\ DOMAIN lines = 1 .. Len(lines)
      /\ \A k \in 1 .. n : new[k] = sheet[k]
      /\ \A k \in n + 1 .. n + Len(lines) : new[k] = lines[k - n]
  BY DEF AnyPage
<1> HIDE DEF new, n
<1>2. ASSUME NEW i \in DOMAIN new, new[i].kind = "row" PROVE shows(new, i)
  <2>1. i \in 1 .. n
    <3>1. SUFFICES ASSUME i \notin 1 .. n PROVE FALSE
      OBVIOUS
    <3>2. i \in n + 1 .. n + Len(lines) /\ i - n \in DOMAIN lines
      BY <1>1, <3>1
    <3>3. QED
      BY <1>1, <1>2, <3>2 DEF NoRow
  <2>2. shows(sheet, i)
    BY <1>1, <1>2, <2>1 DEF Headed
  <2>3. PICK t \in 1 .. i - 2 :
            /\ sheet[t].kind \in {"title", "continued"} /\ sheet[t + 1].kind = "header"
            /\ \A j \in t .. i : sheet[j].group = sheet[i].group
    BY <2>2
  <2>4. t \in 1 .. n /\ t + 1 \in 1 .. n /\ \A j \in t .. i : j \in 1 .. n
    BY <1>1, <2>1
  <2>5. QED
    BY <1>1, <2>1, <2>3, <2>4
<1>3. \A i \in DOMAIN new : new[i].kind = "row" => shows(new, i)
  BY <1>2
<1> HIDE DEF shows
<1>4. QED
  BY <1>3 DEF Headed, shows, new

\* The pages with other lines on the last.
Lasts(pages, last, new) ==
    /\ new \in Book /\ Len(new) = Len(pages) /\ LastOf(new) = last
    /\ \A k \in 1 .. Len(pages) - 1 : new[k] = pages[k]

LEMMA PutAllInBook ==
    ASSUME NEW c, NEW pages \in Book, NEW lines \in AnyPage
    PROVE  \E f \in [0 .. Len(lines) -> Book] : PutsAll(f, pages, lines, c)
<1>1. Len(lines) \in Nat /\ \A k \in 1 .. Len(lines) : lines[k] \in AnyLine
  BY DEF AnyPage
<1>2. \A x \in Book : \A k \in 1 .. Len(lines) : Put(x, lines[k], c) \in Book
  BY <1>1, PutGives
<1>3. QED
  BY <1>1, <1>2, PutAllBy

LEMMA FrontGrows ==
    ASSUME NEW S, NEW s \in Seq(S), NEW k \in 1 .. Len(s)
    PROVE  /\ SubSeq(s, 1, k - 1) \in Seq(S) /\ Len(SubSeq(s, 1, k - 1)) = k - 1
           /\ SubSeq(s, 1, k) = Append(SubSeq(s, 1, k - 1), s[k])
<1> DEFINE g == SubSeq(s, 1, k - 1)
           h == SubSeq(s, 1, k)
<1>1. /\ g \in Seq(S) /\ Len(g) = k - 1 /\ \A i \in 1 .. k - 1 : g[i] = s[i]
      /\ h \in Seq(S) /\ Len(h) = k /\ \A i \in 1 .. k : h[i] = s[i]
  OBVIOUS
<1>2. s[k] \in S
  OBVIOUS
<1> HIDE DEF g, h
<1>3. /\ Append(g, s[k]) \in Seq(S) /\ Len(h) = Len(Append(g, s[k]))
      /\ \A i \in 1 .. Len(h) : h[i] = Append(g, s[k])[i]
  BY <1>1, <1>2
<1>4. h = Append(g, s[k])
  BY <1>1, <1>3, SeqEqual
<1>5. QED
  BY <1>1, <1>4 DEF g, h

\* Lines for which there is room are put on the last page.
LEMMA PutAllFits ==
    ASSUME NEW c \in Nat, NEW pages \in Book, NEW lines \in AnyPage, NoRow(lines),
           Len(LastOf(pages)) + Len(lines) <= c
    PROVE  /\ Lasts(pages, LastOf(pages) \o lines, PutAll(pages, lines, c))
           /\ RowsOn(PutAll(pages, lines, c)) = RowsOn(pages)
<1> DEFINE n == Len(lines)
           front(k) == SubSeq(lines, 1, k)
           last == LastOf(pages)
<1>1. /\ n \in Nat /\ last \in Seq(AnyLine) /\ Len(last) \in Nat
      /\ \A k \in 1 .. n : lines[k] \in AnyLine /\ lines[k].kind # "row"
  <2>1. last \in AnyPage
    BY InBook
  <2>2. last \in Seq(AnyLine) /\ Len(last) \in Nat
    BY <2>1 DEF AnyPage
  <2>3. lines \in Seq(AnyLine) /\ n \in Nat
    BY DEF AnyPage
  <2>4. ASSUME NEW k \in 1 .. n PROVE lines[k] \in AnyLine /\ lines[k].kind # "row"
    <3>1. lines[k] \in AnyLine
      BY <2>3
    <3>2. QED
      BY <2>3, <3>1 DEF NoRow
  <2>5. QED
    BY <2>2, <2>3, <2>4
<1>2. PICK f \in [0 .. n -> Book] :
          /\ f[0] = pages
          /\ \A k \in 1 .. n : f[k] = Put(f[k - 1], lines[k], c)
          /\ PutAll(pages, lines, c) = f[n]
  BY PutAllInBook DEF PutsAll
<1> DEFINE S == {k \in 0 .. n : /\ Lasts(pages, last \o front(k), f[k])
                                /\ RowsOn(f[k]) = RowsOn(pages)}
<1>3. 0 \in S
  <2>1. front(0) = <<>>
    BY DEF AnyPage
  <2>2. last \o front(0) = last
    BY <1>1, <2>1
  <2>3. Lasts(pages, last \o front(0), f[0])
    BY <1>2, <2>2 DEF Lasts
  <2>4. QED
    BY <1>1, <1>2, <2>3
<1>4. ASSUME NEW k \in 1 .. n, k - 1 \in S PROVE k \in S
  <2>1. /\ f[k - 1] \in Book /\ k - 1 \in 0 .. n
        /\ Lasts(pages, last \o front(k - 1), f[k - 1])
        /\ RowsOn(f[k - 1]) = RowsOn(pages)
    BY <1>2, <1>4
  <2>2. front(k - 1) \in Seq(AnyLine) /\ Len(front(k - 1)) = k - 1
        /\ front(k) = Append(front(k - 1), lines[k])
    BY FrontGrows DEF AnyPage
  <2> HIDE DEF front
  <2>3. LastOf(f[k - 1]) = last \o front(k - 1) /\ Len(f[k - 1]) = Len(pages)
        /\ \A i \in 1 .. Len(pages) - 1 : f[k - 1][i] = pages[i]
    BY <2>1 DEF Lasts
  <2> HIDE DEF last, n
  <2>4. ~(Len(LastOf(f[k - 1])) >= c)
    <3>1. Len(last \o front(k - 1)) = Len(last) + (k - 1)
      <4>1. last \in Seq(AnyLine) /\ front(k - 1) \in Seq(AnyLine) /\ Len(front(k - 1)) = k - 1
        BY <1>1, <2>2
      <4>2. Len(last \o front(k - 1)) = Len(last) + Len(front(k - 1))
        BY <4>1
      <4>3. QED
        BY <4>1, <4>2
    <3>2. Len(last) + n <= c /\ Len(last) \in Nat /\ n \in Nat /\ k <= n
      BY <1>1 DEF last, n
    <3>3. QED
      BY <2>3, <3>1, <3>2
  <2>5. f[k] \in Book /\ Extended(f[k - 1], lines[k], f[k])
    <3>1. f[k] = Put(f[k - 1], lines[k], c) /\ lines[k] \in AnyLine
      BY <1>1, <1>2
    <3>2. QED
      BY <2>1, <2>4, <3>1, PutGives
  <2>6. last \o front(k) = Append(last \o front(k - 1), lines[k])
    BY <1>1, <2>2, AppendJoined
  <2>7. Lasts(pages, last \o front(k), f[k])
    <3>1. LastOf(f[k]) = Append(LastOf(f[k - 1]), lines[k]) /\ Len(f[k]) = Len(pages)
      BY <2>3, <2>5 DEF Extended, LastOf
    <3>2. \A i \in 1 .. Len(pages) - 1 : f[k][i] = pages[i]
      BY <2>3, <2>5 DEF Extended
    <3>3. QED
      BY <2>3, <2>5, <2>6, <3>1, <3>2 DEF Lasts
  <2>8. RowsOn(f[k]) = RowsOn(pages)
    <3>1. f[k] = Put(f[k - 1], lines[k], c) /\ lines[k] \in AnyLine /\ lines[k].kind # "row"
      BY <1>1, <1>2
    <3>2. RowsOn(f[k]) = RowAfter(RowsOn(f[k - 1]), lines[k])
      BY <2>1, <3>1, PutOneRow
    <3>3. QED
      BY <2>1, <3>1, <3>2 DEF RowAfter
  <2>9. QED
    BY <2>7, <2>8 DEF n
<1> HIDE DEF S
<1>5. \A k \in 0 .. n : k \in S
  <2>1. \A k \in 1 .. n : k - 1 \in S => k \in S
    BY <1>4
  <2>2. QED
    BY <1>1, <1>3, <2>1, Inductively, Zenon
<1>6. n \in 0 .. n /\ front(n) = lines
  BY <1>1 DEF AnyPage
<1>7. QED
  BY <1>2, <1>5, <1>6 DEF S


\* An empty page more.
LEMMA AppendPage ==
    ASSUME NEW pages \in Book
    PROVE  LET new == Append(pages, <<>>)
           IN /\ new \in Book /\ Len(new) = Len(pages) + 1 /\ LastOf(new) = <<>>
              /\ \A k \in 1 .. Len(pages) : new[k] = pages[k]
              /\ RowsOn(new) = RowsOn(pages)
<1> DEFINE new == Append(pages, <<>>)
<1>1. pages \in Seq(AnyPage) /\ Len(pages) \in Nat \ {0} /\ <<>> \in AnyPage
  BY InBook DEF AnyPage
<1>2. /\ new \in Seq(AnyPage) /\ Len(new) = Len(pages) + 1 /\ new[Len(pages) + 1] = <<>>
      /\ \A k \in 1 .. Len(pages) : new[k] = pages[k]
  BY <1>1
<1> HIDE DEF new
<1>3. new \in Book /\ LastOf(new) = <<>>
  BY <1>1, <1>2 DEF Book, LastOf
<1>4. PICK before \in AnyPage :
          /\ RowsOn(pages) = IF Len(pages) = Len(pages) THEN before
                             ELSE WithRows(before, pages[Len(pages) + 1])
          /\ RowsOn(new) = WithRows(before, new[Len(pages) + 1])
  <2>1. Len(pages) \in Nat /\ Len(pages) \in {Len(pages), Len(pages) + 1}
    BY <1>1
  <2>2. QED
    BY <1>1, <1>2, <2>1, RowsOnAlike
<1>5. RowsOn(new) = before \o <<>>
  BY <1>2, <1>4, RowsGrow DEF WithRows
<1>6. RowsOn(new) = RowsOn(pages)
  BY <1>4, <1>5 DEF AnyPage
<1>7. QED
  BY <1>2, <1>3, <1>6 DEF new

LEMMA LaidOnLast ==
    ASSUME NEW c, NEW pages, Laid(pages, c), NEW last, NEW new, Lasts(pages, last, new),
           Fine(last, c)
    PROVE  Laid(new, c)
<1>1. new \in Book /\ Len(new) = Len(pages) /\ new[Len(pages)] = last /\ Len(pages) \in Nat
      /\ \A k \in 1 .. Len(pages) - 1 : new[k] = pages[k]
  BY InBook DEF Lasts, LastOf, Laid
<1>2. ASSUME NEW k \in 1 .. Len(new) PROVE Fine(new[k], c)
  <2>1. CASE k = Len(pages)
    BY <1>1, <2>1
  <2>2. CASE k \in 1 .. Len(pages) - 1
    <3>1. Fine(pages[k], c) /\ new[k] = pages[k]
      BY <1>1, <1>2, <2>2 DEF Laid
    <3>2. QED
      BY <3>1
  <2>3. QED
    BY <1>1, <2>1, <2>2
<1>3. \A k \in 1 .. Len(new) - 1 : new[k] # <<>>
  BY <1>1 DEF Laid
<1>4. QED
  BY <1>1, <1>2, <1>3 DEF Laid

LEMMA LaidAndOpened ==
    ASSUME NEW c \in Nat, NEW pages, Laid(pages, c), LastOf(pages) # <<>>
    PROVE  Laid(Append(pages, <<>>), c)
<1> DEFINE new == Append(pages, <<>>)
           n == Len(pages)
<1>1. pages \in Book /\ n \in Nat \ {0} /\ LastOf(pages) = pages[n]
  BY InBook DEF Laid
<1>2. /\ new \in Book /\ Len(new) = n + 1 /\ LastOf(new) = <<>> /\ new[n + 1] = <<>>
      /\ \A k \in 1 .. n : new[k] = pages[k]
  BY <1>1, AppendPage DEF LastOf
<1> HIDE DEF new
<1>3. Fine(<<>>, c)
  BY DEF Fine, Headed
<1>4. ASSUME NEW k \in 1 .. n + 1 PROVE Fine(new[k], c)
  <2>1. CASE k = n + 1
    BY <1>2, <1>3, <2>1
  <2>2. CASE k \in 1 .. n
    <3>1. Fine(pages[k], c) /\ new[k] = pages[k]
      BY <1>2, <2>2 DEF Laid
    <3>2. QED
      BY <3>1
  <2>3. QED
    BY <1>1, <2>1, <2>2
<1>5. ASSUME NEW k \in 1 .. n PROVE new[k] # <<>>
  <2>1. CASE k = n
    BY <1>1, <1>2, <2>1
  <2>2. CASE k \in 1 .. n - 1
    <3>1. pages[k] # <<>> /\ new[k] = pages[k]
      BY <1>2, <2>2 DEF Laid
    <3>2. QED
      BY <3>1
  <2>3. QED
    BY <1>1, <2>1, <2>2
<1>6. QED
  BY <1>1, <1>2, <1>4, <1>5 DEF Laid, new

\* A line for which there is room.
LEMMA PutLast ==
    ASSUME NEW c \in Nat, NEW pages, Laid(pages, c), NEW line \in AnyLine,
           Len(LastOf(pages)) < c,
           c > 2 /\ line.kind = "row" => UnderGroup(LastOf(pages), line.group)
    PROVE  LET new == Put(pages, line, c)
           IN Laid(new, c) /\ Lasts(pages, Append(LastOf(pages), line), new)
<1> DEFINE new == Put(pages, line, c)
           last == LastOf(pages)
<1>1. pages \in Book /\ last \in AnyPage /\ Len(last) \in Nat
  BY InBook DEF Laid, AnyPage
<1>2. new \in Book /\ Extended(pages, line, new)
  BY <1>1, PutGives
<1> HIDE DEF new
<1>3. Lasts(pages, Append(last, line), new)
  BY <1>2 DEF Extended, Lasts, LastOf
<1>4. Fine(last, c)
  BY <1>1, InBook DEF Laid
<1> HIDE DEF last
<1>5. Fine(Append(last, line), c)
  <2>1. Len(Append(last, line)) = Len(last) + 1
    BY <1>1 DEF AnyPage
  <2>2. c > 2 => Headed(Append(last, line))
    BY <1>1, <1>4, HeadedGrows DEF Fine, last
  <2>3. QED
    BY <1>1, <2>1, <2>2 DEF Fine, last
<1>6. QED
  BY <1>3, <1>5, LaidOnLast DEF last, new

\* Pages to which a row of the group can be added.
Ready(pages, c, group) ==
    /\ Laid(pages, c) /\ LastOf(pages) # <<>>
    /\ c > 2 => UnderGroup(LastOf(pages), group)

OneRowMore(pages, c, group, rank, new) ==
    /\ Ready(new, c, group)
    /\ RowsOn(new) = Append(RowsOn(pages), Line("row", group, rank.symbol))
    /\ Len(LastOf(pages)) < c => /\ Len(new) = Len(pages)
                                 /\ Len(LastOf(new)) = Len(LastOf(pages)) + 1

LEMMA PutRowGives ==
    ASSUME NEW c \in Nat, c >= 2, NEW group \in GroupName, NEW pages, Ready(pages, c, group),
           NEW rank, rank.symbol \in STRING
    PROVE  OneRowMore(pages, c, group, rank, PutRow(pages, group, rank, c))
<1> DEFINE full == Len(LastOf(pages)) >= c
           headings == IF c >= 3
                       THEN <<Line("continued", group, ""), Line("header", group, "")>>
                       ELSE <<>>
           turned == Append(pages, <<>>)
           opened == IF full THEN PutAll(turned, headings, c) ELSE pages
           line == Line("row", group, rank.symbol)
           new == PutRow(pages, group, rank, c)
<1>1. new = Put(opened, line, c)
  BY DEF PutRow
<1>2. Laid(pages, c) /\ pages \in Book /\ LastOf(pages) \in AnyPage /\ Len(LastOf(pages)) \in Nat
  BY InBook DEF Ready, Laid, AnyPage
<1>3. line \in AnyLine /\ line.kind = "row" /\ line.group = group
  <2>1. rank.symbol \in Symbol
    BY DEF Symbol
  <2>2. IsLine(line, "row", group)
    BY <2>1, LinesAreLines, Words
  <2>3. QED
    BY <2>2 DEF IsLine
<1>4. /\ headings \in AnyPage /\ NoRow(headings) /\ Len(headings) < c
      /\ c > 2 => UnderGroup(<<>> \o headings, group)
  <2>1. CASE c >= 3
    <3> DEFINE a == Line("continued", group, "")
               b == Line("header", group, "")
    <3>1. /\ a \in AnyLine /\ a.kind = "continued" /\ a.group = group
          /\ b \in AnyLine /\ b.kind = "header" /\ b.group = group
      <4>1. IsLine(a, "continued", group) /\ IsLine(b, "header", group)
        BY LinesAreLines, Words
      <4>2. QED
        BY <4>1 DEF IsLine
    <3>2. headings = <<a, b>>
      BY <2>1
    <3> HIDE DEF a, b, headings
    <3>3. /\ headings \in AnyPage /\ Len(headings) = 2
          /\ headings[1] = a /\ headings[2] = b
      BY <3>1, <3>2 DEF AnyPage
    <3>4. NoRow(headings)
      BY <3>1, <3>3 DEF NoRow, AnyPage
    <3>5. Len(headings) = 0 + 2 /\ headings[0 + 1] = a /\ headings[0 + 2] = b /\ <<>> \in AnyPage
      BY <3>3 DEF AnyPage
    <3>6. UnderGroup(<<>> \o headings, group)
      BY <3>1, <3>3, <3>5, UnderHeadings
    <3>7. QED
      BY <2>1, <3>3, <3>4, <3>6
  <2>2. CASE ~(c >= 3)
    <3>1. headings = <<>>
      BY <2>2
    <3> HIDE DEF headings
    <3>2. headings \in AnyPage /\ Len(headings) = 0 /\ NoRow(headings)
      BY <3>1 DEF AnyPage, NoRow
    <3>3. QED
      BY <2>2, <3>2
  <2>3. QED
    BY <2>1, <2>2
<1> HIDE DEF headings, line
<1>5. /\ Laid(opened, c) /\ Len(LastOf(opened)) < c
      /\ c > 2 => UnderGroup(LastOf(opened), group)
      /\ RowsOn(opened) = RowsOn(pages)
      /\ ~full => opened = pages
  <2>1. CASE ~full
    BY <1>2, <2>1 DEF Ready
  <2>2. CASE full
    <3>1. Laid(turned, c) /\ LastOf(turned) = <<>> /\ turned \in Book
          /\ RowsOn(turned) = RowsOn(pages)
      BY <1>2, AppendPage, LaidAndOpened DEF Ready
    <3> HIDE DEF turned
    <3>2. Len(LastOf(turned)) + Len(headings) <= c
      BY <1>4, <3>1 DEF AnyPage
    <3>3. /\ Lasts(turned, LastOf(turned) \o headings, PutAll(turned, headings, c))
          /\ RowsOn(PutAll(turned, headings, c)) = RowsOn(turned)
      BY <1>4, <3>1, <3>2, PutAllFits
    <3>4. <<>> \o headings = headings /\ Len(headings) \in Nat
      BY <1>4 DEF AnyPage
    <3>5. Fine(headings, c)
      BY <1>4, <3>4 DEF Fine, Headed, NoRow
    <3>6. Laid(PutAll(turned, headings, c), c) /\ LastOf(PutAll(turned, headings, c)) = headings
      BY <3>1, <3>3, <3>4, <3>5, LaidOnLast DEF Lasts
    <3>7. opened = PutAll(turned, headings, c)
      BY <2>2
    <3> HIDE DEF opened
    <3>8. QED
      BY <1>4, <2>2, <3>1, <3>3, <3>4, <3>6, <3>7
  <2>3. QED
    BY <2>1, <2>2
<1> HIDE DEF opened, new
<1>6. Laid(new, c) /\ Lasts(opened, Append(LastOf(opened), line), new)
  BY <1>1, <1>3, <1>5, PutLast
<1>7. opened \in Book /\ LastOf(opened) \in AnyPage
  BY <1>5, InBook DEF Laid
<1>8. RowsOn(new) = Append(RowsOn(pages), line)
  BY <1>1, <1>3, <1>5, <1>7, PutOneRow DEF RowAfter
<1>9. LastOf(new) = Append(LastOf(opened), line) /\ Len(new) = Len(opened)
  BY <1>6 DEF Lasts
<1>10. LastOf(new) # <<>> /\ Len(LastOf(new)) = Len(LastOf(opened)) + 1
  BY <1>3, <1>7, <1>9 DEF AnyPage
<1>11. c > 2 => UnderGroup(LastOf(new), group)
  BY <1>3, <1>5, <1>7, <1>9, UnderGrows
<1>12. Ready(new, c, group)
  BY <1>6, <1>10, <1>11 DEF Ready
<1>13. Len(LastOf(pages)) < c => opened = pages
  BY <1>2, <1>5
<1>14. QED
  BY <1>8, <1>9, <1>10, <1>12, <1>13 DEF new, line, OneRowMore


\* The rows of ranks.
GroupRows(group, ranks) == [i \in DOMAIN ranks |-> Line("row", group, ranks[i].symbol)]

LEMMA RowLines ==
    ASSUME NEW group \in GroupName, NEW ranks \in Seq(RotationRank)
    PROVE  /\ GroupRows(group, ranks) \in AnyPage /\ Len(GroupRows(group, ranks)) = Len(ranks)
           /\ \A i \in 1 .. Len(ranks) :
                  /\ ranks[i].symbol \in STRING
                  /\ GroupRows(group, ranks)[i] = Line("row", group, ranks[i].symbol)
<1> DEFINE n == Len(ranks)
           rows == GroupRows(group, ranks)
<1>1. n \in Nat /\ DOMAIN ranks = 1 .. n
  OBVIOUS
<1>2. \A i \in 1 .. n : ranks[i].symbol \in STRING
  <2>1. \A i \in 1 .. n : ranks[i] \in RotationRank
    OBVIOUS
  <2>2. \A rank \in RotationRank : rank.symbol \in STRING
    BY DEF RotationRank
  <2>3. QED
    BY <2>1, <2>2, Zenon
<1>3. \A i \in 1 .. n : Line("row", group, ranks[i].symbol) \in AnyLine
  <2>1. TAKE i \in 1 .. n
  <2>2. ranks[i].symbol \in Symbol
    BY <1>2 DEF Symbol
  <2>3. IsLine(Line("row", group, ranks[i].symbol), "row", group)
    BY <2>2, LinesAreLines, Words
  <2>4. QED
    BY <2>3 DEF IsLine
<1>4. rows = [i \in 1 .. n |-> Line("row", group, ranks[i].symbol)]
  BY <1>1 DEF GroupRows
<1>5. rows \in Seq(AnyLine) /\ Len(rows) = n
  BY <1>1, <1>3, <1>4
<1>6. \A i \in 1 .. n : rows[i] = Line("row", group, ranks[i].symbol)
  BY <1>4
<1>7. QED
  BY <1>2, <1>5, <1>6 DEF AnyPage

LEMMA PutRowsReady ==
    ASSUME NEW c \in Nat, c >= 2, NEW group \in GroupName, NEW pages, Ready(pages, c, group),
           NEW ranks \in Seq(RotationRank)
    PROVE  \E f \in [0 .. Len(ranks) -> {x \in Book : Ready(x, c, group)}] :
               PutsRows(f, pages, group, ranks, c)
<1> DEFINE R == {x \in Book : Ready(x, c, group)}
<1>1. pages \in R /\ Len(ranks) \in Nat
  BY DEF Ready, Laid
<1>2. \A x \in R : \A k \in 1 .. Len(ranks) : PutRow(x, group, ranks[k], c) \in R
  <2>1. TAKE x \in R
  <2>2. TAKE k \in 1 .. Len(ranks)
  <2>3. Ready(x, c, group) /\ ranks[k].symbol \in STRING
    BY RowLines
  <2>4. Ready(PutRow(x, group, ranks[k], c), c, group)
    BY <2>3, PutRowGives DEF OneRowMore
  <2>5. QED
    BY <2>4 DEF Ready, Laid
<1> HIDE DEF R
<1>3. \E f \in [0 .. Len(ranks) -> R] : PutsRows(f, pages, group, ranks, c)
  BY <1>1, <1>2, PutRowsBy
<1>4. QED
  BY <1>3 DEF R

LEMMA PutRowsGives ==
    ASSUME NEW c \in Nat, c >= 2, NEW group \in GroupName, NEW pages, Ready(pages, c, group),
           NEW ranks \in Seq(RotationRank)
    PROVE  LET new == PutRows(pages, group, ranks, c)
           IN /\ Ready(new, c, group)
              /\ RowsOn(new) = RowsOn(pages) \o GroupRows(group, ranks)
              /\ Len(LastOf(pages)) + Len(ranks) <= c =>
                     /\ Len(new) = Len(pages)
                     /\ Len(LastOf(new)) = Len(LastOf(pages)) + Len(ranks)
<1> DEFINE n == Len(ranks)
           rows == GroupRows(group, ranks)
           front(k) == SubSeq(rows, 1, k)
           base == RowsOn(pages)
           held == Len(LastOf(pages))
           fit(x, k) == held + n <= c => Len(x) = Len(pages) /\ Len(LastOf(x)) = held + k
<1>1. /\ n \in Nat /\ rows \in Seq(AnyLine) /\ Len(rows) = n
      /\ \A k \in 1 .. n : ranks[k].symbol \in STRING
                           /\ rows[k] = Line("row", group, ranks[k].symbol)
  BY RowLines DEF AnyPage
<1>2. pages \in Book /\ base \in Seq(AnyLine) /\ held \in Nat
  BY InBook, RowsOnType DEF Ready, Laid, AnyPage
<1>3. PICK f \in [0 .. n -> {x \in Book : Ready(x, c, group)}] :
          PutsRows(f, pages, group, ranks, c)
  BY PutRowsReady
<1>4. f[0] = pages /\ PutRows(pages, group, ranks, c) = f[n]
      /\ \A k \in 1 .. n : f[k] = PutRow(f[k - 1], group, ranks[k], c)
  BY <1>3 DEF PutsRows
<1> DEFINE good(k) == RowsOn(f[k]) = base \o front(k) /\ fit(f[k], k)
           S == {k \in 0 .. n : good(k)}
<1>5. 0 \in S
  <2>1. front(0) = <<>>
    BY <1>1
  <2>2. base \o front(0) = base
    BY <1>2, <2>1
  <2>3. good(0)
    BY <1>1, <1>2, <1>4, <2>2
  <2> HIDE DEF good
  <2>4. QED
    BY <1>1, <2>3
<1>6. ASSUME NEW k \in 1 .. n, k - 1 \in S PROVE k \in S
  <2>1. /\ k - 1 \in 0 .. n /\ Ready(f[k - 1], c, group) /\ f[k] = PutRow(f[k - 1], group, ranks[k], c)
        /\ RowsOn(f[k - 1]) = base \o front(k - 1) /\ fit(f[k - 1], k - 1)
    BY <1>1, <1>3, <1>4, <1>6
  <2> HIDE DEF n, rows
  <2>2. /\ front(k - 1) \in Seq(AnyLine) /\ front(k) = Append(front(k - 1), rows[k])
        /\ rows[k] \in AnyLine
    BY <1>1, FrontGrows
  <2> HIDE DEF front
  <2>3. /\ RowsOn(f[k]) = Append(RowsOn(f[k - 1]), rows[k])
        /\ Len(LastOf(f[k - 1])) < c => /\ Len(f[k]) = Len(f[k - 1])
                                        /\ Len(LastOf(f[k])) = Len(LastOf(f[k - 1])) + 1
    <3>1. ranks[k].symbol \in STRING /\ rows[k] = Line("row", group, ranks[k].symbol)
      BY <1>1
    <3>2. OneRowMore(f[k - 1], c, group, ranks[k], f[k])
      BY <2>1, <3>1, PutRowGives
    <3>3. QED
      BY <3>1, <3>2 DEF OneRowMore
  <2>4. base \o front(k) = Append(base \o front(k - 1), rows[k])
    BY <1>2, <2>2, AppendJoined
  <2>5. fit(f[k], k)
    <3>1. SUFFICES ASSUME held + n <= c
                   PROVE  Len(f[k]) = Len(pages) /\ Len(LastOf(f[k])) = held + k
      OBVIOUS
    <3>2. Len(f[k - 1]) = Len(pages) /\ Len(LastOf(f[k - 1])) = held + (k - 1)
      BY <2>1, <3>1
    <3> HIDE DEF held
    <3>3. held + (k - 1) < c /\ held + (k - 1) + 1 = held + k
      BY <1>1, <1>2, <3>1
    <3>4. QED
      BY <2>3, <3>2, <3>3
  <2> HIDE DEF fit, base
  <2>6. good(k) /\ k \in 0 .. n
    BY <1>1, <2>1, <2>3, <2>4, <2>5
  <2> HIDE DEF good
  <2>7. QED
    BY <2>6
<1> HIDE DEF S
<1>7. \A k \in 0 .. n : k \in S
  <2>1. \A k \in 1 .. n : k - 1 \in S => k \in S
    BY <1>6
  <2>2. QED
    BY <1>1, <1>5, <2>1, Inductively, Zenon
<1>8. n \in 0 .. n /\ front(n) = rows
  BY <1>1
<1>9. RowsOn(f[n]) = base \o rows /\ fit(f[n], n) /\ Ready(f[n], c, group)
  BY <1>3, <1>7, <1>8 DEF S
<1>10. QED
  BY <1>4, <1>9

LEMMA PutNoRows ==
    ASSUME NEW c, NEW group, NEW pages
    PROVE  PutRows(pages, group, <<>>, c) = pages
<1>1. PICK f \in [0 .. Len(<<>>) -> {pages}] : PutsRows(f, pages, group, <<>>, c)
  <2>1. Len(<<>>) \in Nat /\ \A k \in 1 .. Len(<<>>) : FALSE
    OBVIOUS
  <2>2. \A x \in {pages} : \A k \in 1 .. Len(<<>>) : PutRow(x, group, <<>>[k], c) \in {pages}
    BY <2>1
  <2>3. QED
    BY <2>1, <2>2, PutRowsBy
<1>2. QED
  BY <1>1 DEF PutsRows


\* The headings of a group.
LEMMA HeadingsOf ==
    ASSUME NEW c \in Nat, c >= 2, NEW group \in GroupName, NEW sheet \in AnyPage, NEW ranks
    PROVE  LET lines == GroupHeadings(sheet, group, ranks, c)
           IN /\ lines \in AnyPage /\ NoRow(lines)
              /\ Len(lines) \in 1 .. (IF sheet = <<>> THEN 2 ELSE 3)
              /\ c > 2 /\ ranks # <<>> => UnderGroup(sheet \o lines, group)
<1> DEFINE title == Line("title", group, "")
           none == Line("none", group, "")
           header == Line("header", group, "")
           blank == Line("blank", group, "")
           second == IF ranks = <<>> THEN none ELSE header
           short == c < 3 /\ ranks # <<>>
           own == IF short THEN <<title>> ELSE <<title, second>>
           lines == GroupHeadings(sheet, group, ranks, c)
<1>1. /\ IsLine(title, "title", group) /\ IsLine(none, "none", group)
      /\ IsLine(header, "header", group) /\ IsLine(blank, "blank", group)
  BY LinesAreLines, Words
<1>2. lines = IF sheet = <<>> THEN own ELSE <<blank>> \o own
  <2>1. CASE ranks = <<>>
    BY <2>1 DEF GroupHeadings
  <2>2. CASE ranks # <<>> /\ c >= 3
    <3>1. ~short /\ second = header
      BY <2>2
    <3>2. QED
      BY <2>2, <3>1 DEF GroupHeadings
  <2>3. CASE ranks # <<>> /\ ~(c >= 3)
    <3>1. short
      BY <2>3
    <3>2. QED
      BY <2>3, <3>1 DEF GroupHeadings
  <2>4. QED
    BY <2>1, <2>2, <2>3
<1> HIDE DEF title, none, header, blank, lines
<1>3. /\ second \in AnyLine /\ second.kind # "row" /\ second.group = group
      /\ title \in AnyLine /\ title.kind = "title" /\ title.group = group
      /\ blank \in AnyLine /\ blank.kind = "blank"
      /\ ranks # <<>> => second.kind = "header"
  BY <1>1 DEF IsLine
<1> HIDE DEF second
<1>4. /\ own \in Seq(AnyLine) /\ own[1] = title
      /\ short => Len(own) = 1
      /\ ~short => Len(own) = 2 /\ own[2] = second
  <2>1. CASE short
    <3>1. own = <<title>>
      BY <2>1
    <3> HIDE DEF own
    <3>2. QED
      BY <1>3, <2>1, <3>1
  <2>2. CASE ~short
    <3>1. own = <<title, second>>
      BY <2>2
    <3> HIDE DEF own
    <3>2. QED
      BY <1>3, <2>2, <3>1
  <2>3. QED
    BY <2>1, <2>2
<1> HIDE DEF own
<1>5. /\ own \in Seq(AnyLine) /\ DOMAIN own = 1 .. Len(own)
      /\ Len(own) = IF short THEN 1 ELSE 2
      /\ c > 2 /\ ranks # <<>> => ~short
  <2>1. c > 2 => ~short
    OBVIOUS
  <2> HIDE DEF short
  <2>2. Len(own) = IF short THEN 1 ELSE 2
    BY <1>4
  <2>3. DOMAIN own = 1 .. Len(own)
    BY <1>4
  <2>4. QED
    BY <1>4, <2>1, <2>2, <2>3
<1> HIDE DEF short
<1>6. NoRow(own)
  <2>1. \A k \in DOMAIN own : k = 1 \/ (k = 2 /\ ~short)
    BY <1>5
  <2>2. QED
    BY <1>3, <1>4, <2>1 DEF NoRow
<1>7. CASE sheet = <<>>
  <2>1. lines = own /\ sheet \o lines = own /\ own \in AnyPage
    BY <1>2, <1>4, <1>7 DEF AnyPage
  <2>2. ASSUME c > 2, ranks # <<>> PROVE UnderGroup(sheet \o lines, group)
    <3>1. Len(own) = 0 + 2 /\ own[0 + 1] = title /\ own[0 + 2] = second
      BY <1>4, <1>5, <2>2
    <3>2. QED
      BY <1>3, <2>1, <2>2, <3>1, UnderHeadings
  <2>3. Len(lines) \in 1 .. 2
    BY <1>5, <2>1
  <2>4. QED
    BY <1>6, <1>7, <2>1, <2>2, <2>3 DEF lines
<1>8. CASE sheet # <<>>
  <2>1. lines = <<blank>> \o own
    BY <1>2, <1>8
  <2>2. /\ lines \in Seq(AnyLine) /\ DOMAIN lines = 1 .. Len(lines)
        /\ Len(lines) = IF short THEN 2 ELSE 3
        /\ lines[1] = blank /\ lines[2] = title
        /\ ~short => lines[3] = second
    <3>1. /\ lines \in Seq(AnyLine) /\ Len(lines) = 1 + Len(own)
          /\ lines[1] = blank /\ \A k \in 1 .. Len(own) : lines[1 + k] = own[k]
      BY <1>3, <1>5, <2>1
    <3>2. CASE short
      BY <1>4, <1>5, <3>1, <3>2
    <3>3. CASE ~short
      BY <1>4, <1>5, <3>1, <3>3
    <3>4. QED
      BY <3>2, <3>3
  <2>3. NoRow(lines)
    <3>1. \A k \in DOMAIN lines : k = 1 \/ k = 2 \/ (k = 3 /\ ~short)
      BY <2>2
    <3>2. QED
      BY <1>3, <2>2, <3>1 DEF NoRow
  <2>4. ASSUME c > 2, ranks # <<>> PROVE UnderGroup(sheet \o lines, group)
    <3>1. Len(lines) = 1 + 2 /\ lines[1 + 1] = title /\ lines[1 + 2] = second /\ 1 \in Nat
      BY <1>5, <2>2, <2>4
    <3>2. lines \in AnyPage
      BY <2>2 DEF AnyPage
    <3>3. QED
      BY <1>3, <2>4, <3>1, <3>2, UnderHeadings
  <2>5. lines \in AnyPage /\ Len(lines) \in 1 .. 3
    BY <2>2 DEF AnyPage
  <2>6. QED
    BY <1>8, <2>3, <2>4, <2>5 DEF lines
<1>9. QED
  BY <1>7, <1>8

\* A group more: every rank a row of it, under its headings.
GroupMore(pages, c, group, ranks, new) ==
    LET before == Len(LastOf(pages))
        headings == IF LastOf(pages) = <<>> THEN 2 ELSE 3
    IN /\ Laid(new, c) /\ LastOf(new) # <<>>
       /\ RowsOn(new) = RowsOn(pages) \o GroupRows(group, ranks)
       /\ (before + headings + Len(ranks) <= c /\ (before = 0 \/ before + 4 <= c)) =>
              /\ Len(new) = Len(pages)
              /\ Len(LastOf(new)) <= before + headings + Len(ranks)

LEMMA LastFine ==
    ASSUME NEW c, NEW pages, Laid(pages, c)
    PROVE  /\ pages \in Book /\ LastOf(pages) \in AnyPage /\ Len(LastOf(pages)) \in Nat
           /\ LastOf(pages) = <<>> <=> Len(LastOf(pages)) = 0
           /\ Fine(LastOf(pages), c)
<1>1. pages \in Book
  BY DEF Laid
<1>2. LastOf(pages) \in AnyPage /\ LastOf(pages) = pages[Len(pages)] /\ Len(pages) \in Nat \ {0}
  BY <1>1, InBook
<1>3. Fine(LastOf(pages), c)
  BY <1>2 DEF Laid
<1>4. QED
  BY <1>1, <1>2, <1>3 DEF AnyPage

LEMMA PutGroupGives ==
    ASSUME NEW c \in Nat, c >= 2, NEW group \in GroupName, NEW pages, Laid(pages, c),
           NEW ranks \in Seq(RotationRank)
    PROVE  GroupMore(pages, c, group, ranks, PutGroup(pages, group, ranks, c))
<1> DEFINE start == IF ranks = <<>> THEN 2 ELSE 3
           before == Len(LastOf(pages))
           room == LastOf(pages) = <<>> \/ before + 1 + start <= c
           placed == IF room THEN pages ELSE Append(pages, <<>>)
           sheet == LastOf(placed)
           lines == GroupHeadings(sheet, group, ranks, c)
           headed == PutAll(placed, lines, c)
           new == PutGroup(pages, group, ranks, c)
<1>1. new = PutRows(headed, group, ranks, c)
  BY DEF PutGroup
<1>2. pages \in Book /\ LastOf(pages) \in AnyPage /\ before \in Nat
      /\ (LastOf(pages) = <<>> <=> before = 0)
  BY InBook DEF Laid, AnyPage
<1>3. Laid(placed, c) /\ RowsOn(placed) = RowsOn(pages)
      /\ (room => placed = pages) /\ (~room => LastOf(placed) = <<>>)
  <2>1. CASE room
    BY <2>1
  <2>2. CASE ~room
    BY <1>2, <2>2, AppendPage, LaidAndOpened
  <2>3. QED
    BY <2>1, <2>2
<1>4. placed \in Book /\ sheet \in AnyPage /\ Len(sheet) \in Nat /\ (sheet = <<>> <=> Len(sheet) = 0)
      /\ Len(sheet) <= c /\ (c > 2 => Headed(sheet))
  <2> HIDE DEF placed
  <2>1. QED
    BY <1>3, LastFine DEF Fine
<1>5. sheet = <<>> \/ Len(sheet) + 1 + start <= c
  BY <1>3
<1> HIDE DEF placed, sheet, new, before
<1>6. /\ lines \in AnyPage /\ NoRow(lines)
      /\ Len(lines) \in 1 .. (IF sheet = <<>> THEN 2 ELSE 3)
      /\ c > 2 /\ ranks # <<>> => UnderGroup(sheet \o lines, group)
  BY <1>4, HeadingsOf
<1> HIDE DEF lines
<1>7. Len(sheet) + Len(lines) <= c
  BY <1>4, <1>5, <1>6
<1>8. Lasts(placed, sheet \o lines, headed) /\ RowsOn(headed) = RowsOn(pages)
  BY <1>3, <1>4, <1>6, <1>7, PutAllFits DEF sheet
<1>9. sheet \o lines \in AnyPage /\ Len(sheet \o lines) = Len(sheet) + Len(lines)
  BY <1>4, <1>6 DEF AnyPage
<1>10. Laid(headed, c)
  <2>1. c > 2 => Headed(sheet \o lines)
    BY <1>4, <1>6, HeadedBefore
  <2>2. Fine(sheet \o lines, c)
    BY <1>7, <1>9, <2>1 DEF Fine
  <2>3. QED
    BY <1>3, <1>8, <2>2, LaidOnLast
<1>11. /\ LastOf(headed) = sheet \o lines /\ Len(headed) = Len(placed)
       /\ LastOf(headed) # <<>>
  BY <1>4, <1>6, <1>8, <1>9 DEF Lasts, AnyPage
<1> HIDE DEF headed
<1>12. /\ Laid(new, c) /\ LastOf(new) # <<>>
       /\ RowsOn(new) = RowsOn(headed) \o GroupRows(group, ranks)
       /\ Len(LastOf(headed)) + Len(ranks) <= c =>
              Len(new) = Len(headed) /\ Len(LastOf(new)) = Len(LastOf(headed)) + Len(ranks)
  <2>1. CASE ranks = <<>>
    <3>1. new = headed
      BY <1>1, <2>1, PutNoRows
    <3>2. GroupRows(group, ranks) = <<>> /\ RowsOn(headed) \in Seq(AnyLine)
      <4>1. Len(GroupRows(group, ranks)) = 0 /\ GroupRows(group, ranks) \in AnyPage
        BY <2>1, RowLines
      <4>2. headed \in Seq(AnyPage)
        BY <1>10, InBook DEF Laid
      <4>3. QED
        BY <4>1, <4>2, RowsOnType DEF AnyPage
    <3>3. RowsOn(headed) \o <<>> = RowsOn(headed)
      BY <3>2
    <3>4. Len(LastOf(headed)) \in Nat /\ Len(ranks) = 0
      BY <1>9, <1>11, <2>1 DEF AnyPage
    <3>5. QED
      BY <1>10, <1>11, <3>1, <3>2, <3>3, <3>4
  <2>2. CASE ranks # <<>>
    <3>1. Ready(headed, c, group)
      BY <1>6, <1>10, <1>11, <2>2 DEF Ready
    <3>2. QED
      BY <1>1, <3>1, PutRowsGives DEF Ready
  <2>3. QED
    BY <2>1, <2>2
<1> DEFINE headings == IF LastOf(pages) = <<>> THEN 2 ELSE 3
<1>13. ASSUME before + headings + Len(ranks) <= c, before = 0 \/ before + 4 <= c
       PROVE  Len(new) = Len(pages) /\ Len(LastOf(new)) <= before + headings + Len(ranks)
  <2>1. room /\ placed = pages /\ sheet = LastOf(pages) /\ Len(sheet) = before
    BY <1>2, <1>3, <1>13 DEF sheet, before
  <2>2. Len(lines) <= headings /\ Len(lines) \in Nat /\ Len(ranks) \in Nat /\ headings \in Nat
    BY <1>6, <2>1
  <2>3. Len(LastOf(headed)) + Len(ranks) <= before + headings + Len(ranks)
        /\ Len(LastOf(headed)) + Len(ranks) \in Nat
    BY <1>2, <1>9, <1>11, <2>1, <2>2
  <2> HIDE DEF headings
  <2>4. QED
    BY <1>2, <1>11, <1>12, <1>13, <2>1, <2>2, <2>3
<1>14. RowsOn(new) = RowsOn(pages) \o GroupRows(group, ranks)
  BY <1>8, <1>12
<1>15. QED
  BY <1>12, <1>13, <1>14 DEF GroupMore, new, before


LEMMA FirstPage ==
    /\ <<(<<>>)>> \in Book /\ LastOf(<<(<<>>)>>) = <<>> /\ Len(<<(<<>>)>>) = 1
    /\ RowsOn(<<(<<>>)>>) = <<>>
    /\ \A c \in Nat : Laid(<<(<<>>)>>, c)
<1> DEFINE first == <<(<<>>)>>
<1>1. /\ first \in Seq(AnyPage) /\ Len(first) = 1 /\ first[1] = <<>>
      /\ <<>> \in AnyPage
  BY DEF AnyPage
<1> HIDE DEF first
<1>2. first \in Book /\ LastOf(first) = <<>>
  <2>1. first[Len(first)] = <<>> /\ Len(first) > 0
    BY <1>1
  <2>2. QED
    BY <1>1, <2>1 DEF Book, LastOf
<1>3. RowsOn(first) = <<>>
  <2>1. PICK f \in [0 .. Len(first) -> AnyPage] :
            /\ f[0] = <<>>
            /\ \A k \in 1 .. Len(first) : f[k] = WithRows(f[k - 1], first[k])
            /\ RowsOn(first) = f[Len(first)]
    BY <1>1, RowsOfPages
  <2>2. RowsOn(first) = WithRows(<<>>, <<>>)
    BY <1>1, <2>1
  <2>3. QED
    BY <2>2, RowsGrow DEF WithRows
<1>4. ASSUME NEW c \in Nat PROVE Laid(first, c)
  <2>1. Fine(<<>>, c)
    BY DEF Fine, Headed
  <2>2. QED
    BY <1>1, <1>2, <2>1 DEF Laid
<1>5. QED
  BY <1>1, <1>2, <1>3, <1>4 DEF first

\* The three groups of a tab and their rows.
LEMMA RanksShown ==
    ASSUME NEW rankings, DistinctChanges(rankings), NEW content, NEW group \in GroupName
    PROVE  LET ranks == ResponsiveRanks(rankings, content, group)
           IN /\ ranks \in Seq(RotationRank)
              /\ GroupRows(group, ranks) \in Seq(AnyLine)
              /\ Len(ranks) = Cardinality(RowsOfGroup(rankings, content, group))
<1>1. /\ ResponsiveRanks(rankings, content, group) \in Seq(RotationRank)
      /\ Len(ResponsiveRanks(rankings, content, group))
             = Cardinality(RowsOfGroup(rankings, content, group))
  BY RanksInOrder
<1>2. QED
  BY <1>1, RowLines DEF AnyPage

\* The pages of a tab are well laid and their rows are those of the groups, in their order.
LEMMA PagesLaid ==
    ASSUME NEW rankings, DistinctChanges(rankings), NEW content, NEW lineCapacity \in Int
    PROVE  LET pages == RotationPages(rankings, content, lineCapacity)
               capacity == IF lineCapacity < 2 THEN 2 ELSE lineCapacity
           IN /\ Laid(pages, capacity) /\ LastOf(pages) # <<>> /\ pages \in Book
              /\ RowsOn(pages) = RowsOfGroups(rankings, content)
<1> DEFINE pages == RotationPages(rankings, content, lineCapacity)
           c == IF lineCapacity < 2 THEN 2 ELSE lineCapacity
           ranks(group) == ResponsiveRanks(rankings, content, group)
           rows(group) == GroupRows(group, ranks(group))
           none == <<(<<>>)>>
           strong == PutGroup(none, "strong", ranks("strong"), c)
           neutral == PutGroup(strong, "neutral", ranks("neutral"), c)
           weak == PutGroup(neutral, "weak", ranks("weak"), c)
<1>1. pages = weak
  BY DEF RotationPages
<1>2. RowsOfGroups(rankings, content) = rows("strong") \o rows("neutral") \o rows("weak")
  BY DEF RowsOfGroups, GroupRows
<1>3. c \in Nat /\ c >= 2
  OBVIOUS
<1>4. /\ "strong" \in GroupName /\ "neutral" \in GroupName /\ "weak" \in GroupName
  BY DEF GroupName
<1>5. \A group \in GroupName : ranks(group) \in Seq(RotationRank) /\ rows(group) \in Seq(AnyLine)
  BY RanksShown
<1> HIDE DEF c, ranks, rows, pages
<1>6. GroupMore(none, c, "strong", ranks("strong"), strong)
  BY <1>3, <1>4, <1>5, FirstPage, PutGroupGives
<1>7. GroupMore(strong, c, "neutral", ranks("neutral"), neutral)
  <2>1. Laid(strong, c)
    BY <1>6 DEF GroupMore
  <2> HIDE DEF strong
  <2>2. QED
    BY <1>3, <1>4, <1>5, <2>1, PutGroupGives
<1>8. GroupMore(neutral, c, "weak", ranks("weak"), weak)
  <2>1. Laid(neutral, c)
    BY <1>7 DEF GroupMore
  <2> HIDE DEF neutral
  <2>2. QED
    BY <1>3, <1>4, <1>5, <2>1, PutGroupGives
<1> HIDE DEF strong, neutral, weak
<1>9. RowsOn(weak) = rows("strong") \o rows("neutral") \o rows("weak")
  <2>1. /\ RowsOn(strong) = RowsOn(none) \o rows("strong")
        /\ RowsOn(neutral) = RowsOn(strong) \o rows("neutral")
        /\ RowsOn(weak) = RowsOn(neutral) \o rows("weak")
    BY <1>6, <1>7, <1>8 DEF GroupMore, rows
  <2>2. RowsOn(none) \o rows("strong") = rows("strong")
    BY <1>4, <1>5, FirstPage
  <2>3. QED
    BY <2>1, <2>2
<1>10. Laid(weak, c) /\ LastOf(weak) # <<>>
  BY <1>8 DEF GroupMore
<1>11. QED
  BY <1>1, <1>2, <1>9, <1>10 DEF pages, c, Laid

\* A tab, whatever its rows and whatever the room: every row once, in the order of the
\* groups; no page empty or too long; every row under its headings where there is room.
THEOREM PagesHoldTheRows ==
    ASSUME NEW rankings, DistinctChanges(rankings), NEW content, NEW lineCapacity \in Int
    PROVE  LET pages == RotationPages(rankings, content, lineCapacity)
               capacity == IF lineCapacity < 2 THEN 2 ELSE lineCapacity
           IN /\ RowsOn(pages) = RowsOfGroups(rankings, content)
              /\ Len(pages) \in Nat \ {0}
              /\ \A p \in DOMAIN pages : /\ pages[p] # <<>>
                                         /\ Len(pages[p]) <= capacity
                                         /\ capacity > 2 => Headed(pages[p])
<1> DEFINE pages == RotationPages(rankings, content, lineCapacity)
           c == IF lineCapacity < 2 THEN 2 ELSE lineCapacity
<1>1. /\ Laid(pages, c) /\ LastOf(pages) # <<>>
      /\ RowsOn(pages) = RowsOfGroups(rankings, content)
  BY PagesLaid
<1> HIDE DEF c, pages
<1>2. Len(pages) \in Nat \ {0} /\ DOMAIN pages = 1 .. Len(pages)
      /\ LastOf(pages) = pages[Len(pages)]
  BY <1>1, InBook DEF Laid
<1>3. ASSUME NEW p \in DOMAIN pages PROVE pages[p] # <<>> /\ Fine(pages[p], c)
  <2>1. p \in 1 .. Len(pages) /\ (p = Len(pages) \/ p \in 1 .. Len(pages) - 1)
    BY <1>2
  <2>2. QED
    BY <1>1, <1>2, <2>1 DEF Laid
<1>4. QED
  BY <1>1, <1>2, <1>3 DEF Fine, pages, c

\* The three groups have no more rows than there are ranks.
LEMMA GroupsAddUp ==
    ASSUME NEW rankings, DistinctChanges(rankings), NEW content
    PROVE  LET n(group) == Len(ResponsiveRanks(rankings, content, group))
           IN /\ n("strong") \in Nat /\ n("neutral") \in Nat /\ n("weak") \in Nat
              /\ Len(rankings) \in Nat
              /\ n("strong") + n("neutral") + n("weak") <= Len(rankings)
<1> DEFINE s == RowsOfGroup(rankings, content, "strong")
           m == RowsOfGroup(rankings, content, "neutral")
           w == RowsOfGroup(rankings, content, "weak")
           all == 1 .. Len(rankings)
<1>1. /\ Len(rankings) \in Nat /\ IsFiniteSet(all) /\ Cardinality(all) = Len(rankings)
  <2>1. Len(rankings) \in Nat
    BY DEF DistinctChanges
  <2>2. \A k \in Nat : Cardinality(1 .. k) = k
    BY FS_Interval
  <2>3. QED
    BY <2>1, <2>2, FS_Interval
<1>2. s \subseteq all /\ m \subseteq all /\ w \subseteq all
  BY DEF RowsOfGroup, DistinctChanges
<1>3. s \cap m = {} /\ (s \cup m) \cap w = {}
  BY DEF RowsOfGroup
<1> HIDE DEF s, m, w, all
<1>4. IsFiniteSet(s) /\ IsFiniteSet(m) /\ IsFiniteSet(w) /\ IsFiniteSet(s \cup m)
      /\ s \cup m \cup w \subseteq all
  BY <1>1, <1>2, FS_Subset
<1>5. /\ Cardinality(s) \in Nat /\ Cardinality(m) \in Nat /\ Cardinality(w) \in Nat
      /\ Cardinality(s \cup m) \in Nat
  BY <1>4, FS_CardinalityType
<1>6. Cardinality(s \cup m) = Cardinality(s) + Cardinality(m)
  <2>1. Cardinality(s \cup m) = Cardinality(s) + Cardinality(m) - Cardinality(s \cap m)
    BY <1>4, FS_Union
  <2>2. QED
    BY <1>3, <1>5, <2>1, FS_EmptySet
<1>7. Cardinality((s \cup m) \cup w) = Cardinality(s \cup m) + Cardinality(w)
  <2>1. Cardinality((s \cup m) \cup w)
            = Cardinality(s \cup m) + Cardinality(w) - Cardinality((s \cup m) \cap w)
    BY <1>4, FS_Union
  <2>2. Cardinality((s \cup m) \cap w) = 0
    BY <1>3, FS_EmptySet
  <2>3. QED
    BY <1>5, <2>1, <2>2
<1>8. Cardinality((s \cup m) \cup w) <= Len(rankings)
  BY <1>1, <1>4, FS_Subset
<1>9. /\ Len(ResponsiveRanks(rankings, content, "strong")) = Cardinality(s)
      /\ Len(ResponsiveRanks(rankings, content, "neutral")) = Cardinality(m)
      /\ Len(ResponsiveRanks(rankings, content, "weak")) = Cardinality(w)
  <2>1. /\ "strong" \in GroupName /\ "neutral" \in GroupName /\ "weak" \in GroupName
    BY DEF GroupName
  <2>2. QED
    BY <2>1, RanksShown DEF s, m, w
<1>10. QED
  BY <1>1, <1>5, <1>6, <1>7, <1>8, <1>9

\* The page meant to hold the log's leveraged table does hold it.
THEOREM LogOnOnePage ==
    ASSUME NEW rankings, DistinctChanges(rankings)
    PROVE  Len(LogPages(rankings)) = 1
<1> DEFINE content == "leveraged"
           c == Len(rankings) + 9
           ranks(group) == ResponsiveRanks(rankings, content, group)
           n(group) == Len(ranks(group))
           none == <<(<<>>)>>
           strong == PutGroup(none, "strong", ranks("strong"), c)
           neutral == PutGroup(strong, "neutral", ranks("neutral"), c)
           weak == PutGroup(neutral, "weak", ranks("weak"), c)
<1>1. /\ n("strong") \in Nat /\ n("neutral") \in Nat /\ n("weak") \in Nat
      /\ Len(rankings) \in Nat
      /\ n("strong") + n("neutral") + n("weak") <= Len(rankings)
  BY GroupsAddUp
<1>2. c \in Nat /\ c >= 2 /\ ~(c < 2)
  BY <1>1
<1>3. LogPages(rankings) = weak
  BY <1>2 DEF LogPages, RotationPages
<1>4. /\ "strong" \in GroupName /\ "neutral" \in GroupName /\ "weak" \in GroupName
  BY DEF GroupName
<1>5. \A group \in GroupName : ranks(group) \in Seq(RotationRank)
  BY RanksShown
<1> HIDE DEF ranks
<1>6. GroupMore(none, c, "strong", ranks("strong"), strong)
  BY <1>2, <1>4, <1>5, FirstPage, PutGroupGives
<1>7. GroupMore(strong, c, "neutral", ranks("neutral"), neutral)
  <2>1. Laid(strong, c)
    BY <1>6 DEF GroupMore
  <2> HIDE DEF strong
  <2>2. QED
    BY <1>2, <1>4, <1>5, <2>1, PutGroupGives
<1>8. GroupMore(neutral, c, "weak", ranks("weak"), weak)
  <2>1. Laid(neutral, c)
    BY <1>7 DEF GroupMore
  <2> HIDE DEF neutral
  <2>2. QED
    BY <1>2, <1>4, <1>5, <2>1, PutGroupGives
<1> HIDE DEF strong, neutral, weak
<1>9. Len(strong) = 1 /\ Len(LastOf(strong)) <= 2 + n("strong")
      /\ Len(LastOf(strong)) \in Nat /\ LastOf(strong) # <<>>
  <2>1. Len(LastOf(none)) = 0 /\ LastOf(none) = <<>> /\ Len(none) = 1
    BY FirstPage
  <2>2. 0 + 2 + n("strong") <= c
    BY <1>1
  <2>3. Len(strong) = Len(none) /\ Len(LastOf(strong)) <= 0 + 2 + n("strong")
    BY <1>6, <2>1, <2>2 DEF GroupMore
  <2>4. Len(LastOf(strong)) \in Nat /\ LastOf(strong) # <<>>
    BY <1>6, LastFine DEF GroupMore
  <2>5. QED
    BY <1>1, <2>1, <2>3, <2>4
<1>10. Len(neutral) = 1 /\ Len(LastOf(neutral)) <= 5 + n("strong") + n("neutral")
       /\ Len(LastOf(neutral)) \in Nat /\ LastOf(neutral) # <<>>
  <2> DEFINE before == Len(LastOf(strong))
  <2>1. before + 3 + n("neutral") <= c /\ before + 4 <= c
    BY <1>1, <1>9
  <2>2. Len(neutral) = Len(strong) /\ Len(LastOf(neutral)) <= before + 3 + n("neutral")
    BY <1>7, <1>9, <2>1 DEF GroupMore
  <2>3. Len(LastOf(neutral)) \in Nat /\ LastOf(neutral) # <<>>
    BY <1>7, LastFine DEF GroupMore
  <2>4. QED
    BY <1>1, <1>9, <2>2, <2>3
<1>11. Len(weak) = 1
  <2> DEFINE before == Len(LastOf(neutral))
  <2>1. before + 3 + n("weak") <= c /\ before + 4 <= c
    BY <1>1, <1>10
  <2>2. Len(weak) = Len(neutral)
    BY <1>8, <1>10, <2>1 DEF GroupMore
  <2>3. QED
    BY <1>10, <2>2
<1>12. QED
  BY <1>3, <1>11


-----------------------------------------------------------------------------
(* The page in hand.                                                       *)

\* The pages of a terminal were counted when it was last rendered, and the page in hand
\* is one of them.
Counted == (scan # 0 /\ interactive) => /\ page < pageCount
                                        /\ pageCount = Len(PagesOf(scan, tab, lastSize))

LayoutTyped ==
    /\ scan \in 0 .. Len(Scans) /\ tab \in TabNumber
    /\ page \in Nat /\ pageCount \in Nat \ {0}
    /\ lastSize \in Size \cup {DefaultSize}
    /\ screen.tab \in TabNumber \cup {0}

PagesInv ==
    /\ TypeOK /\ Counted /\ KeysOfTerminal
    /\ pressed = [key |-> pressed.key, bytes |-> pressed.bytes]

LEMMA ScanOf ==
    ASSUME NEW number \in 1 .. Len(Scans), NEW t \in TabNumber
    PROVE  /\ DistinctChanges(Rankings(number, t))
           /\ DistinctChanges(Scans[number].rankings)
<1> DEFINE Scan == [bar : Int, sectors : Seq(RotationRank), rankings : Seq(RotationRank)]
           s == Scans[number]
<1>1. Scans \in Seq(Scan) /\ number \in DOMAIN Scans
  BY ScansAssumption
<1>2. s \in Scan
  <2> HIDE DEF Scan
  <2>1. QED
    BY <1>1
<1>3. s.sectors \in Seq(RotationRank) /\ s.rankings \in Seq(RotationRank)
  BY <1>2
<1>4. \A ranks \in {s.sectors, s.rankings} :
          \A i, j \in DOMAIN ranks : i # j => ranks[i].change # ranks[j].change
  BY <1>1, ScansAssumption
<1> HIDE DEF s
<1>5. DistinctChanges(s.sectors) /\ DistinctChanges(s.rankings)
  BY <1>3, <1>4, Zenon DEF DistinctChanges
<1>6. Rankings(number, t) \in {s.sectors, s.rankings}
  BY DEF Rankings, s
<1>7. QED
  BY <1>5, <1>6 DEF s

LEMMA SizesTyped ==
    ASSUME NEW s \in Size \cup {DefaultSize}
    PROVE  /\ s.rows \in Nat /\ s.columns \in Nat
           /\ ViewportRows(s) \in Nat
           /\ BodyCapacity(ViewportRows(s)) \in Nat /\ BodyCapacity(ViewportRows(s)) >= 2
           /\ s.rows >= 7 => BodyCapacity(ViewportRows(s)) = s.rows - 5
<1>1. s.rows \in Nat /\ s.columns \in Nat
  BY SizeAssumption DEF DefaultSize
<1>2. ViewportRows(s) \in Nat /\ (s.rows >= 7 => ViewportRows(s) = s.rows - 2)
  BY <1>1 DEF ViewportRows
<1>3. \A rows \in Nat : /\ BodyCapacity(rows) \in Nat /\ BodyCapacity(rows) >= 2
                        /\ rows >= 5 => BodyCapacity(rows) = rows - 3
  BY DEF BodyCapacity, AtLeast
<1>4. QED
  BY <1>1, <1>2, <1>3

\* A tab has a page.
LEMMA PagesCounted ==
    ASSUME NEW number \in 1 .. Len(Scans), NEW t \in TabNumber,
           NEW s \in Size \cup {DefaultSize}
    PROVE  Len(PagesOf(number, t, s)) \in Nat \ {0}
<1> DEFINE ranks == Rankings(number, t)
           rows == ViewportRows(s)
<1>1. DistinctChanges(ranks) /\ BodyCapacity(rows) \in Int
  BY ScanOf, SizesTyped
<1> HIDE DEF ranks, rows
<1>2. CASE Tab[t] \in PagedTabs
  <2>1. Pages(ranks, Tab[t], rows) = RotationPages(ranks, Content(Tab[t]), BodyCapacity(rows))
    BY <1>2 DEF Pages
  <2>2. Len(RotationPages(ranks, Content(Tab[t]), BodyCapacity(rows))) \in Nat \ {0}
    BY <1>1, PagesHoldTheRows
  <2>3. QED
    BY <2>1, <2>2 DEF PagesOf, ranks, rows
<1>3. CASE Tab[t] \notin PagedTabs
  <2>1. Pages(ranks, Tab[t], rows) = <<(<<>>)>>
    BY <1>3 DEF Pages
  <2>2. QED
    BY <2>1 DEF PagesOf, ranks, rows
<1>4. QED
  BY <1>2, <1>3

\* Rendering counts the pages and clamps the page asked for.
LEMMA RenderedTyped ==
    ASSUME LayoutTyped, size \in Size \cup {DefaultSize}, interactive' = interactive,
           NEW number \in 0 .. Len(Scans), NEW t \in TabNumber, NEW p \in Nat,
           Render(number, t, p)
    PROVE  LayoutTyped' /\ Counted'
<1>1. scan' = number /\ tab' = t
  BY DEF Render
<1>2. CASE number = 0 \/ ~interactive
  <2>1. /\ page' = p /\ UNCHANGED <<pageCount, lastSize>>
        /\ screen' = IF number = 0 THEN screen ELSE [Blank EXCEPT !.scan = number]
    BY <1>2 DEF Render
  <2>2. screen'.tab \in TabNumber \cup {0}
    BY <2>1 DEF Blank, LayoutTyped
  <2>3. QED
    BY <1>1, <1>2, <2>1, <2>2 DEF LayoutTyped, Counted
<1>3. CASE number # 0 /\ interactive
  <2> DEFINE n == Len(PagesOf(number, t, size))
  <2>1. /\ pageCount' = n /\ page' = PageIndex(p, n) /\ lastSize' = size
        /\ screen' = [tab |-> t, page |-> page', scan |-> number, size |-> size]
    BY <1>3 DEF Render
  <2>2. n \in Nat \ {0}
    <3>1. number \in 1 .. Len(Scans)
      BY <1>3
    <3>2. QED
      BY <3>1, PagesCounted
  <2>3. lastSize' \in Size \cup {DefaultSize} /\ screen'.tab = t
    BY <2>1
  <2>4. pageCount' = Len(PagesOf(scan, tab, lastSize))'
    BY <1>1, <2>1 DEF PagesOf, Pages, Rankings
  <2> HIDE DEF n
  <2>5. page' \in Nat /\ page' < n
    BY <2>1, <2>2 DEF PageIndex
  <2>6. QED
    BY <1>1, <2>1, <2>2, <2>3, <2>4, <2>5 DEF LayoutTyped, Counted
<1>4. QED
  BY <1>2, <1>3

\* What a key's action renders, if anything.
LEMMA AppliedTyped ==
    ASSUME LayoutTyped, NEW action, Apply(action)
    PROVE  \/ UNCHANGED <<scan, layout>>
           \/ \E t \in TabNumber, p \in Nat : Render(scan, t, p)
<1>1. TabNumber = 1 .. 5
  BY DEF TabNumber, Tab
<1>2. /\ NextTab(tab) \in TabNumber /\ PreviousTab(tab) \in TabNumber
      /\ 1 \in TabNumber /\ 4 \in TabNumber /\ 5 \in TabNumber
  <2>1. tab \in {1, 2, 3, 4, 5} /\ Len(Tab) = 5
    BY <1>1 DEF LayoutTyped, Tab
  <2>2. NextTab(tab) \in 1 .. 5 /\ PreviousTab(tab) \in 1 .. 5
    BY <2>1 DEF NextTab, PreviousTab
  <2>3. QED
    BY <1>1, <2>2
<1>3. \A t \in TabNumber : SelectTab(t) => UNCHANGED <<scan, layout>> \/ Render(scan, t, 0)
  BY DEF SelectTab
<1>4. \A d \in {-1, 1} : ChangePage(d) =>
          UNCHANGED <<scan, layout>> \/ (page + d \in Nat /\ Render(scan, tab, page + d))
  BY DEF ChangePage, Turns, LayoutTyped
<1>5. \/ \E t \in TabNumber : SelectTab(t)
      \/ \E d \in {-1, 1} : ChangePage(d)
      \/ UNCHANGED <<scan, layout>>
  BY <1>2 DEF Apply
<1>6. QED
  BY <1>3, <1>4, <1>5 DEF LayoutTyped

\* The decoder's next state.
LEMMA ConsumedTyped ==
    ASSUME NEW state \in {"plain", "escape", "control"}, NEW byte
    PROVE  Consume(state, byte)[1] \in {"plain", "escape", "control"}
BY DEF Consume

LEMMA PagesNext ==
    ASSUME PagesInv, [Next]_vars
    PROVE  PagesInv'
<1>1. /\ TypeOK /\ LayoutTyped /\ Counted /\ KeysOfTerminal
      /\ size \in Size \cup {DefaultSize}
      /\ pressed = [key |-> pressed.key, bytes |-> pressed.bytes]
  BY DEF PagesInv, TypeOK, LayoutTyped
<1> DEFINE KeysTyped == /\ decoder \in {"plain", "escape", "control"}
                        /\ pressed.key \in Key \cup {None}
                        /\ pressed = [key |-> pressed.key, bytes |-> pressed.bytes]
<1>2. KeysTyped
  BY <1>1 DEF TypeOK
<1>3. ASSUME LayoutTyped', Counted', KeysTyped', KeysOfTerminal',
             phase' \in {"created", "started", "stopped"}, interactive' \in BOOLEAN,
             size' \in Size \cup {DefaultSize}
      PROVE  PagesInv'
  BY <1>3 DEF PagesInv, TypeOK, LayoutTyped
<1>4. ASSUME UNCHANGED <<scan, layout>>, interactive' = interactive PROVE LayoutTyped' /\ Counted'
  BY <1>1, <1>4 DEF LayoutTyped, Counted, layout, PagesOf, Pages, Rankings
<1>5. UNCHANGED keys => KeysTyped'
  BY <1>2 DEF keys
<1>6. phase \in {"created", "started", "stopped"} /\ interactive \in BOOLEAN
  BY <1>1 DEF TypeOK
<1> HIDE DEF KeysTyped
<1>7. CASE Start
  <2>1. /\ phase = "created" /\ phase' = "started" /\ interactive' \in BOOLEAN
        /\ UNCHANGED <<scan, size, layout, keys>>
    BY <1>7 DEF Start
  <2>2. scan' = 0 /\ pressed' = pressed /\ pressed.bytes = <<>>
    BY <1>1, <2>1 DEF KeysOfTerminal, keys
  <2>3. LayoutTyped' /\ Counted'
    BY <1>1, <2>1, <2>2 DEF LayoutTyped, Counted, layout
  <2>4. KeysOfTerminal'
    BY <2>1, <2>2 DEF KeysOfTerminal
  <2>5. QED
    BY <1>1, <1>3, <1>5, <2>1, <2>3, <2>4
<1>8. ASSUME NEW number \in DOMAIN Scans, Update(number)
      PROVE  PagesInv'
  <2>1. phase = "started" /\ UNCHANGED <<phase, interactive, size, keys>>
    BY <1>8 DEF Update
  <2>2. KeysOfTerminal'
    BY <1>1, <2>1 DEF KeysOfTerminal, keys
  <2>3. number \in 1 .. Len(Scans)
    BY ScansAssumption
  <2>4. CASE Render(number, tab, page)
    <3>1. LayoutTyped' /\ Counted'
      <4>1. number \in 0 .. Len(Scans) /\ tab \in TabNumber /\ page \in Nat
        BY <1>1, <2>3 DEF LayoutTyped
      <4>2. QED
        BY <1>1, <2>1, <2>4, <4>1, RenderedTyped
    <3>2. QED
      BY <1>1, <1>3, <1>5, <1>6, <2>1, <2>2, <3>1
  <2>5. CASE ~interactive /\ scan' = number /\ UNCHANGED layout
    <3>1. LayoutTyped' /\ Counted'
      BY <1>1, <2>1, <2>3, <2>5 DEF LayoutTyped, Counted, layout
    <3>2. QED
      BY <1>1, <1>3, <1>5, <1>6, <2>1, <2>2, <3>1
  <2>6. QED
    BY <1>8, <2>4, <2>5 DEF Update
<1>9. ASSUME NEW s \in Size, Resize(s)
      PROVE  PagesInv'
  <2>1. size' = s /\ UNCHANGED <<phase, interactive, scan, layout, keys>>
    BY <1>9 DEF Resize
  <2>2. KeysOfTerminal'
    BY <1>1, <2>1 DEF KeysOfTerminal, keys
  <2>3. QED
    BY <1>3, <1>4, <1>5, <1>6, <2>1, <2>2
<1>10. CASE RenderIfResized
  <2>1. UNCHANGED <<phase, interactive, size, keys>> /\ Render(scan, tab, page) /\ phase = "started"
    BY <1>10 DEF RenderIfResized
  <2>2. KeysOfTerminal'
    BY <1>1, <2>1 DEF KeysOfTerminal, keys
  <2>3. LayoutTyped' /\ Counted'
    <3>1. scan \in 0 .. Len(Scans) /\ tab \in TabNumber /\ page \in Nat
      BY <1>1 DEF LayoutTyped
    <3>2. QED
      BY <1>1, <2>1, <3>1, RenderedTyped
  <2>4. QED
    BY <1>1, <1>3, <1>5, <1>6, <2>1, <2>2, <2>3
<1>11. ASSUME NEW key \in Key, Press(key)
       PROVE  PagesInv'
  <2>1. /\ phase = "started" /\ interactive /\ pressed' = [key |-> key, bytes |-> Bytes(key)]
        /\ UNCHANGED <<phase, interactive, scan, size, layout, decoder>>
    BY <1>11 DEF Press
  <2>2. KeysTyped'
    BY <1>2, <2>1 DEF KeysTyped
  <2>3. KeysOfTerminal'
    BY <2>1 DEF KeysOfTerminal
  <2>4. QED
    BY <1>1, <1>3, <1>4, <1>6, <2>1, <2>2, <2>3
<1>12. CASE InputByte
  <2>1. /\ phase = "started" /\ pressed.bytes # <<>> /\ UNCHANGED <<phase, interactive, size>>
        /\ decoder' = Consume(decoder, Head(pressed.bytes))[1]
        /\ pressed' = [pressed EXCEPT !.bytes = Tail(pressed.bytes)]
        /\ \E action : Apply(action)
    BY <1>12 DEF InputByte
  <2>2. interactive
    BY <1>1, <2>1 DEF KeysOfTerminal
  <2>3. KeysOfTerminal'
    BY <2>1, <2>2 DEF KeysOfTerminal
  <2>4. KeysTyped'
    <3>1. decoder' \in {"plain", "escape", "control"}
      BY <1>2, <2>1, ConsumedTyped DEF KeysTyped
    <3>2. pressed' = [key |-> pressed.key, bytes |-> Tail(pressed.bytes)]
      BY <1>1, <2>1
    <3>3. QED
      BY <1>2, <3>1, <3>2 DEF KeysTyped
  <2>5. LayoutTyped' /\ Counted'
    <3>1. CASE UNCHANGED <<scan, layout>>
      BY <1>4, <2>1, <3>1
    <3>2. ASSUME NEW t \in TabNumber, NEW p \in Nat, Render(scan, t, p)
          PROVE  LayoutTyped' /\ Counted'
      <4>1. scan \in 0 .. Len(Scans)
        BY <1>1 DEF LayoutTyped
      <4>2. QED
        BY <1>1, <2>1, <3>2, <4>1, RenderedTyped
    <3>3. QED
      BY <1>1, <2>1, <3>1, <3>2, AppliedTyped
  <2>6. QED
    BY <1>1, <1>3, <1>6, <2>1, <2>3, <2>4, <2>5
<1>13. CASE Stop
  <2>1. phase' = "stopped" /\ UNCHANGED <<interactive, scan, size, layout, keys>>
    BY <1>13 DEF Stop
  <2>2. KeysOfTerminal'
    BY <1>1, <2>1 DEF KeysOfTerminal, keys
  <2>3. QED
    BY <1>1, <1>3, <1>4, <1>5, <1>6, <2>1, <2>2
<1>14. CASE UNCHANGED vars
  <2>1. UNCHANGED <<phase, interactive, scan, size, layout, keys>>
    BY <1>14 DEF vars
  <2>2. KeysOfTerminal'
    BY <1>1, <2>1 DEF KeysOfTerminal, keys
  <2>3. QED
    BY <1>1, <1>3, <1>4, <1>5, <1>6, <2>1, <2>2
<1>15. QED
  BY <1>7, <1>8, <1>9, <1>10, <1>11, <1>12, <1>13, <1>14 DEF Next


LEMMA PagesHold == Spec => []PagesInv
<1>1. Init => PagesInv
  <2>1. SUFFICES ASSUME Init PROVE PagesInv
    OBVIOUS
  <2>2. Len(Scans) \in Nat /\ TabNumber = 1 .. 5
    BY ScansAssumption DEF TabNumber, Tab
  <2>3. /\ phase = "created" /\ interactive = FALSE /\ scan = 0 /\ tab = 1 /\ page = 0
        /\ pageCount = 1 /\ size \in Size /\ lastSize = DefaultSize /\ decoder = "plain"
        /\ pressed = [key |-> None, bytes |-> <<>>] /\ screen = Blank
    BY <2>1 DEF Init
  <2>4. screen.tab = 0
    BY <2>3 DEF Blank
  <2>5. scan \in 0 .. Len(Scans) /\ tab \in TabNumber /\ pressed.key = None
        /\ pressed.bytes = <<>>
    BY <2>2, <2>3
  <2>6. TypeOK
    <3>1. {size, lastSize} \subseteq Size \cup {DefaultSize}
      BY <2>3
    <3>2. screen.tab \in TabNumber \cup {0} /\ pressed.key \in Key \cup {None}
      BY <2>4, <2>5
    <3>3. page \in Nat /\ pageCount \in Nat \ {0}
      BY <2>3
    <3>4. interactive \in BOOLEAN
      BY <2>3, Zenon
    <3>5. /\ phase \in {"created", "started", "stopped"}
          /\ decoder \in {"plain", "escape", "control"}
      BY <2>3
    <3>6. QED
      BY <2>5, <3>1, <3>2, <3>3, <3>4, <3>5 DEF TypeOK
  <2>7. QED
    BY <2>3, <2>5, <2>6 DEF PagesInv, Counted, KeysOfTerminal
<1>2. QED
  BY <1>1, PagesNext, PTL DEF Spec

\* Every variable keeps its type, for any scans, sizes and keys: the tab is one of the
\* five, the page a number and the decoder in a state it has.
THEOREM TypesHold == Spec => []TypeOK
<1>1. PagesInv => TypeOK
  BY DEF PagesInv
<1>2. QED
  BY <1>1, PagesHold, PTL

\* In a state of the invariant the pages of the shown tab hold its rows.
LEMMA PagesOfState == PagesInv => PagesPartitionRows
<1>1. SUFFICES ASSUME PagesInv, scan # 0 PROVE PagesPartitionRows
  BY DEF PagesPartitionRows
<1>2. /\ scan \in 1 .. Len(Scans) /\ tab \in TabNumber /\ lastSize \in Size \cup {DefaultSize}
      /\ Counted
  BY <1>1 DEF PagesInv, TypeOK
<1>3. CASE ~interactive
  <2> DEFINE ranks == Scans[scan].rankings
  <2>1. DistinctChanges(ranks)
    BY <1>2, ScanOf
  <2>2. Len(LogPages(ranks)) = 1
    BY <2>1, LogOnOnePage
  <2>3. LogPages(ranks) = RotationPages(ranks, "leveraged", Len(ranks) + 9)
        /\ Len(ranks) + 9 \in Int
    BY <2>1 DEF LogPages, DistinctChanges
  <2> HIDE DEF ranks
  <2>4. RowsOn(LogPages(ranks)) = RowsOfGroups(ranks, "leveraged")
    BY <2>1, <2>3, PagesHoldTheRows
  <2>5. QED
    BY <1>3, <2>2, <2>4 DEF PagesPartitionRows, ranks
<1>4. CASE interactive
  <2> DEFINE shown == PagesOf(scan, tab, lastSize)
             capacity == BodyCapacity(ViewportRows(lastSize))
             ranks == Rankings(scan, tab)
             content == Content(Tab[tab])
  <2>1. page < pageCount /\ pageCount = Len(shown)
    BY <1>1, <1>2, <1>4 DEF Counted
  <2>2. DistinctChanges(ranks) /\ capacity \in Nat /\ capacity >= 2
    BY <1>2, ScanOf, SizesTyped
  <2>3. Tab[tab] \in PagedTabs => shown = RotationPages(ranks, content, capacity)
    BY DEF PagesOf, Pages
  <2> HIDE DEF shown, capacity, ranks, content
  <2>4. ~(capacity < 2) /\ capacity \in Int
    BY <2>2
  <2>5. ASSUME Tab[tab] \in PagedTabs
        PROVE  /\ RowsOn(shown) = RowsOfGroups(ranks, content)
               /\ \A p \in DOMAIN shown : /\ shown[p] # <<>>
                                          /\ Len(shown[p]) <= capacity
                                          /\ capacity > 2 => Headed(shown[p])
    BY <2>2, <2>3, <2>4, <2>5, PagesHoldTheRows
  <2>6. QED
    BY <1>4, <2>1, <2>5 DEF PagesPartitionRows, shown, capacity, ranks, content
<1>5. QED
  BY <1>3, <1>4

\* Turning the pages shows every row of the tab once, for any scan, terminal size and
\* sequence of keys, updates and resizes: the page in hand is one of those there are,
\* they hold the rows of the groups in order, none is longer than its share of the
\* terminal, and the log has its leveraged table on one page.
THEOREM PagesStayPartitioned == Spec => []PagesPartitionRows
BY PagesOfState, PagesHold, PTL

-----------------------------------------------------------------------------
(* The widths.                                                             *)

\* The k-th cell of a line, if it has one.
Cell(cells, k) == IF k <= Len(cells) THEN cells[k] ELSE 0

Four(cells, k) == Cell(cells, k + 1) + Cell(cells, k + 2) + Cell(cells, k + 3) + Cell(cells, k + 4)

LEMMA WidthAdds ==
    ASSUME NEW cells \in Seq(Nat), Len(cells) \in 0 .. 16
    PROVE  Width(cells) = Four(cells, 0) + Four(cells, 4) + Four(cells, 8) + Four(cells, 12)
<1> DEFINE n == Len(cells)
<1>1. n \in 0 .. 16 /\ n <= 16 /\ (16 <= n => n = 16)
  <2>1. \A m \in 0 .. 16 : m <= 16 /\ (16 <= m => m = 16)
    OBVIOUS
  <2>2. n \in 0 .. 16
    OBVIOUS
  <2> HIDE DEF n
  <2>3. QED
    BY <2>1, <2>2
<1>2. PICK f \in [0 .. n -> Nat] :
          /\ f[0] = 0 /\ \A k \in 1 .. n : f[k] = f[k - 1] + cells[k]
          /\ Width(cells) = f[n]
  <2>1. ASSUME NEW x \in Nat, NEW k \in 1 .. n PROVE x + cells[k] \in Nat
    <3>1. cells[k] \in Nat
      OBVIOUS
    <3>2. QED
      BY <3>1
  <2>2. 0 \in Nat /\ n \in Nat /\ \A x \in Nat : \A k \in 1 .. n : x + cells[k] \in Nat
    BY <1>1, <2>1
  <2>3. \E f \in [0 .. n -> Nat] : Widens(f, cells)
    BY <2>2, WidthBy
  <2>4. QED
    BY <2>3 DEF Widens
<1> DEFINE g == [k \in 0 .. 16 |-> IF k <= n THEN f[k] ELSE f[n]]
<1>3. \A k \in 1 .. 16 : Cell(cells, k) \in Nat /\ g[k] = g[k - 1] + Cell(cells, k)
  <2>1. TAKE k \in 1 .. 16
  <2>2. CASE k <= n
    <3>1. k \in 1 .. n /\ k - 1 \in 0 .. n
      BY <1>1, <2>2
    <3>2. k - 1 \in 0 .. 16 /\ k - 1 <= n
      BY <1>1, <2>2, <3>1
    <3>3. g[k] = f[k] /\ g[k - 1] = f[k - 1]
      BY <2>2, <3>2
    <3>4. Cell(cells, k) = cells[k]
      BY <2>2 DEF Cell
    <3>5. cells[k] \in Nat
      BY <3>1
    <3>6. QED
      BY <1>2, <3>1, <3>3, <3>4, <3>5
  <2>3. CASE ~(k <= n)
    <3>1. k - 1 \in 0 .. 16 /\ (k - 1 = n \/ ~(k - 1 <= n)) /\ f[n] \in Nat
      BY <1>1, <1>2, <2>3
    <3>2. g[k] = f[n] /\ g[k - 1] = f[n] /\ Cell(cells, k) = 0
      BY <2>3, <3>1 DEF Cell
    <3>3. QED
      BY <3>1, <3>2
  <2>4. QED
    BY <2>2, <2>3
<1> HIDE DEF n
<1>4. g[0] = 0 /\ g[16] = Width(cells)
  BY <1>1, <1>2
<1> HIDE DEF g
<1>5. ASSUME NEW k \in 0 .. 12, g[k] \in Nat
      PROVE  Four(cells, k) \in Nat /\ g[k + 4] = g[k] + Four(cells, k) /\ g[k + 4] \in Nat
  <2>1. /\ k + 1 \in 1 .. 16 /\ k + 2 \in 1 .. 16 /\ k + 3 \in 1 .. 16 /\ k + 4 \in 1 .. 16
        /\ (k + 1) - 1 = k /\ (k + 2) - 1 = k + 1 /\ (k + 3) - 1 = k + 2 /\ (k + 4) - 1 = k + 3
    OBVIOUS
  <2>2. g[k + 1] = g[k] + Cell(cells, k + 1) /\ Cell(cells, k + 1) \in Nat
    BY <1>3, <2>1
  <2>3. g[k + 2] = g[k + 1] + Cell(cells, k + 2) /\ Cell(cells, k + 2) \in Nat
    BY <1>3, <2>1
  <2>4. g[k + 3] = g[k + 2] + Cell(cells, k + 3) /\ Cell(cells, k + 3) \in Nat
    BY <1>3, <2>1
  <2>5. g[k + 4] = g[k + 3] + Cell(cells, k + 4) /\ Cell(cells, k + 4) \in Nat
    BY <1>3, <2>1
  <2>7. /\ Cell(cells, k + 1) \in Nat /\ Cell(cells, k + 2) \in Nat
        /\ Cell(cells, k + 3) \in Nat /\ Cell(cells, k + 4) \in Nat
    BY <2>2, <2>3, <2>4, <2>5
  <2>8. g[k + 1] \in Nat
    BY <1>5, <2>2
  <2>9. g[k + 2] \in Nat
    BY <2>3, <2>8
  <2>10. g[k + 3] \in Nat
    BY <2>4, <2>9
  <2>11. g[k + 4] \in Nat
    BY <2>5, <2>10
  <2>12. /\ g[k + 1] = g[k] + Cell(cells, k + 1) /\ g[k + 2] = g[k + 1] + Cell(cells, k + 2)
         /\ g[k + 3] = g[k + 2] + Cell(cells, k + 3) /\ g[k + 4] = g[k + 3] + Cell(cells, k + 4)
    BY <2>2, <2>3, <2>4, <2>5
  <2> DEFINE a == g[k]
             p == Cell(cells, k + 1)
             q == Cell(cells, k + 2)
             r == Cell(cells, k + 3)
             s == Cell(cells, k + 4)
             e == g[k + 4]
  <2>13. Four(cells, k) = p + q + r + s
    BY DEF Four
  <2>14. e = a + p + q + r + s
    BY <2>12
  <2>15. a \in Nat /\ p \in Nat /\ q \in Nat /\ r \in Nat /\ s \in Nat
    BY <1>5, <2>7
  <2> HIDE DEF a, p, q, r, s, e
  <2>16. p + q + r + s \in Nat /\ e = a + (p + q + r + s)
    BY <2>14, <2>15
  <2>17. QED
    BY <2>11, <2>13, <2>16 DEF a, e
<1>6. /\ 0 \in 0 .. 12 /\ 4 \in 0 .. 12 /\ 8 \in 0 .. 12 /\ 12 \in 0 .. 12
      /\ 0 + 4 = 4 /\ 4 + 4 = 8 /\ 8 + 4 = 12 /\ 12 + 4 = 16
  OBVIOUS
<1>7. Four(cells, 0) \in Nat /\ g[4] = g[0] + Four(cells, 0) /\ g[4] \in Nat
  BY <1>4, <1>5, <1>6
<1>8. Four(cells, 4) \in Nat /\ g[8] = g[4] + Four(cells, 4) /\ g[8] \in Nat
  BY <1>5, <1>6, <1>7
<1>9. Four(cells, 8) \in Nat /\ g[12] = g[8] + Four(cells, 8) /\ g[12] \in Nat
  BY <1>5, <1>6, <1>8
<1>10. Four(cells, 12) \in Nat /\ g[16] = g[12] + Four(cells, 12)
  BY <1>5, <1>6, <1>9
<1>11. QED
  BY <1>4, <1>7, <1>8, <1>9, <1>10

LEMMA WidthsBase ==
    /\ Width(RowBase("regular")) = 124 /\ Width(RowBase("comfortable")) = 139
    /\ Width(RowBase("compact")) = 97 /\ Width(RowBase("minimal")) = 66
<1>1. Width(RowBase("regular")) = 124
  <2> DEFINE cells == <<6, 11, 7, 8, 10, 10, 10, 17, 11, 10, 7, 9, 8>>
  <2>1. RowBase("regular") = cells
    BY DEF RowBase
  <2>2. cells \in Seq(Nat) /\ Len(cells) \in 0 .. 16
    OBVIOUS
  <2>3. /\ Four(cells, 0) = 32 /\ Four(cells, 4) = 47
        /\ Four(cells, 8) = 37 /\ Four(cells, 12) = 8
    BY DEF Cell, Four
  <2> HIDE DEF cells
  <2>4. Width(cells) = 124
    BY <2>2, <2>3, WidthAdds
  <2>5. QED
    BY <2>1, <2>4
<1>2. Width(RowBase("comfortable")) = 139
  <2> DEFINE cells == <<6, 12, 9, 9, 12, 12, 12, 19, 12, 13, 9, 14>>
  <2>1. RowBase("comfortable") = cells
    BY DEF RowBase
  <2>2. cells \in Seq(Nat) /\ Len(cells) \in 0 .. 16
    OBVIOUS
  <2>3. /\ Four(cells, 0) = 36 /\ Four(cells, 4) = 55
        /\ Four(cells, 8) = 48 /\ Four(cells, 12) = 0
    BY DEF Cell, Four
  <2> HIDE DEF cells
  <2>4. Width(cells) = 139
    BY <2>2, <2>3, WidthAdds
  <2>5. QED
    BY <2>1, <2>4
<1>3. Width(RowBase("compact")) = 97
  <2> DEFINE cells == <<5, 10, 7, 7, 10, 10, 14, 7, 9, 7, 11>>
  <2>1. RowBase("compact") = cells
    BY DEF RowBase
  <2>2. cells \in Seq(Nat) /\ Len(cells) \in 0 .. 16
    OBVIOUS
  <2>3. /\ Four(cells, 0) = 29 /\ Four(cells, 4) = 41
        /\ Four(cells, 8) = 27 /\ Four(cells, 12) = 0
    BY DEF Cell, Four
  <2> HIDE DEF cells
  <2>4. Width(cells) = 97
    BY <2>2, <2>3, WidthAdds
  <2>5. QED
    BY <2>1, <2>4
<1>4. Width(RowBase("minimal")) = 66
  <2> DEFINE cells == <<5, 9, 6, 6, 9, 12, 6, 8, 5>>
  <2>1. RowBase("minimal") = cells
    BY DEF RowBase
  <2>2. cells \in Seq(Nat) /\ Len(cells) \in 0 .. 16
    OBVIOUS
  <2>3. /\ Four(cells, 0) = 26 /\ Four(cells, 4) = 35
        /\ Four(cells, 8) = 5 /\ Four(cells, 12) = 0
    BY DEF Cell, Four
  <2> HIDE DEF cells
  <2>4. Width(cells) = 66
    BY <2>2, <2>3, WidthAdds
  <2>5. QED
    BY <2>1, <2>4
<1>5. QED
  BY <1>1, <1>2, <1>3, <1>4

LEMMA WidthsLeveraged ==
    /\ Width(RowLeveraged("regular")) = 131 /\ Width(RowLeveraged("comfortable")) = 135
    /\ Width(RowLeveraged("compact")) = 103 /\ Width(RowLeveraged("minimal")) = 60
<1>1. Width(RowLeveraged("regular")) = 131
  <2> DEFINE cells == <<6, 7, 11, 7, 8, 10, 10, 10, 17, 11, 10, 7, 9, 8>>
  <2>1. RowLeveraged("regular") = cells
    BY DEF RowLeveraged
  <2>2. cells \in Seq(Nat) /\ Len(cells) \in 0 .. 16
    OBVIOUS
  <2>3. /\ Four(cells, 0) = 31 /\ Four(cells, 4) = 38
        /\ Four(cells, 8) = 45 /\ Four(cells, 12) = 17
    BY DEF Cell, Four
  <2> HIDE DEF cells
  <2>4. Width(cells) = 131
    BY <2>2, <2>3, WidthAdds
  <2>5. QED
    BY <2>1, <2>4
<1>2. Width(RowLeveraged("comfortable")) = 135
  <2> DEFINE cells == <<6, 8, 12, 9, 9, 12, 12, 19, 12, 13, 9, 14>>
  <2>1. RowLeveraged("comfortable") = cells
    BY DEF RowLeveraged
  <2>2. cells \in Seq(Nat) /\ Len(cells) \in 0 .. 16
    OBVIOUS
  <2>3. /\ Four(cells, 0) = 35 /\ Four(cells, 4) = 52
        /\ Four(cells, 8) = 48 /\ Four(cells, 12) = 0
    BY DEF Cell, Four
  <2> HIDE DEF cells
  <2>4. Width(cells) = 135
    BY <2>2, <2>3, WidthAdds
  <2>5. QED
    BY <2>1, <2>4
<1>3. Width(RowLeveraged("compact")) = 103
  <2> DEFINE cells == <<5, 6, 10, 7, 7, 10, 10, 14, 7, 9, 7, 11>>
  <2>1. RowLeveraged("compact") = cells
    BY DEF RowLeveraged
  <2>2. cells \in Seq(Nat) /\ Len(cells) \in 0 .. 16
    OBVIOUS
  <2>3. /\ Four(cells, 0) = 28 /\ Four(cells, 4) = 41
        /\ Four(cells, 8) = 34 /\ Four(cells, 12) = 0
    BY DEF Cell, Four
  <2> HIDE DEF cells
  <2>4. Width(cells) = 103
    BY <2>2, <2>3, WidthAdds
  <2>5. QED
    BY <2>1, <2>4
<1>4. Width(RowLeveraged("minimal")) = 60
  <2> DEFINE cells == <<5, 6, 9, 9, 12, 6, 8, 5>>
  <2>1. RowLeveraged("minimal") = cells
    BY DEF RowLeveraged
  <2>2. cells \in Seq(Nat) /\ Len(cells) \in 0 .. 16
    OBVIOUS
  <2>3. /\ Four(cells, 0) = 29 /\ Four(cells, 4) = 31
        /\ Four(cells, 8) = 0 /\ Four(cells, 12) = 0
    BY DEF Cell, Four
  <2> HIDE DEF cells
  <2>4. Width(cells) = 60
    BY <2>2, <2>3, WidthAdds
  <2>5. QED
    BY <2>1, <2>4
<1>5. QED
  BY <1>1, <1>2, <1>3, <1>4

LEMMA WidthsCombined ==
    /\ Width(RowCombined("regular")) = 159 /\ Width(RowCombined("comfortable")) = 166
    /\ Width(RowCombined("compact")) = 114 /\ Width(RowCombined("minimal")) = 66
<1>1. Width(RowCombined("regular")) = 159
  <2> DEFINE cells == <<6, 11, 7, 8, 10, 10, 10, 17, 11, 7, 17, 11, 10, 7, 9, 8>>
  <2>1. RowCombined("regular") = cells
    BY DEF RowCombined
  <2>2. cells \in Seq(Nat) /\ Len(cells) \in 0 .. 16
    OBVIOUS
  <2>3. /\ Four(cells, 0) = 32 /\ Four(cells, 4) = 47
        /\ Four(cells, 8) = 46 /\ Four(cells, 12) = 34
    BY DEF Cell, Four
  <2> HIDE DEF cells
  <2>4. Width(cells) = 159
    BY <2>2, <2>3, WidthAdds
  <2>5. QED
    BY <2>1, <2>4
<1>2. Width(RowCombined("comfortable")) = 166
  <2> DEFINE cells == <<6, 12, 9, 9, 12, 12, 19, 12, 9, 18, 12, 13, 9, 14>>
  <2>1. RowCombined("comfortable") = cells
    BY DEF RowCombined
  <2>2. cells \in Seq(Nat) /\ Len(cells) \in 0 .. 16
    OBVIOUS
  <2>3. /\ Four(cells, 0) = 36 /\ Four(cells, 4) = 55
        /\ Four(cells, 8) = 52 /\ Four(cells, 12) = 23
    BY DEF Cell, Four
  <2> HIDE DEF cells
  <2>4. Width(cells) = 166
    BY <2>2, <2>3, WidthAdds
  <2>5. QED
    BY <2>1, <2>4
<1>3. Width(RowCombined("compact")) = 114
  <2> DEFINE cells == <<5, 10, 7, 7, 10, 14, 7, 6, 14, 7, 9, 7, 11>>
  <2>1. RowCombined("compact") = cells
    BY DEF RowCombined
  <2>2. cells \in Seq(Nat) /\ Len(cells) \in 0 .. 16
    OBVIOUS
  <2>3. /\ Four(cells, 0) = 29 /\ Four(cells, 4) = 37
        /\ Four(cells, 8) = 37 /\ Four(cells, 12) = 11
    BY DEF Cell, Four
  <2> HIDE DEF cells
  <2>4. Width(cells) = 114
    BY <2>2, <2>3, WidthAdds
  <2>5. QED
    BY <2>1, <2>4
<1>4. Width(RowCombined("minimal")) = 66
  <2> DEFINE cells == <<5, 9, 6, 6, 9, 12, 6, 8, 5>>
  <2>1. RowCombined("minimal") = cells
    BY DEF RowCombined
  <2>2. cells \in Seq(Nat) /\ Len(cells) \in 0 .. 16
    OBVIOUS
  <2>3. /\ Four(cells, 0) = 26 /\ Four(cells, 4) = 35
        /\ Four(cells, 8) = 5 /\ Four(cells, 12) = 0
    BY DEF Cell, Four
  <2> HIDE DEF cells
  <2>4. Width(cells) = 66
    BY <2>2, <2>3, WidthAdds
  <2>5. QED
    BY <2>1, <2>4
<1>5. QED
  BY <1>1, <1>2, <1>3, <1>4

\* The headings of the two wide layouts.
LEMMA WidthsWideHeaders ==
    /\ Width(HeaderBase("regular")) = 125 /\ Width(HeaderBase("comfortable")) = 140
    /\ Width(HeaderLeveraged("regular")) = 132 /\ Width(HeaderLeveraged("comfortable")) = 136
    /\ Width(HeaderCombined("regular")) = 160 /\ Width(HeaderCombined("comfortable")) = 167
<1>1. Width(HeaderBase("regular")) = 125
  <2> DEFINE cells == <<6, 11, 7, 8, 10, 10, 10, 17, 12, 10, 7, 9, 8>>
  <2>1. HeaderBase("regular") = cells
    BY DEF HeaderBase
  <2>2. cells \in Seq(Nat) /\ Len(cells) \in 0 .. 16
    OBVIOUS
  <2>3. /\ Four(cells, 0) = 32 /\ Four(cells, 4) = 47
        /\ Four(cells, 8) = 38 /\ Four(cells, 12) = 8
    BY DEF Cell, Four
  <2> HIDE DEF cells
  <2>4. Width(cells) = 125
    BY <2>2, <2>3, WidthAdds
  <2>5. QED
    BY <2>1, <2>4
<1>2. Width(HeaderBase("comfortable")) = 140
  <2> DEFINE cells == <<6, 12, 9, 9, 12, 12, 12, 19, 13, 13, 9, 14>>
  <2>1. HeaderBase("comfortable") = cells
    BY DEF HeaderBase
  <2>2. cells \in Seq(Nat) /\ Len(cells) \in 0 .. 16
    OBVIOUS
  <2>3. /\ Four(cells, 0) = 36 /\ Four(cells, 4) = 55
        /\ Four(cells, 8) = 49 /\ Four(cells, 12) = 0
    BY DEF Cell, Four
  <2> HIDE DEF cells
  <2>4. Width(cells) = 140
    BY <2>2, <2>3, WidthAdds
  <2>5. QED
    BY <2>1, <2>4
<1>3. Width(HeaderLeveraged("regular")) = 132
  <2> DEFINE cells == <<6, 7, 11, 7, 8, 10, 10, 10, 17, 12, 10, 7, 9, 8>>
  <2>1. HeaderLeveraged("regular") = cells
    BY DEF HeaderLeveraged
  <2>2. cells \in Seq(Nat) /\ Len(cells) \in 0 .. 16
    OBVIOUS
  <2>3. /\ Four(cells, 0) = 31 /\ Four(cells, 4) = 38
        /\ Four(cells, 8) = 46 /\ Four(cells, 12) = 17
    BY DEF Cell, Four
  <2> HIDE DEF cells
  <2>4. Width(cells) = 132
    BY <2>2, <2>3, WidthAdds
  <2>5. QED
    BY <2>1, <2>4
<1>4. Width(HeaderLeveraged("comfortable")) = 136
  <2> DEFINE cells == <<6, 8, 12, 9, 9, 12, 12, 19, 13, 13, 9, 14>>
  <2>1. HeaderLeveraged("comfortable") = cells
    BY DEF HeaderLeveraged
  <2>2. cells \in Seq(Nat) /\ Len(cells) \in 0 .. 16
    OBVIOUS
  <2>3. /\ Four(cells, 0) = 35 /\ Four(cells, 4) = 52
        /\ Four(cells, 8) = 49 /\ Four(cells, 12) = 0
    BY DEF Cell, Four
  <2> HIDE DEF cells
  <2>4. Width(cells) = 136
    BY <2>2, <2>3, WidthAdds
  <2>5. QED
    BY <2>1, <2>4
<1>5. Width(HeaderCombined("regular")) = 160
  <2> DEFINE cells == <<6, 11, 7, 8, 10, 10, 10, 17, 12, 7, 17, 11, 10, 7, 9, 8>>
  <2>1. HeaderCombined("regular") = cells
    BY DEF HeaderCombined
  <2>2. cells \in Seq(Nat) /\ Len(cells) \in 0 .. 16
    OBVIOUS
  <2>3. /\ Four(cells, 0) = 32 /\ Four(cells, 4) = 47
        /\ Four(cells, 8) = 47 /\ Four(cells, 12) = 34
    BY DEF Cell, Four
  <2> HIDE DEF cells
  <2>4. Width(cells) = 160
    BY <2>2, <2>3, WidthAdds
  <2>5. QED
    BY <2>1, <2>4
<1>6. Width(HeaderCombined("comfortable")) = 167
  <2> DEFINE cells == <<6, 12, 9, 9, 12, 12, 19, 13, 9, 18, 12, 13, 9, 14>>
  <2>1. HeaderCombined("comfortable") = cells
    BY DEF HeaderCombined
  <2>2. cells \in Seq(Nat) /\ Len(cells) \in 0 .. 16
    OBVIOUS
  <2>3. /\ Four(cells, 0) = 36 /\ Four(cells, 4) = 56
        /\ Four(cells, 8) = 52 /\ Four(cells, 12) = 23
    BY DEF Cell, Four
  <2> HIDE DEF cells
  <2>4. Width(cells) = 167
    BY <2>2, <2>3, WidthAdds
  <2>5. QED
    BY <2>1, <2>4
<1>7. QED
  BY <1>1, <1>2, <1>3, <1>4, <1>5, <1>6

\* The headings are as wide as the rows, and one column wider in the wide layouts.
LEMMA HeaderShifted ==
    ASSUME NEW content \in {"base", "leveraged", "combined"},
           NEW layoutOf \in {"regular", "comfortable", "compact", "minimal"}
    PROVE  /\ HeaderWidth(content, layoutOf) = RowWidth(content, layoutOf) + Shift(layoutOf)
           /\ RowWidth(content, layoutOf) \in Nat
<1>1. CASE layoutOf \in {"compact", "minimal"}
  <2>1. /\ HeaderBase(layoutOf) = RowBase(layoutOf)
        /\ HeaderLeveraged(layoutOf) = RowLeveraged(layoutOf)
        /\ HeaderCombined(layoutOf) = RowCombined(layoutOf)
    BY <1>1 DEF HeaderBase, RowBase, HeaderLeveraged, RowLeveraged, HeaderCombined, RowCombined
  <2>2. HeaderWidth(content, layoutOf) = RowWidth(content, layoutOf)
    BY <2>1 DEF HeaderWidth, RowWidth
  <2>3. RowWidth(content, layoutOf) \in Nat
    BY <1>1, WidthsBase, WidthsLeveraged, WidthsCombined DEF RowWidth
  <2>4. QED
    BY <1>1, <2>2, <2>3 DEF Shift
<1>2. CASE layoutOf \in {"regular", "comfortable"}
  <2>1. CASE content = "base"
    BY <1>2, <2>1, WidthsBase, WidthsWideHeaders DEF HeaderWidth, RowWidth, Shift
  <2>2. CASE content = "leveraged"
    BY <1>2, <2>2, WidthsLeveraged, WidthsWideHeaders DEF HeaderWidth, RowWidth, Shift
  <2>3. CASE content = "combined"
    BY <1>2, <2>3, WidthsCombined, WidthsWideHeaders DEF HeaderWidth, RowWidth, Shift
  <2>4. QED
    BY <2>1, <2>2, <2>3
<1>3. QED
  BY <1>1, <1>2

LEMMA LayoutOf == \A columns, content : RotationLayout(columns, content)
                                         \in {"regular", "comfortable", "compact", "minimal"}
BY DEF RotationLayout

\* The layout of a window is no wider than it, but for the combined table at 165 and its
\* headings at 166.
LEMMA RowFits ==
    ASSUME NEW columns \in Nat, columns >= 66, NEW content \in {"base", "leveraged", "combined"},
           ~(content = "combined" /\ columns = 165)
    PROVE  /\ RowWidth(content, RotationLayout(columns, content)) <= columns
           /\ ~(content = "combined" /\ columns = 166) =>
                  HeaderWidth(content, RotationLayout(columns, content)) <= columns
<1> DEFINE bound == IF content = "combined" THEN 165 ELSE 150
           width(layoutOf) == RowWidth(content, layoutOf)
           headings(layoutOf) == HeaderWidth(content, layoutOf)
<1>1. /\ columns >= 180 => RotationLayout(columns, content) = "regular"
      /\ columns \in bound .. 179 => RotationLayout(columns, content) = "comfortable"
      /\ columns \in 116 .. bound - 1 => RotationLayout(columns, content) = "compact"
      /\ columns < 116 => RotationLayout(columns, content) = "minimal"
  BY DEF RotationLayout
<1>2. /\ width("regular") <= 179 /\ width("compact") <= 116 /\ width("minimal") <= 66
      /\ width("comfortable") <= IF content = "combined" THEN 166 ELSE 149
      /\ \A layoutOf \in {"regular", "comfortable", "compact", "minimal"} : width(layoutOf) \in Nat
  <2>1. CASE content = "base"
    BY <2>1, WidthsBase DEF RowWidth
  <2>2. CASE content = "leveraged"
    BY <2>2, WidthsLeveraged DEF RowWidth
  <2>3. CASE content = "combined"
    BY <2>3, WidthsCombined DEF RowWidth
  <2>4. QED
    BY <2>1, <2>2, <2>3
<1>3. /\ headings("regular") = width("regular") + 1
      /\ headings("comfortable") = width("comfortable") + 1
      /\ headings("compact") = width("compact") /\ headings("minimal") = width("minimal")
  BY <1>2, HeaderShifted DEF Shift
<1> HIDE DEF width, headings
<1>4. \/ columns >= 180 \/ columns \in bound .. 179 \/ columns \in 116 .. bound - 1
      \/ columns < 116
  OBVIOUS
<1>5. CASE columns >= 180
  BY <1>1, <1>2, <1>3, <1>5 DEF width, headings
<1>6. CASE columns \in bound .. 179
  <2>1. columns >= IF content = "combined" THEN 166 ELSE 150
    BY <1>6
  <2>2. width("comfortable") <= columns
    BY <1>2, <2>1
  <2>3. ~(content = "combined" /\ columns = 166) => headings("comfortable") <= columns
    BY <1>2, <1>3, <2>1
  <2>4. QED
    BY <1>1, <1>6, <2>2, <2>3 DEF width, headings
<1>7. CASE columns \in 116 .. bound - 1
  <2>1. width("compact") <= columns
    BY <1>2, <1>7
  <2>2. QED
    BY <1>1, <1>3, <1>7, <2>1 DEF width, headings
<1>8. CASE columns < 116
  <2>1. width("minimal") <= columns
    BY <1>2
  <2>2. QED
    BY <1>1, <1>3, <1>8, <2>1 DEF width, headings
<1>9. QED
  BY <1>4, <1>5, <1>6, <1>7, <1>8

\* In a state of the invariant the shown page fits a terminal that is large enough.
LEMMA FitsOfState == PagesInv => FitsTerminal
<1> DEFINE content == Content(Tab[tab])
           layoutOf == RotationLayout(lastSize.columns, content)
           shown == PagesOf(scan, tab, lastSize)
           capacity == BodyCapacity(ViewportRows(lastSize))
<1>1. SUFFICES ASSUME PagesInv, interactive, scan # 0, Tab[tab] \in PagedTabs, Roomy(lastSize)
               PROVE  /\ 4 + Len(shown[page + 1]) < lastSize.rows
                      /\ HeaderWidth(content, layoutOf)
                             = RowWidth(content, layoutOf) + Shift(layoutOf)
                      /\ RowsTooWide(lastSize, content)
                             \/ RowWidth(content, layoutOf) <= lastSize.columns
                      /\ HeaderTooWide(lastSize, content)
                             \/ HeaderWidth(content, layoutOf) <= lastSize.columns
  BY DEF FitsTerminal
<1>2. /\ scan \in 1 .. Len(Scans) /\ tab \in TabNumber /\ lastSize \in Size \cup {DefaultSize}
      /\ page \in Nat /\ Counted
  BY <1>1 DEF PagesInv, TypeOK
<1>3. /\ lastSize.rows \in Nat /\ lastSize.columns \in Nat
      /\ lastSize.rows >= 7 /\ lastSize.columns >= 66
  BY <1>1, <1>2, SizesTyped DEF Roomy
<1>4. 4 + Len(shown[page + 1]) < lastSize.rows
  <2>1. capacity = lastSize.rows - 5 /\ capacity \in Nat /\ ~(capacity < 2)
    BY <1>2, <1>3, SizesTyped
  <2>2. page < Len(shown)
    BY <1>1, <1>2 DEF Counted
  <2>3. shown = RotationPages(Rankings(scan, tab), content, capacity)
    BY <1>1 DEF PagesOf, Pages
  <2>4. DistinctChanges(Rankings(scan, tab))
    BY <1>2, ScanOf
  <2>5. Len(shown) \in Nat \ {0}
    BY <1>2, PagesCounted
  <2> HIDE DEF shown, capacity, content
  <2>6. \A p \in DOMAIN shown : Len(shown[p]) <= capacity
    BY <2>1, <2>3, <2>4, PagesHoldTheRows
  <2>7. shown \in Book
    <3>1. capacity \in Int
      BY <2>1
    <3>2. QED
      BY <2>3, <2>4, <3>1, PagesLaid
  <2>8. page + 1 \in DOMAIN shown /\ Len(shown[page + 1]) \in Nat
    <3>1. shown \in Seq(AnyPage) /\ page + 1 \in 1 .. Len(shown)
      BY <1>2, <2>2, <2>5, <2>7, InBook
    <3>2. shown[page + 1] \in AnyPage
      BY <3>1
    <3>3. QED
      BY <3>1, <3>2 DEF AnyPage
  <2>9. QED
    BY <1>3, <2>1, <2>6, <2>8
<1>5. content \in {"base", "leveraged", "combined"}
  BY DEF Content
<1> HIDE DEF content
<1>6. HeaderWidth(content, layoutOf) = RowWidth(content, layoutOf) + Shift(layoutOf)
  BY <1>5, LayoutOf, HeaderShifted
<1>7. RowsTooWide(lastSize, content) \/ RowWidth(content, layoutOf) <= lastSize.columns
  BY <1>3, <1>5, RowFits DEF RowsTooWide
<1>8. HeaderTooWide(lastSize, content) \/ HeaderWidth(content, layoutOf) <= lastSize.columns
  <2>1. ~HeaderTooWide(lastSize, content) => ~(content = "combined" /\ lastSize.columns \in {165, 166})
    BY DEF HeaderTooWide
  <2>2. QED
    BY <1>3, <1>5, <2>1, RowFits
<1>9. QED
  BY <1>4, <1>6, <1>7, <1>8

\* A paged tab fits its terminal, for any scan, terminal size that is large enough and
\* sequence of keys, updates and resizes: a row is left spare, the rows are as wide as
\* their column names, up to the shift of the wide layouts, and both are no wider than
\* the window, but for the sector table at 165 and 166 columns.
THEOREM FitsStays == Spec => []FitsTerminal
BY FitsOfState, PagesHold, PTL

=============================================================================
