-------------------------- MODULE TerminalDashboard --------------------------
(***************************************************************************)
(* The interactive terminal dashboard (TerminalDashboard.cpp) and its key  *)
(* decoder (TerminalKeyDecoder.cpp).  Scans are updated by the monitor's   *)
(* threads; the input thread reads key bytes and switches tabs and pages.  *)
(* Every access is under the dashboard's mutex, between any two bytes.  A   *)
(* redirected output has no input thread and gets a log of the bars.       *)
(***************************************************************************)
EXTENDS ConsoleLayout

CONSTANTS
    Key,        (* the keys that are pressed                                  *)
    Size,       (* the sizes [columns, rows] the terminal may be given        *)
    Scans       (* the scans of the run, [bar, sectors, rankings], in order   *)

ASSUME KeyAssumption ==
    Key \subseteq {"right", "left", "control-right", "tab", "4", "[", "]", "q", "escape"}
ASSUME SizeAssumption == \A s \in Size : s.columns \in Nat \ {0} /\ s.rows \in Nat \ {0}
\* Changes are distinct: std::ranges::sort leaves the order of equal ones open.
RotationRank == [symbol : STRING, signal : {"strong", "neutral", "weak"}, change : Int,
                 leveraged : BOOLEAN]
ASSUME ScansAssumption ==
    /\ Scans \in Seq([bar : Int, sectors : Seq(RotationRank), rankings : Seq(RotationRank)])
    /\ \A n \in DOMAIN Scans : \A ranks \in {Scans[n].sectors, Scans[n].rankings} :
           \A i, j \in DOMAIN ranks : i # j => ranks[i].change # ranks[j].change

VARIABLES
    phase,      (* started_, and whether stop() has run                       *)
    interactive,(* interactive_                                               *)
    scan,       (* latest_scan_, an index into Scans, 0 when there is none    *)
    tab,        (* active_tab_                                                *)
    page,       (* active_page_                                               *)
    pageCount,  (* page_count_                                                *)
    size,       (* the size of the terminal                                   *)
    lastSize,   (* last_terminal_size_                                        *)
    decoder,    (* TerminalKeyDecoder::state_                                 *)
    pressed,    (* the key being read, with the bytes of it still to come     *)
    acted,      (* the actions its bytes have produced so far                 *)
    screen      (* what was last printed: the tab, page, scan and size of it  *)

layout == <<tab, page, pageCount, lastSize, screen>>
keys == <<decoder, pressed, acted>>
vars == <<phase, interactive, scan, size, layout, keys>>

Tab == <<"market", "sectors", "industries", "leveraged", "trade">>
TabNumber == 1 .. Len(Tab)
DefaultSize == [columns |-> 120, rows |-> 30]
Blank == [tab |-> 0, page |-> 0, scan |-> 0, size |-> DefaultSize]

NextTab(t) == (t % Len(Tab)) + 1

\* Mutation: the first tab has a previous one.
PreviousTabUnwrapped(t) == t - 1

PreviousTab(t) == ((t - 2) % Len(Tab)) + 1

-----------------------------------------------------------------------------
(* Keys: what the terminal sends for one, and what it means.               *)

Bytes(key) ==
    CASE key = "right" -> <<"esc", "[", "C">>
      [] key = "left" -> <<"esc", "[", "D">>
      [] key = "control-right" -> <<"esc", "[", "1", ";", "5", "C">>
      [] key = "escape" -> <<"esc">>
      [] OTHER -> <<key>>

None == "none"
DecodePlain(byte) ==
    CASE byte = "tab" -> "next tab"
      [] byte \in {"1", "4", "5"} -> byte
      [] byte = "[" -> "previous page"
      [] byte = "]" -> "next page"
      [] OTHER -> None

Meaning(key) ==
    CASE key \in {"right", "control-right"} -> "next tab"
      [] key = "left" -> "previous tab"
      [] OTHER -> DecodePlain(key)

\* A control sequence ends with a byte from '@' to '~'.
Terminates(byte) == byte \notin {"1", "4", ";", "5", "tab", "esc"}

\* Mutation: any byte ends a control sequence.
ConsumeThree(state, byte) ==
    CASE state = "plain" /\ byte = "esc" -> <<"escape", None>>
      [] state = "escape" /\ byte = "[" -> <<"control", None>>
      [] state = "control" ->
             <<"plain", IF byte = "C" THEN "next tab"
                        ELSE IF byte = "D" THEN "previous tab" ELSE None>>
      [] OTHER -> <<"plain", DecodePlain(byte)>>

\* TerminalKeyDecoder::consume: the next state and the action, if any.
Consume(state, byte) ==
    CASE state = "plain" /\ byte = "esc" -> <<"escape", None>>
      [] state = "plain" /\ byte # "esc" -> <<"plain", DecodePlain(byte)>>
      [] state = "escape" /\ byte = "[" -> <<"control", None>>
      [] state = "escape" /\ byte # "[" -> <<"plain", DecodePlain(byte)>>
      [] state = "control" /\ ~Terminates(byte) -> <<"control", None>>
      [] state = "control" /\ Terminates(byte) ->
             <<"plain", IF byte = "C" THEN "next tab"
                        ELSE IF byte = "D" THEN "previous tab" ELSE None>>

-----------------------------------------------------------------------------
(* Rendering.                                                              *)

\* The rankings a tab shows.
Rankings(number, t) == IF Tab[t] = "sectors" THEN Scans[number].sectors
                       ELSE Scans[number].rankings

\* One row is the dashboard's own and one is spare.
ViewportRows(s) == IF s.rows > 2 THEN s.rows - 2 ELSE 5

PagesOf(number, t, s) == Pages(Rankings(number, t), Tab[t], ViewportRows(s))

\* render_locked: the printer lays the tab out and clamps the page asked for; a
\* redirected output gets every tab whole.
Render(newScan, newTab, newPage) ==
    /\ scan' = newScan
    /\ tab' = newTab
    /\ IF newScan = 0 \/ ~interactive
       THEN /\ page' = newPage
            /\ screen' = IF newScan = 0 THEN screen ELSE [Blank EXCEPT !.scan = newScan]
            /\ UNCHANGED <<pageCount, lastSize>>
       ELSE /\ pageCount' = Len(PagesOf(newScan, newTab, size))
            /\ page' = PageIndex(newPage, pageCount')
            /\ lastSize' = size
            /\ screen' = [tab |-> newTab, page |-> page', scan |-> newScan, size |-> size]

SelectTab(t) == IF t = tab THEN UNCHANGED <<scan, layout>> ELSE Render(scan, t, 0)

Turns(direction) == \/ direction < 0 /\ page > 0
                    \/ direction > 0 /\ page + 1 < pageCount

\* Mutation: the change is left to the next update to render.
ChangePageSilently(direction) ==
    /\ page' = IF Turns(direction) THEN page + direction ELSE page
    /\ UNCHANGED <<scan, tab, pageCount, lastSize, screen>>

ChangePage(direction) == IF Turns(direction) THEN Render(scan, tab, page + direction)
                         ELSE UNCHANGED <<scan, layout>>

Apply(action) ==
    CASE action = "next tab" -> SelectTab(NextTab(tab))
      [] action = "previous tab" -> SelectTab(PreviousTab(tab))
      [] action \in {"1", "4", "5"} ->
             SelectTab(CASE action = "1" -> 1 [] action = "4" -> 4 [] action = "5" -> 5)
      [] action = "previous page" -> ChangePage(-1)
      [] action = "next page" -> ChangePage(1)
      [] OTHER -> UNCHANGED <<scan, layout>>

-----------------------------------------------------------------------------
(* Actions.                                                                *)

\* start: interactive only on a terminal that can be configured.
Start ==
    /\ phase = "created"
    /\ phase' = "started"
    /\ interactive' \in BOOLEAN
    /\ UNCHANGED <<scan, size, layout, keys>>

\* update, by the monitor thread or the refresh thread: a redirected output is a log
\* of the completed bars.
Update(number) ==
    /\ phase = "started"
    /\ IF ~interactive /\ scan # 0 /\ Scans[scan].bar = Scans[number].bar
       THEN scan' = number /\ UNCHANGED layout
       ELSE Render(number, tab, page)
    /\ UNCHANGED <<phase, interactive, size, keys>>

\* The user gives the window another size ...
Resize(s) ==
    /\ size' = s
    /\ UNCHANGED <<phase, interactive, scan, layout, keys>>

\* ... and the input thread sees it when no byte is waiting: render_if_resized.
RenderIfResized ==
    /\ phase = "started"
    /\ interactive
    /\ scan # 0
    /\ size # lastSize
    /\ Render(scan, tab, page)
    /\ UNCHANGED <<phase, interactive, size, keys>>

Press(key) ==
    /\ phase = "started"
    /\ interactive
    /\ pressed.bytes = <<>>
    /\ pressed' = [key |-> key, bytes |-> Bytes(key)]
    /\ acted' = <<>>
    /\ UNCHANGED <<phase, interactive, scan, size, layout, decoder>>

\* One byte of what read returned; a key may be split over several reads.
InputByte ==
    /\ phase = "started"
    /\ pressed.bytes # <<>>
    /\ LET consumed == Consume(decoder, Head(pressed.bytes))
           action == consumed[2]
       IN /\ decoder' = consumed[1]
          /\ acted' = IF action = None THEN acted ELSE Append(acted, action)
          /\ Apply(action)
    /\ pressed' = [pressed EXCEPT !.bytes = Tail(@)]
    /\ UNCHANGED <<phase, interactive, size>>

\* stop, when the threads that update have been joined.
Stop ==
    /\ phase = "started"
    /\ phase' = "stopped"
    /\ UNCHANGED <<interactive, scan, size, layout, keys>>

-----------------------------------------------------------------------------

Init ==
    /\ phase = "created"
    /\ interactive = FALSE
    /\ scan = 0
    /\ tab = 1
    /\ page = 0
    /\ pageCount = 1
    /\ size \in Size
    /\ lastSize = DefaultSize
    /\ decoder = "plain"
    /\ pressed = [key |-> None, bytes |-> <<>>]
    /\ acted = <<>>
    /\ screen = Blank

Next ==
    \/ Start
    \/ \E number \in DOMAIN Scans : Update(number)
    \/ \E s \in Size : Resize(s)
    \/ RenderIfResized
    \/ \E key \in Key : Press(key)
    \/ InputByte
    \/ Stop

Spec == Init /\ [][Next]_vars

-----------------------------------------------------------------------------
(* Properties.                                                             *)

\* Every variable keeps its type.
TypeOK ==
    /\ phase \in {"created", "started", "stopped"}
    /\ interactive \in BOOLEAN
    /\ scan \in 0 .. Len(Scans)
    /\ tab \in TabNumber
    /\ page \in Nat
    /\ pageCount \in Nat \ {0}
    /\ {size, lastSize} \subseteq Size \cup {DefaultSize}
    /\ decoder \in {"plain", "escape", "control"}
    /\ pressed.key \in Key \cup {None}
    /\ screen.tab \in TabNumber \cup {0}

\* What was printed is what is in hand: on a terminal the tab, the page and the scan,
\* since no path changes one of them and leaves without rendering; in a log the bar,
\* "a bar-by-bar log, not a one-second P&L ticker" (TerminalDashboard.cpp).
ScreenCurrent ==
    scan # 0 => IF interactive
                THEN screen = [tab |-> tab, page |-> page, scan |-> scan, size |-> lastSize]
                ELSE Scans[screen.scan].bar = Scans[scan].bar

\* Once the bytes of a key have been read, it has done what it means, once,
\* wherever the reads were split: TerminalKeyDecoder.cpp, "A standalone Escape
\* followed by a normal key must not swallow that key".
KeysDecoded ==
    pressed.bytes = <<>> =>
        acted = IF pressed.key = None \/ Meaning(pressed.key) = None
                THEN <<>> ELSE <<Meaning(pressed.key)>>

\* The rows of a page, and of the pages one after the other.
Rows(lines) ==
    LET upTo[n \in 0 .. Len(lines)] ==
          IF n = 0 THEN <<>>
          ELSE IF lines[n].kind = "row" THEN Append(upTo[n - 1], lines[n]) ELSE upTo[n - 1]
    IN upTo[Len(lines)]
RowsOn(pages) ==
    LET upTo[n \in 0 .. Len(pages)] ==
          IF n = 0 THEN <<>> ELSE upTo[n - 1] \o Rows(pages[n])
    IN upTo[Len(pages)]
RowsOfGroups(rankings, content) ==
    LET rows(group) == [i \in DOMAIN ResponsiveRanks(rankings, content, group) |->
                           Line("row", group, ResponsiveRanks(rankings, content, group)[i].symbol)]
    IN rows("strong") \o rows("neutral") \o rows("weak")

\* A row stands under the title of its group and the names of its columns.
Headed(lines) ==
    \A i \in DOMAIN lines : lines[i].kind = "row" =>
        \E t \in 1 .. i - 2 : /\ lines[t].kind \in {"title", "continued"}
                              /\ lines[t + 1].kind = "header"
                              /\ \A j \in t .. i : lines[j].group = lines[i].group

\* Turning the pages shows every row of the tab once, in the order of its groups,
\* wherever the page breaks fall; the page in hand exists however the table shrinks
\* between two keys; no page is longer than its share of the terminal, and where
\* there is room for more than two lines every row stands under its group's title.
\* The redirected log holds its leveraged table in one page.
PagesPartitionRows ==
    scan # 0 =>
        IF ~interactive
        THEN /\ Len(LogPages(Scans[scan].rankings)) = 1
             /\ RowsOn(LogPages(Scans[scan].rankings))
                    = RowsOfGroups(Scans[scan].rankings, "leveraged")
        ELSE /\ page < pageCount
             /\ Tab[tab] \in PagedTabs =>
                    LET shown == PagesOf(scan, tab, lastSize)
                        capacity == BodyCapacity(ViewportRows(lastSize))
                    IN /\ pageCount = Len(shown)
                       /\ RowsOn(shown) = RowsOfGroups(Rankings(scan, tab), Content(Tab[tab]))
                       /\ \A p \in DOMAIN shown :
                              /\ shown[p] # <<>>
                              /\ Len(shown[p]) <= capacity
                              /\ capacity > 2 => Headed(shown[p])

\* The smallest terminal the layouts are made for.
Roomy(s) == s.rows >= 7 /\ s.columns >= 66

\* The widths at which the comfortable sector table is chosen and does not fit: its
\* rows are 166 columns wide and its headings 167.
RowsTooWide(s, content) == content = "combined" /\ s.columns = 165
HeaderTooWide(s, content) == content = "combined" /\ s.columns \in 165 .. 166

\* The columns right of "entry state" by which the headings are shifted.
Shift(layoutOf) == IF layoutOf \in {"regular", "comfortable"} THEN 1 ELSE 0

\* A paged tab fits the terminal: its lines leave a row spare, "so a trailing newline
\* cannot scroll the alternate screen", its rows stand under the column names, up to
\* the one column of Shift, and both are no wider than the window, but for the two
\* widths named: "Responsive rows should already fit" (TerminalDashboard.cpp).
FitsTerminal ==
    (interactive /\ scan # 0 /\ Tab[tab] \in PagedTabs /\ Roomy(lastSize)) =>
        LET content == Content(Tab[tab])
            layoutOf == RotationLayout(lastSize.columns, content)
            printed == 4 + Len(PagesOf(scan, tab, lastSize)[page + 1])
        IN /\ printed < lastSize.rows
           /\ HeaderWidth(content, layoutOf) = RowWidth(content, layoutOf) + Shift(layoutOf)
           /\ RowsTooWide(lastSize, content) \/ RowWidth(content, layoutOf) <= lastSize.columns
           /\ HeaderTooWide(lastSize, content)
                  \/ HeaderWidth(content, layoutOf) <= lastSize.columns

=============================================================================
