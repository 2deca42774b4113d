---------------------------- MODULE ConsoleLayout ----------------------------
(***************************************************************************)
(* What the console printer lays out (ConsoleScanPrinter.cpp,              *)
(* RotationGrouper.cpp): which rows a tab has, in which order, on which    *)
(* page, and how wide a table line is.  The texts of the cells are left    *)
(* out: a cell is the width it is padded to, with the blanks before it.    *)
(***************************************************************************)
EXTENDS Integers, Sequences, FiniteSets

PagedTabs == {"sectors", "industries", "leveraged"}

\* RotationContent, of a paged tab.
Content(tab) == CASE tab = "sectors" -> "combined"
                  [] tab = "leveraged" -> "leveraged"
                  [] OTHER -> "base"

-----------------------------------------------------------------------------
(* Rows.  A rank is [symbol, signal, change, leveraged].                   *)

\* RotationGrouper::group: the leaders of a group first, for the weak the laggards.
RotationGroup(rankings, group) == {i \in DOMAIN rankings : rankings[i].signal = group}
Precedes(a, b, group) == IF group = "weak" THEN a.change < b.change ELSE a.change > b.change

\* responsive_ranks, those of one group: the leveraged tab leaves out the
\* symbols that have no leveraged ETF.
ResponsiveRanks(rankings, content, group) ==
    LET rows == {i \in RotationGroup(rankings, group) :
                     content = "leveraged" => rankings[i].leveraged}
        ahead(i) == {j \in rows : Precedes(rankings[j], rankings[i], group)}
    IN [place \in 1 .. Cardinality(rows) |->
            rankings[CHOOSE i \in rows : Cardinality(ahead(i)) = place - 1]]

-----------------------------------------------------------------------------
(* Pages: sequences of lines, filled from the last page on.                *)

Line(kind, group, symbol) == [kind |-> kind, group |-> group, symbol |-> symbol]

LastOf(pages) == pages[Len(pages)]

Put(pages, line, capacity) ==
    IF Len(LastOf(pages)) >= capacity
    THEN Append(pages, <<line>>)
    ELSE [pages EXCEPT ![Len(pages)] = Append(LastOf(pages), line)]

PutAll(pages, lines, capacity) ==
    LET after[n \in 0 .. Len(lines)] ==
          IF n = 0 THEN pages ELSE Put(after[n - 1], lines[n], capacity)
    IN after[Len(lines)]

\* A row that finds its page full opens one and repeats the headings.
PutRow(pages, group, rank, capacity) ==
    LET full == Len(LastOf(pages)) >= capacity
        headings == IF capacity >= 3
                    THEN <<Line("continued", group, ""), Line("header", group, "")>>
                    ELSE <<>>
        opened == IF full THEN PutAll(Append(pages, <<>>), headings, capacity) ELSE pages
    IN Put(opened, Line("row", group, rank.symbol), capacity)

PutRows(pages, group, ranks, capacity) ==
    LET after[n \in 0 .. Len(ranks)] ==
          IF n = 0 THEN pages ELSE PutRow(after[n - 1], group, ranks[n], capacity)
    IN after[Len(ranks)]

\* The lines of a group before its rows, on a page that begins with them or not.
GroupHeadings(page, group, ranks, capacity) ==
    LET title == Line("title", group, "")
        headings == IF ranks = <<>> THEN <<title, Line("none", group, "")>>
                    ELSE IF capacity >= 3 THEN <<title, Line("header", group, "")>>
                    ELSE <<title>>
    IN IF page = <<>> THEN headings ELSE <<Line("blank", group, "")>> \o headings

\* Mutation: a group starts wherever a line still fits.
PutGroupAnywhere(pages, group, ranks, capacity) ==
    PutRows(PutAll(pages, GroupHeadings(LastOf(pages), group, ranks, capacity), capacity),
            group, ranks, capacity)

\* A group starts on a page that has room for its headings and a row.
PutGroup(pages, group, ranks, capacity) ==
    LET start == IF ranks = <<>> THEN 2 ELSE 3
        room == LastOf(pages) = <<>> \/ Len(LastOf(pages)) + 1 + start <= capacity
        placed == IF room THEN pages ELSE Append(pages, <<>>)
    IN PutRows(PutAll(placed, GroupHeadings(LastOf(placed), group, ranks, capacity), capacity),
               group, ranks, capacity)

\* responsive_rotation_pages.
RotationPages(rankings, content, lineCapacity) ==
    LET capacity == IF lineCapacity < 2 THEN 2 ELSE lineCapacity
        put(pages, group) ==
            PutGroup(pages, group, ResponsiveRanks(rankings, content, group), capacity)
    IN put(put(put(<<(<<>>)>>, "strong"), "neutral"), "weak")

-----------------------------------------------------------------------------
(* Widths.                                                                 *)

Width(cells) ==
    LET upTo[n \in 0 .. Len(cells)] == IF n = 0 THEN 0 ELSE upTo[n - 1] + cells[n]
    IN upTo[Len(cells)]

\* Mutation: one threshold for the tables with and without the leveraged columns.
RotationLayoutUniform(columns, content) ==
    CASE columns >= 180 -> "regular"
      [] columns \in 150 .. 179 -> "comfortable"
      [] columns \in 116 .. 149 -> "compact"
      [] OTHER -> "minimal"

\* rotation_layout.
RotationLayout(columns, content) ==
    LET comfortable == IF content = "combined" THEN 165 ELSE 150
    IN CASE columns >= 180 -> "regular"
         [] columns \in comfortable .. 179 -> "comfortable"
         [] columns \in 116 .. comfortable - 1 -> "compact"
         [] OTHER -> "minimal"

\* print_responsive_rotation_header.  A heading longer than its cell is not cut: "entry
\* state", of the two wide layouts, takes one column more than the entry states below.
HeaderBase(layout) ==
    CASE layout = "regular" -> <<6, 11, 7, 8, 10, 10, 10, 17, 12, 10, 7, 9, 8>>
      [] layout = "comfortable" -> <<6, 12, 9, 9, 12, 12, 12, 19, 13, 13, 9, 14>>
      [] layout = "compact" -> <<5, 10, 7, 7, 10, 10, 14, 7, 9, 7, 11>>
      [] layout = "minimal" -> <<5, 9, 6, 6, 9, 12, 6, 8, 5>>

HeaderLeveraged(layout) ==
    CASE layout = "regular" -> <<6, 7, 11, 7, 8, 10, 10, 10, 17, 12, 10, 7, 9, 8>>
      [] layout = "comfortable" -> <<6, 8, 12, 9, 9, 12, 12, 19, 13, 13, 9, 14>>
      [] layout = "compact" -> <<5, 6, 10, 7, 7, 10, 10, 14, 7, 9, 7, 11>>
      [] layout = "minimal" -> <<5, 6, 9, 9, 12, 6, 8, 5>>

HeaderCombined(layout) ==
    CASE layout = "regular" ->
             <<6, 11, 7, 8, 10, 10, 10, 17, 12, 7, 17, 11, 10, 7, 9, 8>>
      [] layout = "comfortable" -> <<6, 12, 9, 9, 12, 12, 19, 13, 9, 18, 12, 13, 9, 14>>
      [] layout = "compact" -> <<5, 10, 7, 7, 10, 14, 7, 6, 14, 7, 9, 7, 11>>
      [] layout = "minimal" -> <<5, 9, 6, 6, 9, 12, 6, 8, 5>>

\* print_responsive_rotation_rank, of values no longer than their cells: the prices,
\* the pairs of relative strengths and the scores are padded and, in places, not cut.
RowBase(layout) ==
    CASE layout = "regular" -> <<6, 11, 7, 8, 10, 10, 10, 17, 11, 10, 7, 9, 8>>
      [] layout = "comfortable" -> <<6, 12, 9, 9, 12, 12, 12, 19, 12, 13, 9, 14>>
      [] layout = "compact" -> <<5, 10, 7, 7, 10, 10, 14, 7, 9, 7, 11>>
      [] layout = "minimal" -> <<5, 9, 6, 6, 9, 12, 6, 8, 5>>

RowLeveraged(layout) ==
    CASE layout = "regular" -> <<6, 7, 11, 7, 8, 10, 10, 10, 17, 11, 10, 7, 9, 8>>
      [] layout = "comfortable" -> <<6, 8, 12, 9, 9, 12, 12, 19, 12, 13, 9, 14>>
      [] layout = "compact" -> <<5, 6, 10, 7, 7, 10, 10, 14, 7, 9, 7, 11>>
      [] layout = "minimal" -> <<5, 6, 9, 9, 12, 6, 8, 5>>

RowCombined(layout) ==
    CASE layout = "regular" ->
             <<6, 11, 7, 8, 10, 10, 10, 17, 11, 7, 17, 11, 10, 7, 9, 8>>
      [] layout = "comfortable" -> <<6, 12, 9, 9, 12, 12, 19, 12, 9, 18, 12, 13, 9, 14>>
      [] layout = "compact" -> <<5, 10, 7, 7, 10, 14, 7, 6, 14, 7, 9, 7, 11>>
      [] layout = "minimal" -> <<5, 9, 6, 6, 9, 12, 6, 8, 5>>

HeaderWidth(content, layout) ==
    Width(CASE content = "base" -> HeaderBase(layout)
            [] content = "leveraged" -> HeaderLeveraged(layout)
            [] content = "combined" -> HeaderCombined(layout))

RowWidth(content, layout) ==
    Width(CASE content = "base" -> RowBase(layout)
            [] content = "leveraged" -> RowLeveraged(layout)
            [] content = "combined" -> RowCombined(layout))

-----------------------------------------------------------------------------
(* A tab on a viewport.                                                    *)

AtLeast(bound, value) == IF value < bound THEN bound ELSE value

\* Three lines are fixed: the scan, the title of the tab and the page number.
BodyCapacity(rows) == AtLeast(1, AtLeast(5, rows) - 3)

\* The pages of a tab; the market and trade tabs have one, of whatever length.
Pages(rankings, tab, rows) ==
    IF tab \in PagedTabs
    THEN RotationPages(rankings, Content(tab), BodyCapacity(rows))
    ELSE <<(<<>>)>>

\* render_page: the page shown of those there are.
PageIndex(requested, count) == IF requested < count - 1 THEN requested ELSE count - 1

\* The redirected log: every tab whole.  The leveraged section goes through the
\* pages too, with a capacity meant to hold it on one.
LogPages(rankings) == RotationPages(rankings, "leveraged", Len(rankings) + 9)

=============================================================================
