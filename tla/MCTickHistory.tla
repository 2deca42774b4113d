--------------------------- MODULE MCTickHistory ---------------------------
(***************************************************************************)
(* A small instance of TickHistory for TLC.                                *)
(***************************************************************************)
EXTENDS TickHistory

\* In each second a trade and a quote that sells it; in the first and the last also a
\* quote that buys it.  Three trades end the tape, where one may be the whole first page:
\* one without a size, one past the limits and one unreported.  In the middle are a
\* quote out of order and one without a size.
Trade(t) ==
    [kind |-> "trade", time |-> t, price |-> 2, size |-> 1,
     pastLimit |-> FALSE, unreported |-> FALSE]
Quote(t, bid, ask) ==
    [kind |-> "quote", time |-> t, bid |-> bid, ask |-> ask,
     bidSize |-> bid, askSize |-> 1, sized |-> TRUE]
MCTick ==
    {Trade(t) : t \in 1 .. End} \cup {Quote(t, 2, 3) : t \in 1 .. End}
        \cup {Quote(1, 1, 2), Quote(End, 1, 2)}
        \cup {[Trade(End) EXCEPT !.size = 0],
              [Trade(End) EXCEPT !.pastLimit = TRUE],
              [Trade(End) EXCEPT !.unreported = TRUE],
              Quote(End - 1, 2, 1),
              [Quote(End - 1, 1, 2) EXCEPT !.bidSize = 0, !.sized = FALSE]}

=============================================================================
