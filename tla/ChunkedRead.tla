---------------------------- MODULE ChunkedRead ----------------------------
(***************************************************************************)
(* A model reading one long page by fetch_url, chunk after chunk           *)
(* (internal/transport/mcp/tools: resolveMaxChars, sized; internal/domain: *)
(* TruncateContent): each call asks for a window of the page, and the      *)
(* marker at its end names where the next one starts.  A page is its       *)
(* length; it may be another page at any later call, since the cache lets  *)
(* it expire.                                                              *)
(***************************************************************************)
EXTENDS Integers

CONSTANTS
    DefaultMaxChars,    \* OMNIFEED_FETCH_MAX_CHARS, 0 for no cap
    MaxFetchChars,      \* the largest max_chars honoured
    Marker(_, _)        \* length of the marker, by where the next chunk starts and the total

\* What is assumed of them: the marker grows with the digits of its numbers.
Params ==
    /\ DefaultMaxChars \in Nat /\ MaxFetchChars \in Nat \ {0}
    /\ \A start, n \in Nat : Marker(start, n) \in Nat
    /\ \A low, high, n \in Nat : low <= high => Marker(low, n) <= Marker(high, n)

VARIABLES
    total,      \* characters of the page now
    kind,       \* "text", or "structured": TOON or JSON, never cut
    at,         \* where the reader goes on
    read,       \* characters of the page it has been given
    page,       \* "same" as the one it began with, or "changed"
    reader      \* "reading", or "done" when it was told there is no more

readVars == <<total, kind, at, read, page, reader>>

-----------------------------------------------------------------------------
(* One call.                                                               *)

\* resolveMaxChars: a positive max_chars, clamped, else the server's default.
Cap(maxChars) ==
    IF maxChars > 0 THEN IF maxChars <= MaxFetchChars THEN maxChars ELSE MaxFetchChars
    ELSE DefaultMaxChars

\* The part of a window left to the text, its marker being sized for the whole
\* window; a window too small for the marker is all text.
Keep(cap, start, n) ==
    LET keep == cap - Marker(start + cap, n) IN IF keep < 1 THEN cap ELSE keep

\* A call past the end is answered by a notice, which tells of no more.
PastEnd(start, n) == start > 0 /\ start >= n

\* More is left than the cap lets through.
IsCut(cap, start, n) == ~PastEnd(start, n) /\ cap > 0 /\ n - start > cap

\* TruncateContent: the characters of the page in the window from start.
Window(cap, start, n) ==
    IF PastEnd(start, n) THEN 0
    ELSE IF IsCut(cap, start, n) THEN Keep(cap, start, n) ELSE n - start

\* Where the next window starts: the offset the marker names, or the end.
NextStart(cap, start, n) ==
    IF IsCut(cap, start, n) THEN start + Keep(cap, start, n) ELSE n

\* The length of the text returned, the marker it ends with included.
Returned(cap, start, n) ==
    IF IsCut(cap, start, n)
      THEN Window(cap, start, n) + Marker(NextStart(cap, start, n), n)
      ELSE Window(cap, start, n)

\* sized: structured content is returned whole, wherever the call starts.
Delivered(maxChars) == IF kind = "structured" THEN total ELSE Window(Cap(maxChars), at, total)
GoesOn(maxChars) == IF kind = "structured" THEN total ELSE NextStart(Cap(maxChars), at, total)

-----------------------------------------------------------------------------
(* The reader and the page.                                                *)

ReadInit ==
    /\ total \in Nat /\ kind \in {"text", "structured"}
    /\ at = 0 /\ read = 0
    /\ page = "same" /\ reader = "reading"

\* The next call of fetch_url, at the offset the last one gave.
FetchURL ==
    /\ reader = "reading"
    /\ \E maxChars \in Nat :
          /\ read' = read + Delivered(maxChars)
          /\ at' = GoesOn(maxChars)
          /\ reader' = IF GoesOn(maxChars) >= total THEN "done" ELSE "reading"
    /\ UNCHANGED <<total, kind, page>>

\* Between two calls the page is rendered again, shorter or longer.
Refresh ==
    /\ total' \in Nat /\ page' = "changed"
    /\ UNCHANGED <<kind, at, read, reader>>

ReadNext == FetchURL \/ Refresh

ReadSpec == ReadInit /\ [][ReadNext]_readVars

-----------------------------------------------------------------------------
(* Properties.                                                             *)

ReadTypeOK ==
    /\ total \in Nat /\ kind \in {"text", "structured"}
    /\ at \in Nat /\ read \in Nat
    /\ page \in {"same", "changed"} /\ reader \in {"reading", "done"}

\* Of a page that stays what it was, the reader has been given each character up
\* to where it goes on exactly once, and all of them when it is told to stop: no
\* window leaves a gap for its marker or repeats what the marker cost.
NothingLostOrRepeated ==
    page = "same" => /\ read = at /\ at <= total
                     /\ reader = "done" => read = total

\* A call moves on, or is the last: no budget, however small, keeps a reader at
\* the same offset for ever.
CallsMoveOn == [][FetchURL => at' > at \/ reader' = "done"]_readVars
=============================================================================
