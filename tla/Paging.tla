------------------------------- MODULE Paging -------------------------------
(***************************************************************************)
(* Cursor paging and the output budget of the MCP tools                    *)
(* (adapters/mcp/paging.ts, budget.ts, args.ts).                           *)
(*                                                                         *)
(* A row is a record with its size; the size of a result is the sum of the *)
(* sizes of its rows, so the keys and brackets around the lists are left   *)
(* out.  The rest of a result is a sequence of flat lists: an array nested *)
(* in a row belongs to the size of the row.                                *)
(***************************************************************************)
EXTENDS Integers, Sequences, SequencesExt

CONSTANTS
  Budget,       \* OUTPUT_BUDGET_CHARS, in units of row size
  DefaultLimit, \* page size of a call that names none
  MaxLimit,     \* the most rows of one page (200)
  NoLimit,      \* a limit that is absent or not a number
  NoCursor      \* the cursor of a first page

ASSUME PagingConstants ==
  /\ Budget \in Nat \ {0}
  /\ MaxLimit \in Nat \ {0}
  /\ DefaultLimit \in 1..MaxLimit
  /\ NoLimit \notin Int

AtMost(a, b) == IF a < b THEN a ELSE b
AtLeast(a, b) == IF a > b THEN a ELSE b

Take(rows, n) == SubSeq(rows, 1, AtMost(n, Len(rows)))

SizeOf(rows) == FoldLeft(LAMBDA sum, row : sum + row.size, 0, rows)
TotalSize(lists) == FoldLeft(LAMBDA sum, rows : sum + SizeOf(rows), 0, lists)

-----------------------------------------------------------------------------
\* The arguments of a page.

OptionalLimit(value, fallback) ==
  IF value = NoLimit THEN fallback ELSE AtLeast(1, AtMost(MaxLimit, value))

\* fetch: the rows a query has to return for the page and the probe row.
PageWindow(limit, offset) ==
  LET l == OptionalLimit(limit, DefaultLimit)
  IN  [offset |-> offset, limit |-> l, fetch |-> offset + l + 1]

\* Mutant of TakeWindow: the probe row is not taken.
TakeWithoutProbe(window, rows) ==
  SubSeq(rows, window.offset + 1, AtMost(window.offset + window.limit, Len(rows)))

TakeWindow(window, rows) ==
  SubSeq(rows, window.offset + 1, AtMost(window.fetch, Len(rows)))

\* The hash in a cursor is the call it belongs to: the tool and its arguments
\* except cursor and limit.
EncodeCursor(call, offset) == [offset |-> offset, call |-> call]

CursorFits(call, cursor) == cursor # NoCursor => cursor.call = call

DecodeCursor(cursor) == IF cursor = NoCursor THEN 0 ELSE cursor.offset

-----------------------------------------------------------------------------
\* The output budget.

\* The first list of the largest size.
LongestList(lists) ==
  CHOOSE i \in DOMAIN lists :
    /\ \A j \in DOMAIN lists : SizeOf(lists[j]) <= SizeOf(lists[i])
    /\ \A j \in 1..(i - 1) : SizeOf(lists[j]) < SizeOf(lists[i])

\* The longest list is halved until the result fits or that list has one row;
\* each round drops a row at least, so there are at most as many as rows.
FitToBudget(lists, budget) ==
  LET Halve(current) ==
        IF current = <<>> \/ TotalSize(current) <= budget THEN current
        ELSE LET i == LongestList(current)
             IN  IF Len(current[i]) <= 1 THEN current
                 ELSE [current EXCEPT ![i] = Take(@, Len(@) \div 2)]
  IN  FoldLeft(LAMBDA current, row : Halve(current), lists, FlattenSeq(lists))

\* Mutant of LargestFit: the search may end with an empty page.
LargestFitFromZero(page, others, budget) ==
  LET Fits(count) == TotalSize(others) + SizeOf(Take(page, count)) <= budget
      Search[range \in Nat \X Nat] ==
        LET low == range[1]
            high == range[2]
            middle == (low + high + 1) \div 2
        IN  IF low >= high THEN low
            ELSE IF Fits(middle) THEN Search[<<middle, high>>] ELSE Search[<<low, middle - 1>>]
  IN  Search[<<0, Len(page) - 1>>]

\* The binary search for the largest prefix of the page that fits beside the
\* other lists; one row at least, so that paging advances.
LargestFit(page, others, budget) ==
  LET Fits(count) == TotalSize(others) + SizeOf(Take(page, count)) <= budget
      Search[range \in Nat \X Nat] ==
        LET low == range[1]
            high == range[2]
            middle == (low + high + 1) \div 2
        IN  IF low >= high THEN low
            ELSE IF Fits(middle) THEN Search[<<middle, high>>] ELSE Search[<<low, middle - 1>>]
  IN  Search[<<1, Len(page) - 1>>]

\* The other lists are shortened when they alone take half of the budget.
FitOthers(rest) ==
  IF TotalSize(rest) > Budget \div 2 THEN FitToBudget(rest, Budget \div 2) ELSE rest

\* The first limit items, shortened when they do not fit beside the others.
FitPage(window, items, others) ==
  LET first == Take(items, window.limit)
  IN  IF Len(first) > 1 /\ TotalSize(others) + SizeOf(first) > Budget
      THEN Take(first, LargestFit(first, others, Budget)) ELSE first

\* More follow when the page was shortened or the probe row is there.
NextCursor(call, window, items, page) ==
  IF Len(items) > Len(page) THEN EncodeCursor(call, window.offset + Len(page)) ELSE NoCursor
=============================================================================
