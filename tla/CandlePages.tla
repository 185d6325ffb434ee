----------------------------- MODULE CandlePages -----------------------------
(***************************************************************************)
(* How agent-kai collects a history of candles (data_api/agent_kai_client, *)
(* agent/data_sources/ohlcv_provider): page after page, backwards from the *)
(* newest, while new candles close, and into buckets of a longer interval  *)
(* where the provider has none of its own. A candle is its timestamp.      *)
(***************************************************************************)
EXTENDS Integers, Sequences, FiniteSets, Functions

CONSTANTS Page,      \* rows of one request at most (1000)
          Cap,       \* bars of one call at most (5000)
          Ratio,     \* short candles in a bucket of the long interval (6)
          MaxLimit,  \* bound: bars asked for
          MaxTs      \* bound: timestamps

NoBound == -1
Stamps == 1 .. MaxTs
ASSUME PagesAssumption ==
  /\ Page \in Nat \ {0} /\ Cap \in Nat \ {0} /\ Ratio \in Nat \ {0}
  /\ MaxLimit \in Nat \ {0} /\ MaxTs \in Nat \ {0}

VARIABLES
  candles,   \* what the provider has
  ask,       \* the call: [limit, from, to, long], NoBound where a bound is missing
  rows,      \* collected so far, oldest first
  cursor,    \* cursor_to
  remaining,
  paging,    \* the loop goes on
  snapshot   \* history: what there was when the first page was asked for
pagevars == <<candles, ask, rows, cursor, remaining, paging, snapshot>>

Min2(a, b) == IF a < b THEN a ELSE b
\* In order: the i-th has i - 1 others below it.
Ascending(S) == [i \in 1 .. Cardinality(S) |-> CHOOSE t \in S : Cardinality({u \in S : u <= t}) = i]
NewestOf(s, n) == SubSeq(s, Len(s) - Min2(n, Len(s)) + 1, Len(s))
Between(S, from, to) == {t \in S : t >= from /\ (to # NoBound => t <= to)}

\* fetch_ohlcv: the long interval is made of short candles, as many as its bars hold.
Wanted(a) == IF a.long THEN Min2(a.limit, Cap) * Ratio ELSE a.limit

\* A page: the newest rows in the bounds; the provider is external.
Batch == NewestOf(Ascending(Between(candles, ask.from, cursor)), Min2(remaining, Page))

\* The loop ends with an empty or a short page, or one that reaches the lower bound.
CursorAt(e) == e
CursorBefore(e) == e - 1
AskPage ==
  LET batch == Batch
      fresh == Ascending(Range(batch) \ Range(rows)) IN
  /\ paging
  /\ IF fresh = << >> THEN paging' = FALSE /\ UNCHANGED <<rows, cursor, remaining>>
     ELSE /\ rows' = fresh \o rows
          /\ remaining' = IF Len(rows') < Wanted(ask) THEN Wanted(ask) - Len(rows') ELSE 0
          /\ paging' = /\ remaining' > 0 /\ Len(batch) = Min2(remaining, Page)
                       /\ (ask.from = NoBound \/ Head(fresh) > ask.from)
          /\ cursor' = IF paging' THEN CursorBefore(Head(fresh)) ELSE cursor
  /\ snapshot' = IF rows = << >> THEN candles ELSE snapshot
  /\ UNCHANGED <<candles, ask>>

\* A candle closes at the provider, which may have skipped some.
CandleCloses ==
  /\ \E t \in Stamps : (\A u \in candles : t > u) /\ candles' = candles \cup {t}
  /\ UNCHANGED <<ask, rows, cursor, remaining, paging, snapshot>>

-----------------------------------------------------------------------------
\* aggregate_bars: a bucket is the short candles in it, in order.
Bucket(t) == (t - 1) \div Ratio
Aggregated(s) ==
  LET buckets == Ascending({Bucket(t) : t \in Range(s)})
  IN  [k \in DOMAIN buckets |-> Ascending({t \in Range(s) : Bucket(t) = buckets[k]})]

\* What the call returns.
Returned ==
  LET all == NewestOf(Ascending(Between(Range(rows), ask.from, ask.to)), Wanted(ask))
  IN  IF ask.long THEN NewestOf(Aggregated(all), Min2(ask.limit, Cap)) ELSE all

PagesInit ==
  /\ candles \in SUBSET Stamps /\ rows = << >> /\ snapshot = candles
  /\ ask \in [limit : 1 .. MaxLimit, from : {NoBound} \cup Stamps, to : {NoBound} \cup Stamps,
              long : BOOLEAN]
  /\ cursor = ask.to /\ remaining = Min2(Wanted(ask), Cap) /\ paging = TRUE
PagesNext == AskPage \/ CandleCloses
PagesSpec == PagesInit /\ [][PagesNext]_pagevars

-----------------------------------------------------------------------------
\* Whatever closes between two pages and wherever the gaps are: a call returns the newest
\* bars in its bounds, none twice and none left out, and every bar of the long interval is
\* made of all the short candles its bucket has within the bounds.
PagesAreExact ==
  ~paging =>
    LET there == Between(snapshot, ask.from, ask.to) IN
    IF ask.long
    THEN LET buckets == NewestOf(Ascending({Bucket(t) : t \in there}), Min2(ask.limit, Cap))
         IN  Returned = [k \in DOMAIN buckets |->
                           Ascending({t \in there : Bucket(t) = buckets[k]})]
    ELSE Returned = NewestOf(Ascending(there), ask.limit)
=============================================================================
