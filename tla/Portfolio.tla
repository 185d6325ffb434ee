------------------------------ MODULE Portfolio ------------------------------
(***************************************************************************)
(* agent-kai's paper portfolio (data_api/paper_trading.py): an object of   *)
(* each process, the daemon and the terminals, loaded when the process     *)
(* starts from the one file that each of them saves. Orders are tools      *)
(* that run in threads, with a request for the price at their start.       *)
(*                                                                         *)
(* Amounts are integers, in a unit of money so small that the averages of  *)
(* entry prices are whole (Grain); the code has floats. Their rounding is  *)
(* not modelled.                                                           *)
(***************************************************************************)
EXTENDS Integers, Sequences, FiniteSets, Functions

CONSTANTS Processes,
          Assets,     \* symbols
          Prices,     \* what the price route answers, 0 for a symbol it does not know
          Start,      \* starting_balance
          MaxQty,     \* bound: quantity of an order
          MaxOrders,  \* bound: orders
          Parallel,   \* bound: orders of a process at once
          Grain       \* what the entry prices are multiples of, after so many orders

Orders == 1 .. MaxOrders
Sides == {"long", "short"}
ASSUME PortfolioAssumption ==
  /\ Processes # {} /\ Assets # {} /\ IsFiniteSet(Assets) /\ Prices \subseteq Nat /\ Start \in Nat
  /\ MaxQty \in Nat /\ MaxOrders \in Nat /\ Parallel \in Nat \ {0}
\* An average over a quantity of t divides a coarser grain into t finer ones. There is
\* such a Grain for every number of orders, and then every price is a multiple of it in
\* a unit that is small enough.
ASSUME GrainAssumption ==
  /\ Grain \in [Orders -> Nat \ {0}]
  /\ \A n \in Orders, price \in Prices : price % Grain[n] = 0
  /\ \A n \in Orders : \A m \in 1 .. n - 1, t \in 1 .. n * MaxQty : Grain[m] % (t * Grain[n]) = 0

VARIABLES
  book,   \* process -> its portfolio
  disk,   \* portfolio.json: a book, or Torn
  order,  \* order -> where it is
  placed  \* orders so far
foliovars == <<book, disk, order, placed>>

\* A position is [side, qty, entry, cur]; quantity 0 where there is none. A closed trade
\* is [side, qty, entry, exit].
NoPosition == [side |-> "none", qty |-> 0, entry |-> 0, cur |-> 0]
Fresh0 == [cash |-> Start, pos |-> [a \in Assets |-> NoPosition], closed |-> << >>]
Torn == [Fresh0 EXCEPT !.cash = -1]
NoOrder == [at |-> "new", by |-> CHOOSE p \in Processes : TRUE, asset |-> CHOOSE a \in Assets : TRUE,
            side |-> "long", qty |-> 0, price |-> 0, does |-> "none", saves |-> Fresh0]
Over == [NoOrder EXCEPT !.at = "over"]
At(o, at) == order[o].at = at
Threads(p) == {o \in Orders : order[o].by = p /\ order[o].at \notin {"new", "over"}}

-----------------------------------------------------------------------------
(* place_order, as its thread goes through it. *)

Profit(side, qty, entry, price) == IF side = "long" THEN (price - entry) * qty ELSE (entry - price) * qty

\* Limit orders are filled at their own price, market orders at the price of the moment.
PlaceOrder(p, a, side, qty, price) ==
  /\ placed < MaxOrders /\ placed' = placed + 1 /\ Cardinality(Threads(p)) < Parallel
  /\ order' = [order EXCEPT ![placed'] = [NoOrder EXCEPT !.at = "priced", !.by = p, !.asset = a,
                                            !.side = side, !.qty = qty, !.price = price]]
  /\ UNCHANGED <<book, disk>>

\* An order against the position closes it; a long one must be covered by the cash.
Decides(o) ==
  LET b == book[order[o].by]  held == b.pos[order[o].asset]  r == order[o] IN
  /\ At(o, "priced")
  /\ order' = [order EXCEPT ![o] =
       IF held.qty > 0 /\ held.side # r.side THEN [r EXCEPT !.at = "fill", !.does = "close"]
       ELSE IF r.side = "long" /\ r.price * r.qty > b.cash THEN Over
       ELSE [r EXCEPT !.at = "fill", !.does = "open"]]
  /\ UNCHANGED <<book, disk, placed>>

\* Opened, or averaged in.
Opened(b, r) ==
  LET held == b.pos[r.asset]  total == held.qty + r.qty IN
  [b EXCEPT !.pos[r.asset] =
     IF held.qty = 0 THEN [side |-> r.side, qty |-> r.qty, entry |-> r.price, cur |-> r.price]
     ELSE [held EXCEPT !.qty = total, !.cur = r.price,
                       !.entry = (held.entry * held.qty + r.price * r.qty) \div total],
            !.cash = IF r.side = "long" THEN @ - r.price * r.qty ELSE @]

\* _close_position: no more than there is; the cash of a short is never touched.
Closed0(b, r, credited) ==
  LET held == b.pos[r.asset]  n == IF r.qty < held.qty THEN r.qty ELSE held.qty IN
  IF held.qty = 0 THEN b
  ELSE [b EXCEPT !.closed = Append(@, [side |-> held.side, qty |-> n, entry |-> held.entry, exit |-> r.price]),
                 !.cash = IF held.side = "long" THEN @ + r.price * credited ELSE @,
                 !.pos[r.asset] = IF n = held.qty THEN NoPosition
                                  ELSE [held EXCEPT !.qty = @ - n, !.cur = r.price]]
ClosedAsAsked(b, r) == Closed0(b, r, r.qty)
ClosedPart(b, r) ==
  LET held == b.pos[r.asset] IN Closed0(b, r, IF r.qty < held.qty THEN r.qty ELSE held.qty)

\* The fill, with the data for _save; an order for nothing there saves nothing.
Fills(o) ==
  LET r == order[o]  b == book[r.by]
      new == IF r.does = "open" THEN Opened(b, r) ELSE ClosedPart(b, r) IN
  /\ At(o, "fill") /\ book' = [book EXCEPT ![r.by] = new]
  /\ order' = [order EXCEPT ![o] = IF new = b /\ r.does = "close" THEN Over
                                   ELSE [r EXCEPT !.at = "save", !.saves = new]]
  /\ UNCHANGED <<disk, placed>>

\* _save truncates the file and fills it; that it cannot is not noticed.
Truncates(o) ==
  /\ At(o, "save") /\ disk' = Torn /\ order' = [order EXCEPT ![o].at = "write"]
  /\ UNCHANGED <<book, placed>>
WritesFile(o) ==
  /\ At(o, "write") /\ disk' = order[o].saves /\ order' = [order EXCEPT ![o] = Over]
  /\ UNCHANGED <<book, placed>>
SaveFails(o) ==
  /\ order[o].at \in {"save", "write"} /\ order' = [order EXCEPT ![o] = Over]
  /\ UNCHANGED <<book, disk, placed>>

\* get_positions: the prices of the moment, unless the route does not know one.
Marks(p, a, price) ==
  /\ book[p].pos[a].qty > 0 /\ price # 0 /\ book' = [book EXCEPT ![p].pos[a].cur = price]
  /\ UNCHANGED <<disk, order, placed>>

\* The process is killed at any point and started again: a file that cannot be read is
\* taken for none.
Restarts(p) ==
  /\ book' = [book EXCEPT ![p] = IF disk = Torn THEN Fresh0 ELSE disk]
  /\ order' = [o \in Orders |-> IF o \in Threads(p) THEN Over ELSE order[o]]
  /\ UNCHANGED <<disk, placed>>

FolioInit ==
  /\ book = [p \in Processes |-> Fresh0] /\ disk = Fresh0 /\ placed = 0
  /\ order = [o \in Orders |-> NoOrder]
FolioNext ==
  \/ \E p \in Processes, a \in Assets, price \in Prices :
       Marks(p, a, price) \/ \E s \in Sides, q \in 1 .. MaxQty : PlaceOrder(p, a, s, q, price)
  \/ \E o \in Orders : Decides(o) \/ Fills(o) \/ Truncates(o) \/ WritesFile(o) \/ SaveFails(o)
  \/ \E p \in Processes : Restarts(p)
FolioSpec == FolioInit /\ [][FolioNext]_foliovars

-----------------------------------------------------------------------------
\* While a process has one order at a time, no history of orders, marks, kills and saves
\* cut short makes or loses money: in each portfolio in memory or on the disk the cash
\* is not overdrawn, and what is held long is worth what get_pnl says was gained.
Worth(h) == IF h.side = "long" THEN h.cur * h.qty ELSE 0
Gain(side, qty, entry, price) == IF side = "long" THEN Profit(side, qty, entry, price) ELSE 0
Value(b) == SumFunction([a \in Assets |-> Worth(b.pos[a])])
Unrealized(b) ==
  SumFunction([a \in Assets |-> LET h == b.pos[a] IN Gain(h.side, h.qty, h.entry, h.cur)])
Realized(b) ==
  SumFunction([k \in DOMAIN b.closed |-> LET t == b.closed[k] IN Gain(t.side, t.qty, t.entry, t.exit)])
Balanced(b) == b.cash >= 0 /\ b.cash + Value(b) - Start = Unrealized(b) + Realized(b)
BooksBalance ==
  Parallel = 1 => \A p \in Processes : Balanced(book[p]) /\ (disk = Torn \/ Balanced(disk))
=============================================================================
