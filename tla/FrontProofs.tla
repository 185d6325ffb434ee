------------------------------ MODULE FrontProofs ------------------------------
(***************************************************************************)
(* What faces the users and the taskboard keeps its account, for every     *)
(* number of inputs, loads, agents, tasks, signals and runs: an input of   *)
(* the terminal is run at most once and nobody waits for nothing           *)
(* (Console), the sub-agents' books agree (SubAgents), the chart is fed by *)
(* its own feeds (ChartFeed), the signals are handled as declared          *)
(* (SignalDesk), and the records of the taskboard's runs are true          *)
(* (TaskboardRuns).                                                        *)
(***************************************************************************)
EXTENDS Console, SignalDesk, ChartFeed, TaskboardRuns, FiniteSetTheorems, SequenceTheorems, TLAPS

-----------------------------------------------------------------------------
(* The input line. The pieces of the handlers keep the account of each input *)
(* that Accounts says; the handlers are made of them.                        *)

Ins == 1 .. MaxInputs
Places == {"dispatch", "signal", "request", "agent", "task", "slash"}
Piece == [w : BOOLEAN, q : Seq(Ins), r : Seq(Ins), k : SUBSET [in : Ins, at : Places]]
Ends0 == {"new", "queued", "run", "refused", "dropped"}
Unique(s) == \A j, k \in DOMAIN s : s[j] = s[k] => j = k

\* Where an input is that became f and was dispatched u times: it is in the queue or in a
\* worker that will dispatch it, and not in both, if and only if it is said to be queued.
Account(s, i, f, u) ==
  /\ f = "queued" <=> i \in Elems(s.q) \/ At(i, "dispatch") \in s.k
  /\ ~(i \in Elems(s.q) /\ At(i, "dispatch") \in s.k)
  /\ At(i, "signal") \in s.k => f = "new"
  /\ f # "run" => u = 0
  /\ u <= 1
Accounts(s, f, u, n) ==
  /\ s \in Piece /\ s.r = s.q /\ Len(s.q) <= MaxQueue /\ Unique(s.q)
  /\ f \in [Ins -> Ends0] /\ u \in [Ins -> Nat]
  /\ \A i \in Ins : /\ Account(s, i, f[i], u[i])
                    /\ i > n => f[i] = "new" /\ At(i, "signal") \notin s.k
ConsoleInv ==
  /\ remote \in BOOLEAN /\ kind \in [Ins -> Kinds] /\ count \in 0 .. MaxInputs
  /\ Accounts(Now, fate, runs, count)

-----------------------------------------------------------------------------
\* Queues without repetitions.
LEMMA QueueAdded ==
  ASSUME NEW q \in Seq(Ins), Unique(q), NEW i \in Ins, i \notin Elems(q)
  PROVE  /\ Append(q, i) \in Seq(Ins) /\ Len(Append(q, i)) = Len(q) + 1 /\ Unique(Append(q, i))
         /\ Elems(Append(q, i)) = Elems(q) \cup {i}
<1> DEFINE z == Append(q, i)
<1>1. /\ z \in Seq(Ins) /\ Len(z) = Len(q) + 1 /\ Len(q) \in Nat
      /\ DOMAIN z = 1 .. Len(q) + 1 /\ DOMAIN q = 1 .. Len(q)
      /\ z[Len(q) + 1] = i /\ \A j \in DOMAIN q : z[j] = q[j]
  OBVIOUS
<1> HIDE DEF z
<1>2. Unique(z)
  BY <1>1 DEF Unique, Elems
<1>3. Elems(z) = Elems(q) \cup {i}
  BY <1>1 DEF Elems
<1>4. QED
  BY <1>1, <1>2, <1>3 DEF z

LEMMA Headed ==
  ASSUME NEW q \in Seq(Ins), Unique(q), q # << >>
  PROVE  /\ Head(q) \in Ins /\ Head(q) \in Elems(q)
         /\ Tail(q) \in Seq(Ins) /\ Len(Tail(q)) = Len(q) - 1 /\ Unique(Tail(q))
         /\ Elems(Tail(q)) = Elems(q) \ {Head(q)}
<1> DEFINE z == Tail(q)
<1>1. /\ z \in Seq(Ins) /\ Len(z) = Len(q) - 1 /\ Len(q) \in Nat \ {0}
      /\ DOMAIN z = 1 .. Len(q) - 1 /\ DOMAIN q = 1 .. Len(q)
      /\ Head(q) = q[1] /\ \A j \in DOMAIN z : z[j] = q[j + 1]
      /\ q[1] \in Ins
  OBVIOUS
<1> HIDE DEF z
<1>2. Unique(z)
  BY <1>1 DEF Unique
<1>3. Elems(z) \subseteq Elems(q) \ {q[1]}
  BY <1>1 DEF Elems, Unique
<1>4. ASSUME NEW j \in DOMAIN q, q[j] # q[1] PROVE q[j] \in Elems(z)
  <2>1. j - 1 \in DOMAIN z /\ z[j - 1] = q[j]
    BY <1>1, <1>4
  <2>2. QED
    BY <2>1 DEF Elems
<1>5. Elems(q) \ {q[1]} \subseteq Elems(z)
  <2> SUFFICES ASSUME NEW e \in Elems(q), e # q[1] PROVE e \in Elems(z)
    OBVIOUS
  <2>1. PICK j \in DOMAIN q : e = q[j]
    BY DEF Elems
  <2>2. QED
    BY <1>4, <2>1
<1>6. q[1] \in Elems(q)
  BY <1>1 DEF Elems
<1>7. QED
  BY <1>1, <1>2, <1>3, <1>5, <1>6 DEF z

LEMMA SecondHalf ==
  ASSUME NEW a \in Seq(Ins), NEW b \in Seq(Ins), NEW m \in 1 .. Len(b)
  PROVE  (a \o b)[Len(a) + m] = b[m]
  OBVIOUS

LEMMA Lacking ==
  ASSUME NEW q \in Seq(Ins), Unique(q), NEW k \in DOMAIN q
  PROVE  /\ Without(q, k) \in Seq(Ins) /\ Len(Without(q, k)) = Len(q) - 1 /\ Unique(Without(q, k))
         /\ Elems(Without(q, k)) = Elems(q) \ {q[k]} /\ q[k] \in Ins /\ q[k] \in Elems(q)
<1> DEFINE z == Without(q, k)
<1>0. Len(q) \in Nat \ {0} /\ DOMAIN q = 1 .. Len(q) /\ k \in 1 .. Len(q)
  OBVIOUS
<1>1. /\ SubSeq(q, 1, k - 1) \in Seq(Ins) /\ Len(SubSeq(q, 1, k - 1)) = k - 1
      /\ \A j \in 1 .. k - 1 : SubSeq(q, 1, k - 1)[j] = q[j]
  BY <1>0
<1>2. /\ SubSeq(q, k + 1, Len(q)) \in Seq(Ins) /\ Len(SubSeq(q, k + 1, Len(q))) = Len(q) - k
      /\ \A j \in 1 .. Len(q) - k : SubSeq(q, k + 1, Len(q))[j] = q[k + j]
  BY <1>0
<1>a. z \in Seq(Ins) /\ Len(z) = Len(q) - 1
  BY <1>0, <1>1, <1>2 DEF Without
<1>b. ASSUME NEW j \in 1 .. k - 1 PROVE z[j] = q[j]
  BY <1>0, <1>1, <1>2 DEF Without
<1>c. ASSUME NEW j \in k .. Len(q) - 1 PROVE z[j] = q[j + 1]
  <2>1. j = k - 1 + (j - k + 1) /\ j - k + 1 \in 1 .. Len(q) - k /\ k + (j - k + 1) = j + 1
    BY <1>0
  <2>2. z[k - 1 + (j - k + 1)] = SubSeq(q, k + 1, Len(q))[j - k + 1]
    <3> DEFINE a == SubSeq(q, 1, k - 1)  b == SubSeq(q, k + 1, Len(q))  m == j - k + 1
    <3>1. a \in Seq(Ins) /\ b \in Seq(Ins) /\ Len(a) = k - 1 /\ m \in 1 .. Len(b) /\ z = a \o b
      BY <1>1, <1>2, <2>1 DEF Without
    <3> HIDE DEF a, b, m, z
    <3>2. z[Len(a) + m] = b[m]
      BY <3>1, SecondHalf
    <3>3. QED
      BY <3>1, <3>2 DEF a, b, m
  <2>3. QED
    BY <1>2, <2>1, <2>2
<1> HIDE DEF z
<1>d. DOMAIN z = 1 .. Len(q) - 1
  BY <1>0, <1>a
<1>3. /\ z \in Seq(Ins) /\ Len(z) = Len(q) - 1 /\ DOMAIN z = 1 .. Len(q) - 1
      /\ \A j \in DOMAIN z : z[j] = IF j < k THEN q[j] ELSE q[j + 1]
  BY <1>0, <1>a, <1>b, <1>c, <1>d
<1>4. Unique(z)
  BY <1>0, <1>3 DEF Unique
<1>5. Elems(z) \subseteq Elems(q) \ {q[k]}
  BY <1>0, <1>3 DEF Elems, Unique
<1>6. ASSUME NEW j \in DOMAIN q, q[j] # q[k] PROVE q[j] \in Elems(z)
  <2>1. CASE j < k
    BY <1>0, <1>3, <2>1 DEF Elems
  <2>2. CASE j > k
    <3>1. j - 1 \in DOMAIN z /\ z[j - 1] = q[j]
      BY <1>0, <1>3, <2>2
    <3>2. QED
      BY <3>1 DEF Elems
  <2>3. QED
    BY <1>0, <1>6, <2>1, <2>2
<1>7. Elems(q) \ {q[k]} \subseteq Elems(z)
  <2> SUFFICES ASSUME NEW e \in Elems(q), e # q[k] PROVE e \in Elems(z)
    OBVIOUS
  <2>1. PICK j \in DOMAIN q : e = q[j]
    BY DEF Elems
  <2>2. QED
    BY <1>6, <2>1
<1>8. q[k] \in Ins /\ q[k] \in Elems(q)
  BY <1>0 DEF Elems
<1>9. QED
  BY <1>3, <1>4, <1>5, <1>7, <1>8 DEF z

-----------------------------------------------------------------------------
\* The pieces.

\* What the account of an input speaks of.
LEMMA SamePlaces ==
  ASSUME NEW s, NEW f, NEW u, NEW n, Accounts(s, f, u, n), NEW z \in Piece,
         z.q = s.q, z.r = s.r,
         \A i \in Ins : /\ At(i, "dispatch") \in z.k <=> At(i, "dispatch") \in s.k
                        /\ At(i, "signal") \in z.k => At(i, "signal") \in s.k
  PROVE  Accounts(z, f, u, n)
  BY DEF Accounts, Account

LEMMA Drained ==
  ASSUME NEW s, NEW f, NEW u, NEW n, Accounts(s, f, u, n)
  PROVE  Accounts(Drain(s), f, u, n)
<1>1. CASE s.w \/ s.q = << >>
  BY <1>1 DEF Drain
<1>2. CASE ~(s.w \/ s.q = << >>)
  <2> DEFINE h == Head(s.q)
             z == [s EXCEPT !.q = Tail(@), !.r = Tail(@), !.k = @ \cup {At(h, "dispatch")}]
  <2>1. s \in Piece /\ s.q \in Seq(Ins) /\ Unique(s.q) /\ s.r = s.q /\ Len(s.q) <= MaxQueue /\ Len(s.q) \in Nat
    BY DEF Accounts, Piece
  <2>2. /\ h \in Ins /\ h \in Elems(s.q) /\ Tail(s.q) \in Seq(Ins) /\ Unique(Tail(s.q))
        /\ Len(Tail(s.q)) = Len(s.q) - 1 /\ Elems(Tail(s.q)) = Elems(s.q) \ {h}
    BY <1>2, <2>1, Headed
  <2>3. s.k \cup {At(h, "dispatch")} \in SUBSET [in : Ins, at : Places]
    BY <2>1, <2>2 DEF Piece, At, Places
  <2> HIDE DEF h
  <2>4. /\ z \in Piece /\ z.q = Tail(s.q) /\ z.r = Tail(s.q)
        /\ z.k = s.k \cup {At(h, "dispatch")}
    BY <2>1, <2>2, <2>3 DEF Piece
  <2> HIDE DEF z
  <2>5. ASSUME NEW i \in Ins PROVE Account(z, i, f[i], u[i])
    <3>1. Account(s, i, f[i], u[i])
      BY DEF Accounts
    <3>2. At(i, "dispatch") \in z.k <=> At(i, "dispatch") \in s.k \/ i = h
      BY <2>4 DEF At
    <3>3. At(i, "signal") \in z.k <=> At(i, "signal") \in s.k
      BY <2>4 DEF At
    <3>4. i \in Elems(z.q) <=> i \in Elems(s.q) /\ i # h
      BY <2>2, <2>4
    <3>5. QED
      BY <2>2, <3>1, <3>2, <3>3, <3>4 DEF Account
  <2>6. \A i \in Ins : i > n => f[i] = "new" /\ At(i, "signal") \notin z.k
    BY <2>4 DEF Accounts, At
  <2>a. MaxQueue \in Nat /\ f \in [Ins -> Ends0] /\ u \in [Ins -> Nat]
    BY ConsoleAssumption DEF Accounts
  <2>b. z.q = z.r /\ Len(z.q) <= MaxQueue /\ Unique(z.q)
    BY <2>1, <2>2, <2>4, <2>a
  <2>7. Accounts(z, f, u, n)
    BY <2>4, <2>5, <2>6, <2>a, <2>b DEF Accounts
  <2>8. QED
    BY <1>2, <2>7 DEF Drain, z, h
<1>3. QED
  BY <1>1, <1>2

LEMMA Idled ==
  ASSUME NEW s, NEW f, NEW u, NEW n, Accounts(s, f, u, n)
  PROVE  Accounts(Idle(s), f, u, n)
<1>1. s \in Piece
  BY DEF Accounts
<1>2. /\ [s EXCEPT !.w = FALSE] \in Piece /\ [s EXCEPT !.w = FALSE].q = s.q
      /\ [s EXCEPT !.w = FALSE].r = s.r /\ [s EXCEPT !.w = FALSE].k = s.k
  BY <1>1 DEF Piece
<1>3. Accounts([s EXCEPT !.w = FALSE], f, u, n)
  BY <1>2, SamePlaces
<1>4. QED
  BY <1>3, Drained DEF Idle

\* A worker is started for other work than a dispatch, or the terminal is busy.
LEMMA Worked ==
  ASSUME NEW s, NEW f, NEW u, NEW n, Accounts(s, f, u, n), NEW i \in Ins,
         NEW at \in {"request", "agent", "task", "slash"}
  PROVE  /\ Accounts([s EXCEPT !.k = @ \cup {At(i, at)}], f, u, n)
         /\ Accounts([s EXCEPT !.w = TRUE, !.k = @ \cup {At(i, at)}], f, u, n)
         /\ Accounts([s EXCEPT !.w = TRUE], f, u, n)
<1>1. s \in Piece
  BY DEF Accounts
<1> DEFINE K == s.k \cup {At(i, at)}
<1>2. K \in SUBSET [in : Ins, at : Places]
  BY <1>1 DEF Piece, At, Places
<1>3. \A j \in Ins : /\ At(j, "dispatch") \in K <=> At(j, "dispatch") \in s.k
                     /\ At(j, "signal") \in K <=> At(j, "signal") \in s.k
  BY DEF At
<1> HIDE DEF K
<1> DEFINE x == [s EXCEPT !.k = K]  y == [s EXCEPT !.w = TRUE]  z == [y EXCEPT !.k = K]
<1>4. x \in Piece /\ x.q = s.q /\ x.r = s.r /\ x.k = K
  BY <1>1, <1>2 DEF Piece
<1>5. y \in Piece /\ y.q = s.q /\ y.r = s.r /\ y.k = s.k
  BY <1>1 DEF Piece
<1> HIDE DEF y
<1>6. z \in Piece /\ z.q = s.q /\ z.r = s.r /\ z.k = K
  BY <1>2, <1>5 DEF Piece
<1> HIDE DEF x, z
<1>7. Accounts(x, f, u, n) /\ Accounts(y, f, u, n) /\ Accounts(z, f, u, n)
  BY <1>3, <1>4, <1>5, <1>6, SamePlaces
<1>8. QED
  BY <1>1, <1>7 DEF x, y, z, K

\* The last of an input that was dispatched.
LEMMA Ran ==
  ASSUME NEW s, NEW f, NEW u, NEW n, Accounts(s, f, u, n), NEW i \in Ins, f[i] = "run", u[i] = 0
  PROVE  Accounts(s, f, [u EXCEPT ![i] = @ + 1], n)
  BY DEF Accounts, Account

\* The user removes inputs from the queue.
LEMMA Dropping ==
  ASSUME NEW s, NEW f, NEW u, NEW n, Accounts(s, f, u, n), NEW i \in Ins, f[i] = "run",
         NEW t \in Removed(s)
  PROVE  Accounts(t, [j \in Ins |-> IF j = i THEN "run"
                                    ELSE IF j \in Elems(s.q) \ Elems(t.q) THEN "dropped" ELSE f[j]], u, n)
<1> DEFINE g == [j \in Ins |-> IF j = i THEN "run"
                               ELSE IF j \in Elems(s.q) \ Elems(t.q) THEN "dropped" ELSE f[j]]
<1>1. /\ s \in Piece /\ s.q \in Seq(Ins) /\ Unique(s.q) /\ s.r = s.q /\ Len(s.q) <= MaxQueue
      /\ Len(s.q) \in Nat
  BY DEF Accounts, Piece
<1>2. /\ t \in Piece /\ t.r = t.q /\ t.k = s.k /\ Len(t.q) <= MaxQueue /\ Unique(t.q)
      /\ Elems(t.q) \subseteq Elems(s.q)
  <2>1. CASE t = [s EXCEPT !.q = << >>, !.r = << >>]
    <3> DEFINE e == << >>  y == [s EXCEPT !.q = e]
    <3>1. e \in Seq(Ins) /\ Elems(e) = {} /\ Unique(e) /\ Len(e) = 0
      BY DEF Elems, Unique
    <3>2. t = [y EXCEPT !.r = e]
      BY <1>1, <2>1 DEF Piece
    <3> HIDE DEF e
    <3>3. y \in Piece /\ y.q = e /\ y.k = s.k
      BY <1>1, <3>1 DEF Piece
    <3> HIDE DEF y
    <3>4. t \in Piece /\ t.q = e /\ t.r = e /\ t.k = s.k
      BY <3>1, <3>2, <3>3 DEF Piece
    <3>5. MaxQueue \in Nat
      BY ConsoleAssumption
    <3>6. Len(t.q) <= MaxQueue
      BY <1>1, <3>1, <3>4, <3>5
    <3>7. QED
      BY <3>1, <3>4, <3>6
  <2>2. ASSUME NEW k \in DOMAIN s.q, t = Dropped(s, k)
        PROVE  /\ t \in Piece /\ t.r = t.q /\ t.k = s.k /\ Len(t.q) <= MaxQueue /\ Unique(t.q)
               /\ Elems(t.q) \subseteq Elems(s.q)
    <3>1. /\ Without(s.q, k) \in Seq(Ins) /\ Unique(Without(s.q, k))
          /\ Len(Without(s.q, k)) = Len(s.q) - 1 /\ Elems(Without(s.q, k)) \subseteq Elems(s.q)
      BY <1>1, <2>2, Lacking
    <3>2. /\ t \in Piece /\ t.q = Without(s.q, k) /\ t.r = Without(s.q, k) /\ t.k = s.k
      BY <1>1, <2>2, <3>1 DEF Dropped, Piece
    <3>0. MaxQueue \in Nat
      BY ConsoleAssumption
    <3>3. Len(t.q) <= MaxQueue
      BY <1>1, <3>0, <3>1, <3>2
    <3>4. QED
      BY <3>1, <3>2, <3>3
  <2>3. QED
    BY <2>1, <2>2 DEF Removed
<1>3. g \in [Ins -> Ends0]
  BY DEF Accounts, Ends0
<1>4. ASSUME NEW j \in Ins PROVE Account(t, j, g[j], u[j]) /\ (j > n => g[j] = "new" /\ At(j, "signal") \notin t.k)
  <2>1. Account(s, j, f[j], u[j]) /\ (j > n => f[j] = "new" /\ At(j, "signal") \notin s.k)
    BY DEF Accounts
  <2>2. f[i] # "queued" /\ f[i] # "new"
    OBVIOUS
  <2>3. QED
    BY <1>2, <2>1, <2>2 DEF Account
<1>5. u \in [Ins -> Nat]
  BY DEF Accounts
<1> HIDE DEF g
<1>6. Accounts(t, g, u, n)
  BY <1>2, <1>3, <1>4, <1>5 DEF Accounts
<1>7. QED
  BY <1>6 DEF g

\* An input that is waiting nowhere but, perhaps, in a worker that is taken up is dispatched
\* or refused; or it is queued.
LEMMA Taken ==
  ASSUME NEW s, NEW f, NEW u, NEW n, Accounts(s, f, u, n), NEW i \in Ins, ~(i > n),
         u[i] = 0, i \notin Elems(s.q), NEW e \in {"run", "refused"},
         NEW z \in Piece, z.q = s.q, z.r = s.r,
         z.k = s.k \ {At(i, "dispatch"), At(i, "signal")}
  PROVE  Accounts(z, [f EXCEPT ![i] = e], u, n)
<1> DEFINE g == [f EXCEPT ![i] = e]
<1>1. g \in [Ins -> Ends0] /\ g[i] = e /\ \A j \in Ins \ {i} : g[j] = f[j]
  BY DEF Accounts, Ends0
<1> HIDE DEF g
<1>2. ASSUME NEW j \in Ins
      PROVE  Account(z, j, g[j], u[j]) /\ (j > n => g[j] = "new" /\ At(j, "signal") \notin z.k)
  <2>1. Account(s, j, f[j], u[j]) /\ (j > n => f[j] = "new" /\ At(j, "signal") \notin s.k)
    BY DEF Accounts
  <2>2. CASE j = i
    BY <1>1, <2>1, <2>2 DEF Account
  <2>3. CASE j # i
    <3>1. At(j, "dispatch") \in z.k <=> At(j, "dispatch") \in s.k
      BY <2>3 DEF At
    <3>2. At(j, "signal") \in z.k => At(j, "signal") \in s.k
      OBVIOUS
    <3>3. QED
      BY <1>1, <2>1, <2>3, <3>1, <3>2 DEF Account
  <2>4. QED
    BY <2>2, <2>3
<1>3. QED
  BY <1>1, <1>2 DEF Accounts, g

LEMMA Waits ==
  ASSUME NEW s, NEW f, NEW u, NEW n, Accounts(s, f, u, n), NEW i \in Ins, ~(i > n),
         u[i] = 0, i \notin Elems(s.q), Len(s.q) < MaxQueue,
         NEW z \in Piece, z.q = Append(s.q, i), z.r = Append(s.r, i),
         z.k = s.k \ {At(i, "signal")}, At(i, "dispatch") \notin s.k
  PROVE  Accounts(z, [f EXCEPT ![i] = "queued"], u, n)
<1> DEFINE g == [f EXCEPT ![i] = "queued"]
<1>1. g \in [Ins -> Ends0] /\ g[i] = "queued" /\ \A j \in Ins \ {i} : g[j] = f[j]
  BY DEF Accounts, Ends0
<1> HIDE DEF g
<1>2. s.q \in Seq(Ins) /\ Unique(s.q) /\ s.r = s.q /\ Len(s.q) \in Nat /\ MaxQueue \in Nat
  BY ConsoleAssumption DEF Accounts, Piece
<1>3. Unique(z.q) /\ Elems(z.q) = Elems(s.q) \cup {i} /\ Len(z.q) = Len(s.q) + 1
  BY <1>2, QueueAdded
<1>4. z.r = z.q /\ Len(z.q) <= MaxQueue
  BY <1>2, <1>3
<1>5. ASSUME NEW j \in Ins
      PROVE  Account(z, j, g[j], u[j]) /\ (j > n => g[j] = "new" /\ At(j, "signal") \notin z.k)
  <2>1. Account(s, j, f[j], u[j]) /\ (j > n => f[j] = "new" /\ At(j, "signal") \notin s.k)
    BY DEF Accounts
  <2>a. At(j, "dispatch") \in z.k <=> At(j, "dispatch") \in s.k
    BY DEF At
  <2>b. At(j, "signal") \in z.k => At(j, "signal") \in s.k
    OBVIOUS
  <2>2. CASE j = i
    BY <1>1, <1>3, <2>1, <2>2, <2>a DEF Account
  <2>3. CASE j # i
    BY <1>1, <1>3, <2>1, <2>3, <2>a, <2>b DEF Account
  <2>4. QED
    BY <2>2, <2>3
<1>6. QED
  BY <1>1, <1>3, <1>4, <1>5 DEF Accounts, g

\* The user clicks an item away.
LEMMA Clicked ==
  ASSUME NEW s, NEW f, NEW u, NEW n, Accounts(s, f, u, n), NEW k \in DOMAIN s.q
  PROVE  Accounts(Dropped(s, k), [f EXCEPT ![s.q[k]] = "dropped"], u, n)
<1> DEFINE z == Dropped(s, k)  i == s.q[k]  g == [f EXCEPT ![i] = "dropped"]
<1>1. /\ s \in Piece /\ s.q \in Seq(Ins) /\ Unique(s.q) /\ s.r = s.q /\ Len(s.q) <= MaxQueue
      /\ Len(s.q) \in Nat /\ MaxQueue \in Nat
  BY ConsoleAssumption DEF Accounts, Piece
<1>2. /\ Without(s.q, k) \in Seq(Ins) /\ Unique(Without(s.q, k))
      /\ Len(Without(s.q, k)) = Len(s.q) - 1
      /\ Elems(Without(s.q, k)) = Elems(s.q) \ {i} /\ i \in Ins /\ i \in Elems(s.q)
  BY <1>1, Lacking
<1>3. z \in Piece /\ z.q = Without(s.q, k) /\ z.r = Without(s.q, k) /\ z.k = s.k
  BY <1>1, <1>2 DEF Dropped, Piece
<1>4. Len(z.q) <= MaxQueue /\ z.r = z.q
  BY <1>1, <1>2, <1>3
<1> HIDE DEF z, i
<1>5. g \in [Ins -> Ends0] /\ g[i] = "dropped" /\ \A j \in Ins \ {i} : g[j] = f[j]
  BY <1>2 DEF Accounts, Ends0
<1> HIDE DEF g
<1>6. ASSUME NEW j \in Ins
      PROVE  Account(z, j, g[j], u[j]) /\ (j > n => g[j] = "new" /\ At(j, "signal") \notin z.k)
  <2>1. Account(s, j, f[j], u[j]) /\ (j > n => f[j] = "new" /\ At(j, "signal") \notin s.k)
    BY DEF Accounts
  <2>2. j = i => f[j] = "queued"
    BY <1>2, <2>1 DEF Account
  <2>3. QED
    BY <1>2, <1>3, <1>5, <2>1, <2>2 DEF Account
<1>7. QED
  BY <1>2, <1>3, <1>4, <1>5, <1>6 DEF Accounts, g, z, i

-----------------------------------------------------------------------------
\* The handlers.

LEMMA Become ==
  ASSUME NEW s \in Piece, Becomes(s)
  PROVE  Now' = s
  BY DEF Becomes, Now, Piece

\* What a handler leaves of an account when the state becomes s.
LEMMA Leaves ==
  ASSUME NEW s, NEW f, NEW u, NEW n, Accounts(s, f, u, n), Becomes(s),
         fate' = f, runs' = u, count' = n
  PROVE  Accounts(Now', fate', runs', count')
<1>1. s \in Piece
  BY DEF Accounts
<1>2. QED
  BY <1>1, Become

LEMMA DispatchKeeps ==
  ASSUME NEW s, NEW n, NEW i \in Ins, fate \in [Ins -> Ends0], kind \in [Ins -> Kinds],
         Accounts(s, [fate EXCEPT ![i] = "run"], runs, n), runs[i] = 0, count' = n,
         NEW inPump \in BOOLEAN, Dispatch(s, i, inPump)
  PROVE  Accounts(Now', fate', runs', count')
<1> DEFINE g == [fate EXCEPT ![i] = "run"]  u == [runs EXCEPT ![i] = @ + 1]
<1>1. g[i] = "run" /\ runs' = u
  BY DEF Dispatch
<1>2. Fates(s, s, i) = g
  BY DEF Fates
<1>3. ASSUME NEW z, NEW h, Accounts(z, h, runs, n), h[i] = "run", Becomes(z), fate' = h
      PROVE  Accounts(Now', fate', runs', count')
  <2>1. Accounts(z, h, u, n)
    BY <1>3, Ran
  <2>2. QED
    BY <1>1, <1>3, <2>1, Leaves
<1>4. Accounts(s, g, runs, n) /\ \A j \in Ins : j # i => g[j] = fate[j]
  OBVIOUS
<1>a. DOMAIN fate = Ins
  OBVIOUS
<1> HIDE DEF g, u
<1>5. ASSUME NEW t \in Removed(s)
      PROVE  Accounts(t, Fates(s, t, i), runs, n) /\ Fates(s, t, i)[i] = "run"
  <2> DEFINE h == [j \in Ins |-> IF j = i THEN "run"
                                 ELSE IF j \in Elems(s.q) \ Elems(t.q) THEN "dropped" ELSE g[j]]
  <2>1. Fates(s, t, i) = h /\ h[i] = "run"
    BY <1>4, <1>a DEF Fates
  <2> HIDE DEF h
  <2>2. Accounts(t, h, runs, n)
    BY <1>1, <1>4, Dropping DEF h
  <2>3. QED
    BY <2>1, <2>2
<1>6. CASE /\ kind[i] \in DOMAIN WorkOf /\ fate' = Fates(s, s, i)
           /\ Becomes([s EXCEPT !.w = TRUE, !.k = @ \cup {At(i, WorkOf[kind[i]])}])
  <2>1. WorkOf[kind[i]] \in {"request", "agent", "task", "slash"}
    BY <1>6 DEF WorkOf
  <2>2. Accounts([s EXCEPT !.w = TRUE, !.k = @ \cup {At(i, WorkOf[kind[i]])}], g, runs, n)
    BY <1>4, <2>1, Worked
  <2>3. QED
    BY <1>1, <1>2, <1>3, <1>6, <2>2
<1>7. CASE \E t \in Removed(s) : Becomes(Drain(t)) /\ fate' = Fates(s, t, i)
  <2>1. PICK t \in Removed(s) : Becomes(Drain(t)) /\ fate' = Fates(s, t, i)
    BY <1>7
  <2>2. Accounts(Drain(t), Fates(s, t, i), runs, n)
    BY <1>5, Drained
  <2>3. QED
    BY <1>3, <1>5, <2>1, <2>2
<1>8. CASE Becomes(Drain(s)) /\ fate' = Fates(s, s, i)
  <2>1. Accounts(Drain(s), g, runs, n)
    BY <1>4, Drained
  <2>2. QED
    BY <1>1, <1>2, <1>3, <1>8, <2>1
<1>9. CASE fate' = Fates(s, s, i) /\ (Becomes(s) \/ Becomes([s EXCEPT !.k = @ \cup {At(i, "slash")}]))
  <2>1. Accounts([s EXCEPT !.k = @ \cup {At(i, "slash")}], g, runs, n)
    BY <1>4, Worked
  <2>2. QED
    BY <1>1, <1>2, <1>3, <1>4, <1>9, <2>1
<1>10. QED
  BY <1>6, <1>7, <1>8, <1>9 DEF Dispatch

\* A queue item, from the user or a signal handler, whose worker, if any, is taken up.
LEMMA Queues ==
  ASSUME NEW s, NEW n, NEW i \in Ins, ~(i > n), count' = n, UNCHANGED runs,
         Accounts(Now, fate, runs, n), fate[i] = "new",
         s \in Piece, s.q = queue, s.r = rows, s.k = workers \ {At(i, "signal")},
         QueueItem(s, i)
  PROVE  Accounts(Now', fate', runs', count')
<1>1. Account(Now, i, fate[i], runs[i])
  BY DEF Accounts
<1>2. Now.q = queue /\ Now.r = rows /\ Now.k = workers /\ Now \in Piece /\ queue \in Seq(Ins)
      /\ Len(queue) \in Nat /\ MaxQueue \in Nat /\ rows = queue
  BY ConsoleAssumption DEF Now, Accounts, Piece
<1>3. /\ i \notin Elems(queue) /\ At(i, "dispatch") \notin workers /\ runs[i] = 0
      /\ s.k = workers \ {At(i, "dispatch"), At(i, "signal")}
  BY <1>1, <1>2 DEF Account
<1>4. CASE Len(queue) >= MaxQueue
  <2>1. Becomes(s) /\ fate' = [fate EXCEPT ![i] = "refused"]
    BY <1>4 DEF QueueItem
  <2>2. Accounts(s, [fate EXCEPT ![i] = "refused"], runs, n)
    BY <1>2, <1>3, Taken
  <2>3. QED
    BY <2>1, <2>2, Leaves
<1>5. CASE Len(queue) < MaxQueue
  <2> DEFINE z == Queued(s, i)
  <2>0. ~(Len(queue) >= MaxQueue)
    BY <1>2, <1>5
  <2>1. Becomes(z) /\ fate' = [fate EXCEPT ![i] = "queued"]
    BY <2>0, Zenon DEF QueueItem
  <2>2. z \in Piece /\ z.q = Append(queue, i) /\ z.r = Append(rows, i) /\ z.k = s.k
    <3>1. Append(queue, i) \in Seq(Ins)
      BY <1>2
    <3>2. QED
      BY <1>2, <3>1 DEF Queued, Piece
  <2> HIDE DEF z
  <2>3. Accounts(z, [fate EXCEPT ![i] = "queued"], runs, n)
    BY <1>2, <1>3, <1>5, <2>2, Waits
  <2>4. QED
    BY <2>1, <2>3, Leaves
<1>6. QED
  BY <1>2, <1>4, <1>5

-----------------------------------------------------------------------------
\* The invariant, action by action.

LEMMA ConsoleTyped ==
  ASSUME ConsoleInv
  PROVE  /\ Now \in Piece /\ Now.w = working /\ Now.q = queue /\ Now.r = rows /\ Now.k = workers
         /\ fate \in [Ins -> Ends0] /\ runs \in [Ins -> Nat] /\ kind \in [Ins -> Kinds]
         /\ rows = queue /\ queue \in Seq(Ins) /\ Len(queue) \in Nat
         /\ \A i \in Ins : Account(Now, i, fate[i], runs[i])
         /\ \A i \in Ins : i > count => fate[i] = "new" /\ At(i, "signal") \notin workers
  BY DEF ConsoleInv, Accounts, Piece, Now

\* What there is to show when an action leaves the settings alone.
LEMMA ConsoleKept ==
  ASSUME ConsoleInv, UNCHANGED still, count' \in 0 .. MaxInputs,
         Accounts(Now', fate', runs', count')
  PROVE  ConsoleInv'
  BY DEF ConsoleInv, still, Now, Accounts, Account, Piece, Unique

\* A handler that only starts, ends or reports work.
LEMMA ConsoleBecomes ==
  ASSUME ConsoleInv, UNCHANGED <<still, count, fate, runs>>,
         NEW s, Accounts(s, fate, runs, count), Becomes(s)
  PROVE  ConsoleInv'
<1>1. Accounts(Now', fate', runs', count')
  BY Leaves
<1>2. count' \in 0 .. MaxInputs /\ UNCHANGED still
  BY DEF ConsoleInv, still
<1>3. QED
  BY <1>1, <1>2, ConsoleKept

\* The next input: nothing is known of it yet.
LEMMA NextInput ==
  ASSUME ConsoleInv, count < MaxInputs
  PROVE  /\ count + 1 \in Ins /\ ~(count + 1 > count + 1) /\ count + 1 \in 0 .. MaxInputs
         /\ Accounts(Now, fate, runs, count + 1)
         /\ fate[count + 1] = "new" /\ runs[count + 1] = 0 /\ count + 1 \notin Elems(queue)
         /\ At(count + 1, "signal") \notin workers /\ At(count + 1, "dispatch") \notin workers
<1>1. count \in 0 .. MaxInputs /\ Accounts(Now, fate, runs, count) /\ MaxInputs \in Nat
  BY ConsoleAssumption DEF ConsoleInv
<1>2. count + 1 \in Ins /\ ~(count + 1 > count + 1) /\ count + 1 > count /\ count + 1 \in 0 .. MaxInputs
  BY <1>1 DEF Ins
<1>3. ASSUME NEW i \in Ins, i > count + 1 PROVE i > count
  BY <1>1, <1>3 DEF Ins
<1>4. Accounts(Now, fate, runs, count + 1)
  BY <1>1, <1>3 DEF Accounts
<1>5. /\ Account(Now, count + 1, fate[count + 1], runs[count + 1]) /\ fate[count + 1] = "new"
      /\ At(count + 1, "signal") \notin workers
  BY <1>2, ConsoleTyped
<1>6. Now.q = queue /\ Now.k = workers
  BY DEF Now
<1>7. QED
  BY <1>2, <1>4, <1>5, <1>6 DEF Account

LEMMA SubmitKeeps ==
  ASSUME ConsoleInv, Submit
  PROVE  ConsoleInv'
<1> DEFINE i == count + 1
<1>1. /\ i \in Ins /\ ~(i > i) /\ i \in 0 .. MaxInputs /\ Accounts(Now, fate, runs, i)
      /\ fate[i] = "new" /\ runs[i] = 0 /\ i \notin Elems(queue)
      /\ At(i, "signal") \notin workers /\ At(i, "dispatch") \notin workers
  BY NextInput DEF Submit
<1>2. count' = i /\ UNCHANGED still
  BY DEF Submit
<1>3. /\ Now \in Piece /\ Now.q = queue /\ Now.r = rows /\ Now.k = workers
      /\ fate \in [Ins -> Ends0] /\ kind \in [Ins -> Kinds]
      /\ workers = workers \ {At(i, "signal")}
      /\ Now.k = Now.k \ {At(i, "dispatch"), At(i, "signal")}
  BY <1>1, ConsoleTyped
<1> HIDE DEF i
<1>4. Accounts(Now, [fate EXCEPT ![i] = "run"], runs, i)
  BY <1>1, <1>3, Taken
<1>5. CASE Dispatch(Now, i, TRUE)
  BY <1>1, <1>2, <1>3, <1>4, <1>5, DispatchKeeps, ConsoleKept
<1>6. CASE QueueItem(Now, i) /\ UNCHANGED runs
  <2>1. Accounts(Now', fate', runs', count')
    BY <1>1, <1>2, <1>3, <1>6, Queues
  <2>2. QED
    BY <1>1, <1>2, <2>1, ConsoleKept
<1>7. CASE fate' = Fates(Now, Now, i) /\ Becomes(Now) /\ UNCHANGED runs
  <2>1. fate' = [fate EXCEPT ![i] = "run"]
    BY <1>3, <1>7 DEF Fates
  <2>2. Accounts(Now', fate', runs', count')
    BY <1>2, <1>4, <1>7, <2>1, Leaves
  <2>3. QED
    BY <1>1, <1>2, <2>2, ConsoleKept
<1>8. \/ Dispatch(Now, i, TRUE)
      \/ QueueItem(Now, i) /\ UNCHANGED runs
      \/ fate' = Fates(Now, Now, i) /\ Becomes(Now) /\ UNCHANGED runs
  BY Zenon DEF Submit, i
<1>9. QED
  BY <1>5, <1>6, <1>7, <1>8

LEMMA ClickKeeps ==
  ASSUME ConsoleInv, NEW k, ClickRow(k)
  PROVE  ConsoleInv'
<1>1. k \in DOMAIN Now.q /\ Now.q = queue
  BY ConsoleTyped DEF ClickRow
<1>2. Accounts(Now, fate, runs, count) /\ count \in 0 .. MaxInputs
  BY DEF ConsoleInv
<1>3. Accounts(Dropped(Now, k), [fate EXCEPT ![queue[k]] = "dropped"], runs, count)
  BY <1>1, <1>2, Clicked
<1>4. /\ Becomes(Dropped(Now, k)) /\ fate' = [fate EXCEPT ![queue[k]] = "dropped"]
      /\ UNCHANGED <<count, runs>> /\ UNCHANGED still
  BY DEF ClickRow
<1>5. QED
  BY <1>2, <1>3, <1>4, Leaves, ConsoleKept

LEMMA ArrivalsKeep ==
  ASSUME ConsoleInv, SignalArrives \/ RequestArrives
  PROVE  ConsoleInv'
<1> DEFINE i == count + 1
<1>1. /\ i \in Ins /\ ~(i > i) /\ i \in 0 .. MaxInputs /\ Accounts(Now, fate, runs, i)
      /\ fate[i] = "new" /\ runs[i] = 0 /\ i \notin Elems(queue)
      /\ At(i, "signal") \notin workers /\ At(i, "dispatch") \notin workers
  BY NextInput DEF SignalArrives, RequestArrives
<1>2. count' = i /\ UNCHANGED still
  BY DEF SignalArrives, RequestArrives
<1>3. /\ Now \in Piece /\ Now.w = working /\ Now.q = queue /\ Now.r = rows /\ Now.k = workers
      /\ fate \in [Ins -> Ends0] /\ rows = queue
      /\ Now.k = Now.k \ {At(i, "dispatch"), At(i, "signal")}
  BY <1>1, ConsoleTyped
<1> HIDE DEF i
<1>4. CASE SignalArrives
  <2> DEFINE z == [Now EXCEPT !.k = @ \cup {At(i, "signal")}]
  <2>1. At(i, "signal") \in [in : Ins, at : Places]
    BY <1>1 DEF At, Places
  <2>2. z \in Piece /\ z.w = working /\ z.q = queue /\ z.r = rows /\ z.k = workers \cup {At(i, "signal")}
    BY <1>3, <2>1 DEF Piece
  <2> HIDE DEF z
  <2>3. Becomes(z) /\ UNCHANGED <<fate, runs>>
    BY <1>4, <2>2 DEF SignalArrives, Becomes, i
  <2>4. ASSUME NEW j \in Ins
        PROVE  Account(z, j, fate[j], runs[j]) /\ (j > i => fate[j] = "new" /\ At(j, "signal") \notin z.k)
    <3>1. Account(Now, j, fate[j], runs[j]) /\ (j > i => fate[j] = "new" /\ At(j, "signal") \notin Now.k)
      BY <1>1 DEF Accounts
    <3>2. At(j, "dispatch") \in z.k <=> At(j, "dispatch") \in workers
      BY <2>2 DEF At
    <3>3. At(j, "signal") \in z.k => At(j, "signal") \in workers \/ j = i
      BY <2>2 DEF At
    <3>4. QED
      BY <1>1, <1>3, <2>2, <3>1, <3>2, <3>3 DEF Account
  <2>5. Accounts(z, fate, runs, i)
    BY <1>1, <1>3, <2>2, <2>4 DEF Accounts
  <2>6. QED
    BY <1>1, <1>2, <2>3, <2>5, Leaves, ConsoleKept
<1>5. CASE RequestArrives
  <2> DEFINE z == [Now EXCEPT !.k = @ \cup {At(i, "request")}]  g == [fate EXCEPT ![i] = "run"]
  <2>1. Accounts(Now, g, runs, i) /\ g[i] = "run"
    BY <1>1, <1>3, Taken
  <2> HIDE DEF g
  <2>2. Accounts(z, g, runs, i)
    BY <1>1, <2>1, Worked
  <2>3. Accounts(z, g, [runs EXCEPT ![i] = @ + 1], i)
    BY <1>1, <2>1, <2>2, Ran
  <2>4. [runs EXCEPT ![i] = @ + 1] = [runs EXCEPT ![i] = 1]
    BY <1>1
  <2>5. z.w = working /\ z.q = queue /\ z.r = rows /\ z.k = workers \cup {At(i, "request")}
    BY <1>3 DEF Piece
  <2> HIDE DEF z
  <2>6. Becomes(z) /\ fate' = g /\ runs' = [runs EXCEPT ![i] = 1]
    BY <1>5, <2>5 DEF RequestArrives, Becomes, i, g
  <2>7. QED
    BY <1>1, <1>2, <2>3, <2>4, <2>6, Leaves, ConsoleKept
<1>6. QED
  BY <1>4, <1>5

\* A worker is taken out.
LEMMA Without1 ==
  ASSUME ConsoleInv, NEW w
  PROVE  LET z == [Now EXCEPT !.k = @ \ {w}] IN
         z \in Piece /\ z.q = queue /\ z.r = rows /\ z.k = workers \ {w}
<1>1. Now \in Piece /\ Now.q = queue /\ Now.r = rows /\ Now.k = workers
  BY ConsoleTyped
<1>2. QED
  BY <1>1 DEF Piece

LEMMA WorkerOf ==
  ASSUME ConsoleInv, NEW w \in workers
  PROVE  w.in \in Ins /\ w.at \in Places /\ w = At(w.in, w.at)
<1>1. Now \in Piece /\ Now.k = workers
  BY ConsoleTyped
<1>2. w \in [in : Ins, at : Places]
  BY <1>1 DEF Piece
<1>3. QED
  BY <1>2 DEF At

LEMMA StartsKeeps ==
  ASSUME ConsoleInv, NEW w, Starts(w)
  PROVE  ConsoleInv'
<1> DEFINE s == [Now EXCEPT !.k = @ \ {w}]  i == w.in
<1>1. w \in workers /\ w.at \in {"dispatch", "signal"} /\ count' = count /\ UNCHANGED still
  BY DEF Starts
<1>2. i \in Ins /\ w = At(i, w.at)
  BY <1>1, WorkerOf
<1>3. s \in Piece /\ s.q = queue /\ s.r = rows /\ s.k = workers \ {w}
  BY Without1
<1>4. \/ w.at = "signal" /\ QueueItem(s, i) /\ UNCHANGED runs
      \/ Dispatch(s, i, FALSE)
  BY DEF Starts
<1> HIDE DEF s, i
<1>5. /\ Account(Now, i, fate[i], runs[i]) /\ (i > count => fate[i] = "new" /\ At(i, "signal") \notin workers)
      /\ Now.q = queue /\ Now.r = rows /\ Now.k = workers
      /\ fate \in [Ins -> Ends0] /\ kind \in [Ins -> Kinds]
  BY <1>2, ConsoleTyped
<1>6. Accounts(Now, fate, runs, count) /\ count \in 0 .. MaxInputs
  BY DEF ConsoleInv
<1>7. /\ ~(i > count) /\ runs[i] = 0 /\ i \notin Elems(queue)
      /\ s.k = workers \ {At(i, "dispatch"), At(i, "signal")}
      /\ w.at = "signal" => fate[i] = "new" /\ s.k = workers \ {At(i, "signal")}
  <2>1. CASE w.at = "dispatch"
    <3>1. At(i, "dispatch") \in workers /\ w = At(i, "dispatch")
      BY <1>1, <1>2, <2>1
    <3>2. fate[i] = "queued" /\ At(i, "signal") \notin workers
      BY <1>5, <3>1 DEF Account
    <3>3. QED
      BY <1>3, <1>5, <2>1, <3>1, <3>2 DEF Account
  <2>2. CASE w.at = "signal"
    <3>1. At(i, "signal") \in workers /\ w = At(i, "signal")
      BY <1>1, <1>2, <2>2
    <3>2. fate[i] = "new" /\ At(i, "dispatch") \notin workers
      BY <1>5, <3>1 DEF Account
    <3>3. QED
      BY <1>3, <1>5, <2>2, <3>1, <3>2 DEF Account
  <2>3. QED
    BY <1>1, <2>1, <2>2
<1>8. CASE w.at = "signal" /\ QueueItem(s, i) /\ UNCHANGED runs
  <2>1. Accounts(Now', fate', runs', count')
    BY <1>1, <1>2, <1>3, <1>6, <1>7, <1>8, Queues
  <2>2. QED
    BY <1>1, <1>6, <2>1, ConsoleKept
<1>9. CASE Dispatch(s, i, FALSE)
  <2>1. Accounts(s, [fate EXCEPT ![i] = "run"], runs, count)
    BY <1>2, <1>3, <1>5, <1>6, <1>7, Taken
  <2>2. Accounts(Now', fate', runs', count')
    BY <1>1, <1>2, <1>5, <1>7, <1>9, <2>1, DispatchKeeps
  <2>3. QED
    BY <1>1, <1>6, <2>2, ConsoleKept
<1>10. QED
  BY <1>4, <1>8, <1>9

\* A worker that dispatches nothing is done.
LEMMA Gone ==
  ASSUME ConsoleInv, NEW w, w.at \notin {"dispatch", "signal"}
  PROVE  Accounts([Now EXCEPT !.k = @ \ {w}], fate, runs, count)
<1> DEFINE z == [Now EXCEPT !.k = @ \ {w}]
<1>1. z \in Piece /\ z.q = queue /\ z.r = rows /\ z.k = workers \ {w}
  BY Without1
<1> HIDE DEF z
<1>2. Now.q = queue /\ Now.r = rows /\ Now.k = workers /\ Accounts(Now, fate, runs, count)
  BY ConsoleTyped DEF ConsoleInv
<1>3. \A i \in Ins : At(i, "dispatch") # w /\ At(i, "signal") # w
  BY DEF At
<1>4. Accounts(z, fate, runs, count)
  BY <1>1, <1>2, <1>3, SamePlaces
<1>5. QED
  BY <1>4 DEF z

LEMMA EndsKeep ==
  ASSUME ConsoleInv, NEW w, Ends(w) \/ Sends(w)
  PROVE  ConsoleInv'
<1> DEFINE s == [Now EXCEPT !.k = @ \ {w}]
<1>1. UNCHANGED <<still, count, fate, runs>> /\ w.at \notin {"dispatch", "signal"}
  BY DEF Ends, Sends
<1>2. Accounts(s, fate, runs, count)
  BY <1>1, Gone
<1>3. Becomes(s) \/ Becomes(Idle(s)) \/ Becomes(Idle(Idle(s)))
  BY DEF Ends, Sends
<1> HIDE DEF s
<1>4. Accounts(Idle(s), fate, runs, count)
  BY <1>2, Idled
<1>5. Accounts(Idle(Idle(s)), fate, runs, count)
  BY <1>4, Idled
<1>6. QED
  BY <1>1, <1>2, <1>3, <1>4, <1>5, ConsoleBecomes

LEMMA CommandKeeps ==
  ASSUME ConsoleInv, NEW i, CommandEnds(i)
  PROVE  ConsoleInv'
<1> DEFINE w == At(i, "slash")  s == [Now EXCEPT !.k = @ \ {w}]
<1>1. UNCHANGED <<still, count, fate, runs>> /\ (Becomes(Drain(Now)) \/ Becomes(Drain(s)))
  BY DEF CommandEnds
<1>2. w.at \notin {"dispatch", "signal"}
  BY DEF At
<1>3. Accounts(s, fate, runs, count) /\ Accounts(Now, fate, runs, count)
  BY <1>2, Gone DEF ConsoleInv
<1> HIDE DEF w, s
<1>4. Accounts(Drain(s), fate, runs, count) /\ Accounts(Drain(Now), fate, runs, count)
  BY <1>3, Drained
<1>5. QED
  BY <1>1, <1>4, ConsoleBecomes

LEMMA EventKeeps ==
  ASSUME ConsoleInv, Event
  PROVE  ConsoleInv'
<1>1. Accounts(Now, fate, runs, count) /\ Now \in Piece
  BY DEF ConsoleInv, Accounts
<1>2. /\ [Now EXCEPT !.w = TRUE] \in Piece /\ [Now EXCEPT !.w = TRUE].q = Now.q
      /\ [Now EXCEPT !.w = TRUE].r = Now.r /\ [Now EXCEPT !.w = TRUE].k = Now.k
  BY <1>1 DEF Piece
<1>3. Accounts([Now EXCEPT !.w = TRUE], fate, runs, count)
  BY <1>1, <1>2, SamePlaces
<1>4. Accounts(Idle(Now), fate, runs, count)
  BY <1>1, Idled
<1>5. UNCHANGED <<still, count, fate, runs>> /\ (Becomes([Now EXCEPT !.w = TRUE]) \/ Becomes(Idle(Now)))
  BY DEF Event
<1>6. QED
  BY <1>3, <1>4, <1>5, ConsoleBecomes

LEMMA ConsoleStill ==
  ASSUME ConsoleInv, UNCHANGED <<still, working, queue, rows, workers, count, fate, runs>>
  PROVE  ConsoleInv'
  BY DEF ConsoleInv, still, Now, Accounts, Account, Piece, Unique

LEMMA ConsoleStep ==
  ASSUME ConsoleInv, [ConsoleNext]_consolevars
  PROVE  ConsoleInv'
<1>1. CASE UNCHANGED consolevars
  BY <1>1, ConsoleStill DEF consolevars, still
<1>2. CASE Others \/ Serves \/ Breaks
  BY <1>2, ConsoleStill DEF Others, Serves, Breaks
<1>3. CASE Submit \/ SignalArrives \/ RequestArrives \/ (\E k \in 1 .. MaxQueue : ClickRow(k))
  BY <1>3, SubmitKeeps, ArrivalsKeep, ClickKeeps
<1>4. CASE WorkerStep \/ CommandEnds(pump) \/ Event
  BY <1>4, StartsKeeps, EndsKeep, CommandKeeps, EventKeeps DEF WorkerStep
<1>5. QED
  BY <1>1, <1>2, <1>3, <1>4 DEF ConsoleNext

LEMMA ConsoleStart ==
  ASSUME ConsoleInit
  PROVE  ConsoleInv
<1>1. MaxInputs \in Nat \ {0} /\ MaxQueue \in Nat \ {0}
  BY ConsoleAssumption
<1>2. count \in {0, 1} /\ count \in 0 .. MaxInputs
  BY <1>1 DEF ConsoleInit
<1>3. /\ queue \in Seq(Ins) /\ Len(queue) = count /\ Elems(queue) = 1 .. count
      /\ DOMAIN queue = 1 .. count /\ \A j \in 1 .. count : queue[j] = j
  <2>1. queue = [i \in 1 .. count |-> i]
    BY DEF ConsoleInit
  <2>2. \A i \in 1 .. count : i \in Ins
    BY <1>1, <1>2 DEF Ins
  <2>3. queue \in Seq(Ins) /\ Len(queue) = count /\ DOMAIN queue = 1 .. count
    BY <1>2, <2>1, <2>2
  <2>4. QED
    BY <2>1, <2>3 DEF Elems
<1>4. Unique(queue) /\ Len(queue) <= MaxQueue
  BY <1>1, <1>2, <1>3 DEF Unique
<1>5. Now \in Piece /\ Now.q = queue /\ Now.r = rows /\ Now.k = {} /\ rows = queue
  BY <1>3 DEF ConsoleInit, Now, Piece
<1>6. /\ fate = [i \in Ins |-> IF i <= count THEN "queued" ELSE "new"]
      /\ runs = [i \in Ins |-> 0] /\ remote \in BOOLEAN /\ kind \in [Ins -> Kinds]
  BY DEF ConsoleInit, Ins
<1>7. fate \in [Ins -> Ends0] /\ runs \in [Ins -> Nat]
  BY <1>6 DEF Ends0
<1>8. ASSUME NEW i \in Ins
      PROVE  Account(Now, i, fate[i], runs[i]) /\ (i > count => fate[i] = "new")
  <2>1. runs[i] = 0 /\ fate[i] \in {"queued", "new"} /\ (fate[i] = "queued" <=> i <= count)
    BY <1>6
  <2>2. i \in Elems(queue) <=> i <= count
    BY <1>2, <1>3 DEF Ins
  <2>3. i \in Nat
    BY DEF Ins
  <2>4. QED
    BY <1>2, <1>5, <2>1, <2>2, <2>3 DEF Account
<1>9. Accounts(Now, fate, runs, count)
  BY <1>4, <1>5, <1>7, <1>8 DEF Accounts
<1>10. QED
  BY <1>2, <1>6, <1>9 DEF ConsoleInv

\* In the account of an input its places are counted once each.
LEMMA ConsoleShows ==
  ASSUME ConsoleInv
  PROVE  InputsRunOnce
<1>1. /\ rows = queue /\ Len(queue) <= MaxQueue /\ Unique(queue) /\ Now.q = queue /\ Now.k = workers
      /\ count \in 0 .. MaxInputs /\ MaxInputs \in Nat
  BY ConsoleAssumption, ConsoleTyped DEF ConsoleInv, Accounts
<1>2. ASSUME NEW i \in 1 .. count
      PROVE  /\ runs[i] <= 1
             /\ fate[i] = "queued" =>
                  /\ runs[i] = 0
                  /\ Cardinality({k \in DOMAIN queue : queue[k] = i})
                       + Cardinality({w \in workers : w.in = i /\ w.at = "dispatch"}) = 1
             /\ fate[i] \in {"dropped", "refused"} => runs[i] = 0 /\ i \notin Elems(queue)
  <2>1. i \in Ins
    BY <1>1 DEF Ins
  <2>2. Account(Now, i, fate[i], runs[i])
    BY <2>1, ConsoleTyped
  <2> DEFINE Q == {k \in DOMAIN queue : queue[k] = i}
             W == {w \in workers : w.in = i /\ w.at = "dispatch"}
  <2>5. W = IF At(i, "dispatch") \in workers THEN {At(i, "dispatch")} ELSE {}
    <3>1. \A w \in workers : w = At(w.in, w.at)
      BY WorkerOf
    <3>2. At(i, "dispatch").in = i /\ At(i, "dispatch").at = "dispatch"
      BY DEF At
    <3>3. QED
      BY <3>1, <3>2
  <2>6. Cardinality(W) = IF At(i, "dispatch") \in workers THEN 1 ELSE 0
    BY <2>5, FS_Singleton, FS_EmptySet
  <2>7. Cardinality(Q) = IF i \in Elems(queue) THEN 1 ELSE 0
    <3>1. CASE i \in Elems(queue)
      <4>1. PICK k \in DOMAIN queue : queue[k] = i
        BY <3>1 DEF Elems
      <4>2. Q = {k}
        BY <1>1, <4>1 DEF Unique
      <4>3. QED
        BY <3>1, <4>2, FS_Singleton
    <3>2. CASE i \notin Elems(queue)
      <4>1. Q = {}
        BY <3>2 DEF Elems
      <4>2. QED
        BY <3>2, <4>1, FS_EmptySet
    <3>3. QED
      BY <3>1, <3>2
  <2> HIDE DEF Q, W
  <2>8. fate[i] = "queued" => Cardinality(Q) + Cardinality(W) = 1
    BY <1>1, <2>2, <2>6, <2>7 DEF Account
  <2>9. /\ runs[i] <= 1 /\ (fate[i] # "run" => runs[i] = 0)
        /\ fate[i] # "queued" => i \notin Elems(queue)
    BY <1>1, <2>2 DEF Account
  <2>10. QED
    BY <2>8, <2>9 DEF Q, W
<1>3. QED
  BY <1>1, <1>2 DEF InputsRunOnce

\* No input of the terminal is lost and none is run twice: on_input_submitted,
\* _drain_input_queue, _dispatch_input and the workers keep every accepted input at one
\* place, in the queue or in one worker that will dispatch it, until it is dispatched
\* once or the user removes it; the rows on the screen are the queue.
THEOREM EveryInputRunsOnce == ConsoleSpec => []InputsRunOnce
<1>1. ConsoleInit => ConsoleInv
  BY ConsoleStart
<1>2. ConsoleInv /\ [ConsoleNext]_consolevars => ConsoleInv'
  BY ConsoleStep
<1>3. ConsoleInv => InputsRunOnce
  BY ConsoleShows
<1>4. QED
  BY <1>1, <1>2, <1>3, PTL DEF ConsoleSpec

-----------------------------------------------------------------------------
(* Nobody waits for nothing. While the terminal says that it works, there is *)
(* a worker, an input at the daemon or an event whose end will drain.        *)

InHand(k) == \E w \in k : w.at \in {"agent", "request", "task"}
Answering == line = "up" /\ daemon # << >>
OnItsWay == \E k \in DOMAIN stream : stream[k] # "busy"
WorkIsUnderWay == working => InHand(workers) \/ Answering \/ OnItsWay

\* Whatever the daemon has said, the last it says of a turn is not that it is busy.
WorkInv ==
  /\ stream \in Seq({"busy", "idle", "error"}) /\ daemon \in Seq(Int)
  /\ line = "down" => daemon = << >>
  /\ stream # << >> => stream[Len(stream)] # "busy"
  /\ WorkIsUnderWay

Form(s) == DOMAIN s = {"w", "q", "r", "k"}

LEMMA DrainWorks ==
  ASSUME NEW s, Form(s)
  PROVE  Form(Drain(s)) /\ Drain(s).w = s.w /\ s.k \subseteq Drain(s).k
<1>1. CASE s.w \/ s.q = << >>
  BY <1>1 DEF Drain
<1>2. CASE ~(s.w \/ s.q = << >>)
  <2>1. Drain(s) = [s EXCEPT !.q = Tail(@), !.r = Tail(@), !.k = @ \cup {At(Head(s.q), "dispatch")}]
    BY <1>2 DEF Drain
  <2>2. QED
    BY <2>1 DEF Form
<1>3. QED
  BY <1>1, <1>2

LEMMA IdleWorks ==
  ASSUME NEW s, Form(s)
  PROVE  Form(Idle(s)) /\ Idle(s).w = FALSE /\ s.k \subseteq Idle(s).k
<1> DEFINE z == [s EXCEPT !.w = FALSE]
<1>1. Form(z) /\ z.w = FALSE /\ z.k = s.k
  BY DEF Form
<1> HIDE DEF z
<1>2. QED
  BY <1>1, DrainWorks DEF Idle, z

LEMMA RemovedWorks ==
  ASSUME NEW s, Form(s), NEW t \in Removed(s)
  PROVE  Form(t) /\ t.w = s.w /\ t.k = s.k
<1>1. CASE t = [s EXCEPT !.q = << >>, !.r = << >>]
  BY <1>1 DEF Form
<1>2. ASSUME NEW k \in DOMAIN s.q, t = Dropped(s, k) PROVE Form(t) /\ t.w = s.w /\ t.k = s.k
  BY <1>2 DEF Dropped, Form
<1>3. QED
  BY <1>1, <1>2 DEF Removed

LEMMA DispatchWorks ==
  ASSUME NEW s, Form(s), NEW i, NEW inPump, Dispatch(s, i, inPump)
  PROVE  s.k \subseteq workers' /\ (working' = s.w \/ InHand(workers'))
<1>1. CASE kind[i] \in DOMAIN WorkOf /\ Becomes([s EXCEPT !.w = TRUE, !.k = @ \cup {At(i, WorkOf[kind[i]])}])
  <2>1. workers' = s.k \cup {At(i, WorkOf[kind[i]])}
    BY <1>1 DEF Becomes, Form
  <2>2. At(i, WorkOf[kind[i]]).at \in {"agent", "task"}
    BY <1>1 DEF WorkOf, At
  <2>3. QED
    BY <2>1, <2>2 DEF InHand
<1>2. ASSUME NEW t \in Removed(s), Becomes(Drain(t)) PROVE s.k \subseteq workers' /\ working' = s.w
  BY <1>2, RemovedWorks, DrainWorks DEF Becomes
<1>3. CASE Becomes(Drain(s))
  BY <1>3, DrainWorks DEF Becomes
<1>4. CASE Becomes(s)
  BY <1>4 DEF Becomes
<1>5. CASE Becomes([s EXCEPT !.k = @ \cup {At(i, "slash")}])
  BY <1>5 DEF Becomes, Form
<1>6. QED
  BY <1>1, <1>2, <1>3, <1>4, <1>5 DEF Dispatch

LEMMA QueueItemWorks ==
  ASSUME NEW s, Form(s), NEW i, QueueItem(s, i)
  PROVE  workers' = s.k /\ working' = s.w
BY DEF QueueItem, Queued, Becomes, Form

\* The terminal's own steps.
LEMMA TerminalWorks ==
  ASSUME WorkInv, UNCHANGED <<line, daemon, stream>>, InHand(workers) => InHand(workers'),
         working' => working \/ InHand(workers')
  PROVE  WorkInv'
BY DEF WorkInv, WorkIsUnderWay, Answering, OnItsWay

LEMMA NowForm == Form(Now) /\ Now.w = working /\ Now.k = workers
BY DEF Form, Now

LEMMA WithoutForm ==
  ASSUME NEW w
  PROVE  LET s == [Now EXCEPT !.k = @ \ {w}] IN Form(s) /\ s.w = working /\ s.k = workers \ {w}
BY DEF Form, Now

LEMMA MoreInHand ==
  ASSUME NEW k, NEW m, k \subseteq m, InHand(k)
  PROVE  InHand(m)
BY DEF InHand

LEMMA UsersSteps ==
  ASSUME WorkInv, Submit \/ SignalArrives \/ RequestArrives \/ (\E k \in 1 .. MaxQueue : ClickRow(k))
  PROVE  WorkInv'
<1>1. UNCHANGED <<line, daemon, stream>>
  BY DEF Submit, SignalArrives, RequestArrives, ClickRow, far
<1>2. ASSUME workers \subseteq workers', working' = working \/ InHand(workers') PROVE WorkInv'
  BY <1>1, <1>2, TerminalWorks, MoreInHand
<1>3. CASE Submit
  BY <1>2, <1>3, NowForm, DispatchWorks, QueueItemWorks DEF Submit, Becomes
<1>4. CASE SignalArrives \/ RequestArrives
  BY <1>2, <1>4 DEF SignalArrives, RequestArrives
<1>5. ASSUME NEW k \in 1 .. MaxQueue, ClickRow(k) PROVE WorkInv'
  <2>1. Dropped(Now, k).w = working /\ Dropped(Now, k).k = workers
    BY DEF Dropped, Now
  <2>2. QED
    BY <1>2, <1>5, <2>1 DEF ClickRow, Becomes
<1>6. QED
  BY <1>3, <1>4, <1>5

LEMMA WorkersSteps ==
  ASSUME ConsoleInv, WorkInv, NEW w, Starts(w) \/ Ends(w) \/ Sends(w)
  PROVE  WorkInv'
<1> DEFINE s == [Now EXCEPT !.k = @ \ {w}]
<1>1. Form(s) /\ s.w = working /\ s.k = workers \ {w}
  BY WithoutForm
<1> HIDE DEF s
<1>2. CASE Starts(w)
  <2>1. w.at \in {"dispatch", "signal"} /\ UNCHANGED <<line, daemon, stream>>
    BY <1>2 DEF Starts, far
  <2>2. InHand(workers) => InHand(s.k)
    BY <1>1, <2>1 DEF InHand
  <2>3. s.k \subseteq workers' /\ (working' = working \/ InHand(workers'))
    BY <1>1, <1>2, DispatchWorks, QueueItemWorks DEF Starts, s
  <2>4. QED
    BY <2>1, <2>2, <2>3, TerminalWorks, MoreInHand
<1>3. ASSUME Becomes(Idle(s)) \/ Becomes(Idle(Idle(s))), UNCHANGED <<daemon, stream>>, line' = line
      PROVE  WorkInv'
  <2>1. Form(Idle(s)) /\ Idle(s).w = FALSE
    BY <1>1, IdleWorks
  <2>2. Idle(Idle(s)).w = FALSE
    BY <2>1, IdleWorks
  <2>3. working' = FALSE
    BY <1>3, <2>1, <2>2 DEF Becomes
  <2>4. QED
    BY <1>3, <2>3 DEF WorkInv, WorkIsUnderWay
<1>4. CASE Ends(w)
  BY <1>3, <1>4 DEF Ends, far, s
<1>5. CASE Sends(w)
  <2>1. CASE line = "up" /\ daemon' = Append(daemon, w.in) /\ UNCHANGED <<line, stream>>
    <3>0. w.in \in Int
      BY <1>5, WorkerOf DEF Sends, Ins
    <3>1. daemon' # << >> /\ daemon' \in Seq(Int)
      BY <2>1, <3>0 DEF WorkInv
    <3>2. QED
      BY <2>1, <3>1 DEF WorkInv, WorkIsUnderWay, Answering
  <2>2. QED
    BY <1>3, <1>5, <2>1 DEF Sends, s
<1>6. QED
  BY <1>2, <1>4, <1>5

LEMMA CommandsStep ==
  ASSUME WorkInv, NEW i, CommandEnds(i)
  PROVE  WorkInv'
<1> DEFINE w == At(i, "slash")  s == [Now EXCEPT !.k = @ \ {w}]
<1>1. Form(s) /\ s.w = working /\ s.k = workers \ {w} /\ w.at = "slash"
  BY WithoutForm DEF At
<1>2. UNCHANGED <<line, daemon, stream>> /\ (Becomes(Drain(Now)) \/ Becomes(Drain(s)))
  BY DEF CommandEnds, far
<1> HIDE DEF s, w
<1>3. InHand(workers) => InHand(s.k)
  BY <1>1 DEF InHand
<1>4. working' = working /\ (workers \subseteq workers' \/ s.k \subseteq workers')
  BY <1>1, <1>2, NowForm, DrainWorks DEF Becomes
<1>5. QED
  BY <1>2, <1>3, <1>4, TerminalWorks, MoreInHand

LEMMA DaemonsSteps ==
  ASSUME WorkInv, Others \/ Serves \/ Breaks \/ Event
  PROVE  WorkInv'
<1> DEFINE n == Len(stream)
<1>1. /\ stream \in Seq({"busy", "idle", "error"}) /\ daemon \in Seq(Int) /\ n \in Nat /\ DOMAIN stream = 1 .. n
      /\ line = "down" => daemon = << >>
      /\ stream # << >> => n > 0 /\ stream[n] # "busy"
  BY DEF WorkInv
<1>2. ASSUME NEW t \in Seq({"busy", "idle", "error"}), t # << >>, t[Len(t)] # "busy", stream' = t,
             daemon' \in Seq(Int), line' = "down" => daemon' = << >>
      PROVE  WorkInv'
  <2>1. Len(t) \in DOMAIN t
    BY <1>2
  <2>2. OnItsWay'
    BY <1>2, <2>1 DEF OnItsWay
  <2>3. QED
    BY <1>2, <2>2 DEF WorkInv, WorkIsUnderWay
<1>3. CASE Others
  <2>1. daemon' = Append(daemon, 0) /\ line = "up" /\ UNCHANGED <<line, stream, working, workers>>
    BY <1>3 DEF Others
  <2>2. daemon' # << >> /\ daemon' \in Seq(Int)
    BY <1>1, <2>1
  <2>3. QED
    BY <1>1, <2>1, <2>2 DEF WorkInv, WorkIsUnderWay, Answering
<1>4. CASE Serves
  <2>1. daemon' = Tail(daemon) /\ daemon # << >> /\ line = "up" /\ line' = line
    BY <1>4 DEF Serves
  <2>2. PICK e \in {<<"busy", "idle">>, <<"busy", "error", "idle">>} : stream' = stream \o e
    BY <1>4 DEF Serves
  <2>3. e \in Seq({"busy", "idle", "error"}) /\ Len(e) \in Nat \ {0} /\ e[Len(e)] = "idle"
    <3>1. CASE e = <<"busy", "idle">>
      BY <3>1
    <3>2. CASE e = <<"busy", "error", "idle">>
      BY <3>2
    <3>3. QED
      BY <2>2, <3>1, <3>2
  <2>4. /\ stream' \in Seq({"busy", "idle", "error"}) /\ Len(stream') = n + Len(e)
        /\ stream'[n + Len(e)] = e[Len(e)]
    BY <1>1, <2>2, <2>3
  <2>5. stream' # << >> /\ stream'[Len(stream')] # "busy"
    BY <1>1, <2>3, <2>4
  <2>6. daemon' \in Seq(Int) /\ line' # "down"
    BY <1>1, <2>1
  <2>7. QED
    BY <1>2, <2>4, <2>5, <2>6
<1>5. CASE Breaks
  <2>1. daemon' = << >> /\ stream' = Append(stream, "error")
    BY <1>5 DEF Breaks
  <2>2. stream' \in Seq({"busy", "idle", "error"}) /\ stream' # << >> /\ stream'[Len(stream')] = "error"
    BY <1>1, <2>1
  <2>3. QED
    BY <1>2, <2>1, <2>2
<1>6. CASE Event
  <2>1. stream # << >> /\ stream' = Tail(stream) /\ UNCHANGED <<line, daemon>>
    BY <1>6 DEF Event, far
  <2>2. /\ stream' \in Seq({"busy", "idle", "error"}) /\ Len(stream') = n - 1
        /\ \A k \in 1 .. n - 1 : stream'[k] = stream[k + 1]
    BY <1>1, <2>1
  <2>3. stream' # << >> => stream'[Len(stream')] # "busy"
    BY <1>1, <2>1, <2>2
  <2>4. CASE stream' # << >>
    BY <1>1, <1>2, <2>1, <2>2, <2>3, <2>4
  <2>5. CASE stream' = << >>
    <3>1. Head(stream) # "busy"
      <4>0. Len(stream') = 0
        BY <2>5
      <4>1. n = 1 /\ stream[1] # "busy"
        BY <1>1, <2>1, <2>2, <4>0
      <4>2. QED
        BY <1>1, <4>1
    <3>2. working' = FALSE
      BY <1>6, <3>1, NowForm, IdleWorks DEF Event, Becomes
    <3>3. QED
      BY <1>1, <2>1, <2>2, <2>5, <3>2 DEF WorkInv, WorkIsUnderWay
  <2>6. QED
    BY <2>4, <2>5
<1>7. QED
  BY <1>3, <1>4, <1>5, <1>6

\* A terminal that says it works is not stuck: somebody works in it or the daemon owes it an
\* answer, or an event is on its way that will end the work and drain the queue, even
\* when the connection is lost with inputs at the daemon (_handle_remote_session_event,
\* the finally blocks of the workers).
THEOREM NobodyIsStuck == ConsoleSpec => []WorkIsUnderWay
<1>1. ConsoleInit => WorkInv
  BY DEF ConsoleInit, WorkInv, WorkIsUnderWay
<1>2. ConsoleInv /\ WorkInv /\ [ConsoleNext]_consolevars => WorkInv'
  <2> SUFFICES ASSUME ConsoleInv, WorkInv, [ConsoleNext]_consolevars PROVE WorkInv'
    OBVIOUS
  <2>1. CASE UNCHANGED consolevars
    BY <2>1, TerminalWorks DEF consolevars
  <2>2. CASE WorkerStep \/ CommandEnds(pump)
    BY <2>2, WorkersSteps, CommandsStep DEF WorkerStep
  <2>3. QED
    BY <2>1, <2>2, UsersSteps, DaemonsSteps DEF ConsoleNext
<1>3. QED
  BY <1>1, <1>2, ConsoleStart, ConsoleStep, PTL DEF ConsoleSpec, WorkInv

-----------------------------------------------------------------------------
(* The sub-agents. Whoever holds an agent that was started, a registry, a    *)
(* command that starts one again or an asker that spawns one, holds it alone. *)

Outputs == {"none", "good", "error", "empty"}
Agent == [name : Names \cup {NoName}, running : BOOLEAN, inbox : Seq(Tasks), on : Tasks \cup {None},
          tried : Nat, recorder : SUBSET Tasks,
          last : [task : Tasks \cup {None}, calls : SUBSET Tasks, output : Outputs]]
Asking == [name : Names \cup {"none"}, by : Managers \cup {"none"}, at : {"new", "spawn", "asked", "over"},
           via : Objects \cup {None}, reply : Outputs]

\* One agent's own books.
OwnBooks(a) ==
  /\ a.recorder \subseteq {a.on} /\ a.last.calls \subseteq {a.last.task}
  /\ a.on # None => a.tried <= Fallbacks + 1
  /\ a.on = None /\ a.last.task # None /\ a.last.output # "good" =>
       /\ a.tried > Fallbacks
       /\ a.last.output = "empty" => a.tried = Fallbacks + 2
Serving(a, o, n) == o \in Objects /\ n \in Names /\ a[o].name = n /\ a[o].running

AgentsTyped ==
  /\ agent \in [Objects -> Agent] /\ task \in [Tasks -> Asking]
  /\ registry \in [Managers -> [Names -> Objects \cup {None}]]
  /\ command \in [Managers -> Objects \cup {None}]
Held ==
  /\ \A m \in Managers, n \in Names : registry[m][n] # None => Serving(agent, registry[m][n], n)
  /\ \A m \in Managers : command[m] # None => Serving(agent, command[m], agent[command[m]].name)
  /\ \A t \in Tasks : task[t].at = "spawn" => Serving(agent, task[t].via, task[t].name) /\ task[t].by \in Managers
HeldAlone ==
  /\ \A m, k \in Managers, n, i \in Names :
       registry[m][n] # None /\ registry[m][n] = registry[k][i] => m = k /\ n = i
  /\ \A m, k \in Managers, n \in Names : command[m] # None => registry[k][n] # command[m]
  /\ \A m, k \in Managers : command[m] # None /\ command[m] = command[k] => m = k
  /\ \A t \in Tasks : task[t].at = "spawn" =>
       /\ \A m \in Managers : command[m] # task[t].via /\ \A n \in Names : registry[m][n] # task[t].via
       /\ \A u \in Tasks : task[u].at = "spawn" /\ task[u].via = task[t].via => u = t
AgentsInv == AgentsTyped /\ Held /\ HeldAlone /\ \A o \in Objects : OwnBooks(agent[o])

\* A fresh agent, stopped or not.
LEMMA FreshOne ==
  ASSUME NEW n \in Names \cup {NoName}
  PROVE  /\ Fresh(n) \in Agent /\ [Fresh(n) EXCEPT !.running = TRUE] \in Agent
         /\ [Fresh(n) EXCEPT !.running = TRUE].name = n /\ [Fresh(n) EXCEPT !.running = TRUE].running
         /\ OwnBooks(Fresh(n)) /\ OwnBooks([Fresh(n) EXCEPT !.running = TRUE])
<1>1. << >> \in Seq(Tasks)
  OBVIOUS
<1> DEFINE l == [task |-> None, calls |-> {}, output |-> "none"]
           L == [task : Tasks \cup {None}, calls : SUBSET Tasks, output : Outputs]
           f == [Fresh(n) EXCEPT !.running = TRUE]
<1>2. l \in L /\ l.task = None /\ l.calls = {} /\ l.output = "none"
  BY DEF Outputs
<1>3. Fresh(n) = [name |-> n, running |-> FALSE, inbox |-> << >>, on |-> None, tried |-> 0, recorder |-> {}, last |-> l]
  BY DEF Fresh
<1>4. Agent = [name : Names \cup {NoName}, running : BOOLEAN, inbox : Seq(Tasks), on : Tasks \cup {None},
               tried : Nat, recorder : SUBSET Tasks, last : L]
  BY DEF Agent
<1> HIDE DEF l, L
<1>5. Fresh(n) \in Agent
  BY <1>1, <1>2, <1>3, <1>4 DEF None
<1>6. f \in Agent /\ f.name = n /\ f.running
  <2>1. f \in Agent /\ f.name = Fresh(n).name /\ f.running
    BY <1>4, <1>5
  <2> QED
    BY <1>3, <2>1
<1>7. /\ Fresh(n).recorder = {} /\ Fresh(n).on = None /\ Fresh(n).last = l /\ Fresh(n).tried = 0
      /\ f.recorder = {} /\ f.on = None /\ f.last = l /\ f.tried = 0
  BY <1>3
<1>8. OwnBooks(Fresh(n))
  BY <1>2, <1>7 DEF OwnBooks
<1>9. OwnBooks(f)
  BY <1>2, <1>7 DEF OwnBooks
<1> QED
  BY <1>5, <1>6, <1>8, <1>9

\* The books of an agent are its task, its tries, its recorder and its last session.
LEMMA SameBooks ==
  ASSUME NEW a, NEW b, a.recorder = b.recorder, a.on = b.on, a.tried = b.tried, a.last = b.last, OwnBooks(a)
  PROVE  OwnBooks(b)
BY DEF OwnBooks

\* A message that is delivered changes the inboxes, and nothing else.
LEMMA OnlyDelivers ==
  ASSUME agent \in [Objects -> Agent], NEW t \in Tasks, NEW n
  PROVE  /\ Delivered(agent, t, n) \in [Objects -> Agent]
         /\ \A o \in Objects : LET b == Delivered(agent, t, n)[o] IN
              /\ b.name = agent[o].name /\ b.running = agent[o].running
              /\ OwnBooks(agent[o]) => OwnBooks(b)
<1> DEFINE D == Delivered(agent, t, n)
<1> SUFFICES ASSUME NEW o \in Objects
             PROVE  /\ D[o] \in Agent /\ D[o].name = agent[o].name /\ D[o].running = agent[o].running
                    /\ OwnBooks(agent[o]) => OwnBooks(D[o])
  <2>1. D = [o1 \in Objects |-> IF agent[o1].name = n THEN [agent[o1] EXCEPT !.inbox = Append(@, t)] ELSE agent[o1]]
    BY DEF Delivered
  <2> HIDE DEF D
  <2>2. (\A o1 \in Objects : D[o1] \in Agent) => D \in [Objects -> Agent]
    BY <2>1
  <2> QED
    BY <2>2 DEF D
<1>1. D[o] = IF agent[o].name = n THEN [agent[o] EXCEPT !.inbox = Append(@, t)] ELSE agent[o]
  BY DEF Delivered
<1>2. PICK a \in Agent : a = agent[o]
  OBVIOUS
<1>3. a.inbox \in Seq(Tasks)
  BY DEF Agent
<1>4. Append(a.inbox, t) \in Seq(Tasks)
  BY <1>3
<1> DEFINE b == [a EXCEPT !.inbox = Append(a.inbox, t)]
<1>5. /\ b \in Agent /\ b.name = a.name /\ b.running = a.running /\ b.recorder = a.recorder /\ b.on = a.on
      /\ b.tried = a.tried /\ b.last = a.last
  BY <1>4 DEF Agent
<1>6. D[o] = b \/ D[o] = a
  BY <1>1, <1>2
<1>7. OwnBooks(a) => OwnBooks(b)
  <2> HIDE DEF b
  <2> QED
    BY <1>5, SameBooks
<1> HIDE DEF b, D
<1> QED
  BY <1>2, <1>5, <1>6, <1>7

\* An agent that was not started is held by nobody.
LEMMA Outside ==
  ASSUME AgentsTyped, Held, NEW o \in NextObject
  PROVE  /\ o \in Objects /\ o # None /\ agent[o].name \notin Names
         /\ \A m \in Managers : command[m] # o /\ \A n \in Names : registry[m][n] # o
         /\ \A t \in Tasks : task[t].at = "spawn" => task[t].via # o
<1>1. o \in Objects /\ agent[o].name \notin Names /\ o # None
  BY DEF NextObject, Unstarted, Objects, None
<1>2. \A n : ~Serving(agent, o, n)
  BY <1>1 DEF Serving
<1> QED
  BY <1>1, <1>2 DEF Held

\* What is held stays held alone, when the agents keep their names and run, the registries
\* and the commands stay as they are, and nobody starts to spawn an agent.
LEMMA StaysHeld ==
  ASSUME AgentsTyped, Held, HeldAlone, UNCHANGED <<registry, command>>,
         \A o \in Objects : agent'[o].name = agent[o].name /\ agent'[o].running = agent[o].running,
         \A t \in Tasks : task'[t].at = "spawn" =>
           task[t].at = "spawn" /\ task'[t].via = task[t].via /\ task'[t].name = task[t].name /\ task'[t].by = task[t].by
  PROVE  Held' /\ HeldAlone'
<1>1. \A o, n : Serving(agent, o, n) => Serving(agent', o, n)
  BY DEF Serving
<1>2. \A m \in Managers : command[m] # None => agent'[command[m]].name = agent[command[m]].name
  BY DEF AgentsTyped
<1>3. Held'
  BY <1>1, <1>2 DEF Held
<1>4. HeldAlone'
  BY DEF HeldAlone
<1> QED
  BY <1>3, <1>4

-----------------------------------------------------------------------------
(* Each action keeps the invariant. *)

\* A respawn stops an agent that only the registry held, and a command holds the new one.
LEMMA RespawnKeeps ==
  ASSUME AgentsInv, NEW m \in Managers, NEW n \in Names, Respawn(m, n)
  PROVE  AgentsInv'
<1> USE AgentsAssumption DEF AgentsInv
<1>1. PICK o \in NextObject :
        /\ agent' = [Stopped(registry[m][n]) EXCEPT ![o] = [Fresh(n) EXCEPT !.running = TRUE]]
        /\ command' = [command EXCEPT ![m] = o]
  BY DEF Respawn
<1> DEFINE r == registry[m][n]
           f == [Fresh(n) EXCEPT !.running = TRUE]
<1>2. /\ command[m] = None /\ r # None /\ r \in Objects /\ Serving(agent, r, n)
      /\ registry' = [registry EXCEPT ![m][n] = None] /\ task' = task
  BY DEF Respawn, AgentsTyped, Held
<1>3. /\ o \in Objects /\ o # None /\ agent[o].name \notin Names
      /\ \A k \in Managers : command[k] # o /\ \A i \in Names : registry[k][i] # o
      /\ \A t \in Tasks : task[t].at = "spawn" => task[t].via # o
  BY Outside
<1>4. f \in Agent /\ f.name = n /\ f.running /\ OwnBooks(f)
  BY FreshOne
<1> DEFINE s == [agent[r] EXCEPT !.running = FALSE]
<1>5. s \in Agent /\ s.name = agent[r].name /\ OwnBooks(s)
  <2>1. PICK a \in Agent : a = agent[r]
    BY <1>2 DEF AgentsTyped
  <2>2. s \in Agent /\ s.name = a.name /\ s.recorder = a.recorder /\ s.on = a.on /\ s.tried = a.tried /\ s.last = a.last
    BY <2>1 DEF Agent
  <2>3. OwnBooks(a)
    BY <1>2, <2>1
  <2> HIDE DEF s
  <2> QED
    BY <2>1, <2>2, <2>3, SameBooks
<1>6. agent' = [[agent EXCEPT ![r] = s] EXCEPT ![o] = f]
  BY <1>1 DEF Stopped
<1> HIDE DEF r, f, s
<1>7. /\ agent' \in [Objects -> Agent] /\ agent'[o] = f
      /\ \A p \in Objects : p # o /\ p # r => agent'[p] = agent[p]
      /\ r # o => agent'[r] = s
  BY <1>2, <1>3, <1>4, <1>5, <1>6 DEF AgentsTyped
<1>8. AgentsTyped'
  BY <1>1, <1>2, <1>3, <1>7 DEF AgentsTyped
<1>9. \A p \in Objects : OwnBooks(agent'[p])
  BY <1>4, <1>5, <1>7
<1>10. \A p, i : Serving(agent, p, i) /\ p # r => Serving(agent', p, i) /\ p # o
  BY <1>3, <1>7 DEF Serving
<1>11. Serving(agent', o, n) /\ agent'[o].name = n
  BY <1>3, <1>4, <1>7 DEF Serving
<1>12. /\ \A k \in Managers, i \in Names : registry'[k][i] = IF k = m /\ i = n THEN None ELSE registry[k][i]
       /\ \A k \in Managers : command'[k] = IF k = m THEN o ELSE command[k]
  BY <1>1, <1>2 DEF AgentsTyped
<1>13. /\ \A k \in Managers, i \in Names : registry'[k][i] # None => registry'[k][i] = registry[k][i] /\ registry[k][i] # r
       /\ \A k \in Managers : command[k] # None => command[k] # r
       /\ \A t \in Tasks : task[t].at = "spawn" => task[t].via # r
  BY <1>2, <1>12 DEF HeldAlone, r
<1>14. Held'
  <2>1. \A k \in Managers, i \in Names : registry'[k][i] # None => Serving(agent', registry'[k][i], i)
    BY <1>10, <1>13 DEF Held
  <2>2. \A k \in Managers : command'[k] # None => Serving(agent', command'[k], agent'[command'[k]].name)
    <3> SUFFICES ASSUME NEW k \in Managers, command'[k] # None
                 PROVE  Serving(agent', command'[k], agent'[command'[k]].name)
      OBVIOUS
    <3>1. CASE k = m
      BY <1>11, <1>12, <3>1 DEF Serving
    <3>2. CASE k # m
      <4>1. command'[k] = command[k] /\ command[k] # None /\ command[k] # r /\ Serving(agent, command[k], agent[command[k]].name)
        BY <1>12, <1>13, <3>2 DEF Held
      <4>2. command[k] # o /\ agent'[command[k]] = agent[command[k]]
        BY <1>7, <1>10, <4>1 DEF Serving
      <4> QED
        BY <4>1, <4>2 DEF Serving
    <3> QED
      BY <3>1, <3>2
  <2>3. \A t \in Tasks : task'[t].at = "spawn" => Serving(agent', task'[t].via, task'[t].name) /\ task'[t].by \in Managers
    BY <1>2, <1>10, <1>13 DEF Held
  <2> QED
    BY <2>1, <2>2, <2>3 DEF Held
<1>15. HeldAlone'
  BY <1>2, <1>3, <1>12 DEF HeldAlone
<1> QED
  BY <1>8, <1>9, <1>14, <1>15

\* The command hands the agent it holds over to its registry.
LEMMA RespawnEndsKeeps ==
  ASSUME AgentsInv, NEW m \in Managers, RespawnEnds(m)
  PROVE  AgentsInv'
<1> USE AgentsAssumption DEF AgentsInv
<1> DEFINE o == command[m]
           n == agent[o].name
<1>1. /\ o # None /\ o \in Objects /\ Serving(agent, o, n) /\ n \in Names
      /\ agent' = agent /\ task' = task
      /\ registry' = [registry EXCEPT ![m][n] = o] /\ command' = [command EXCEPT ![m] = None]
  BY DEF RespawnEnds, AgentsTyped, Held, Serving
<1> HIDE DEF o, n
<1>2. AgentsTyped'
  BY <1>1 DEF AgentsTyped
<1>3. /\ \A k \in Managers, i \in Names : registry'[k][i] = IF k = m /\ i = n THEN o ELSE registry[k][i]
      /\ \A k \in Managers : command'[k] = IF k = m THEN None ELSE command[k]
  BY <1>1 DEF AgentsTyped
<1>4. \A p, i : Serving(agent', p, i) <=> Serving(agent, p, i)
  BY <1>1 DEF Serving
<1>5. Held'
  <2>1. \A k \in Managers, i \in Names : registry'[k][i] # None => Serving(agent', registry'[k][i], i)
    BY <1>1, <1>3, <1>4 DEF Held
  <2>2. \A k \in Managers : command'[k] # None => Serving(agent', command'[k], agent'[command'[k]].name)
    BY <1>1, <1>3, <1>4 DEF Held
  <2>3. \A t \in Tasks : task'[t].at = "spawn" => Serving(agent', task'[t].via, task'[t].name) /\ task'[t].by \in Managers
    BY <1>1, <1>4 DEF Held
  <2> QED
    BY <2>1, <2>2, <2>3 DEF Held
<1>6. /\ \A k \in Managers, i \in Names : registry[k][i] # o
      /\ \A k \in Managers : command[k] = o => k = m
      /\ \A t \in Tasks : task[t].at = "spawn" => task[t].via # o
  BY <1>1 DEF HeldAlone, o
<1>7. HeldAlone'
  <2>1. \A k, l \in Managers, i, j \in Names :
          registry'[k][i] # None /\ registry'[k][i] = registry'[l][j] => k = l /\ i = j
    BY <1>1, <1>3, <1>6 DEF HeldAlone
  <2>2. \A k, l \in Managers, i \in Names : command'[k] # None => registry'[l][i] # command'[k]
    BY <1>1, <1>3, <1>6 DEF HeldAlone
  <2>3. \A k, l \in Managers : command'[k] # None /\ command'[k] = command'[l] => k = l
    BY <1>1, <1>3, <1>6 DEF HeldAlone
  <2>4. \A t \in Tasks : task'[t].at = "spawn" =>
          /\ \A k \in Managers : command'[k] # task'[t].via /\ \A i \in Names : registry'[k][i] # task'[t].via
          /\ \A u \in Tasks : task'[u].at = "spawn" /\ task'[u].via = task'[t].via => u = t
    <3> SUFFICES ASSUME NEW t \in Tasks, task'[t].at = "spawn"
                 PROVE  /\ \A k \in Managers : command'[k] # task'[t].via /\ \A i \in Names : registry'[k][i] # task'[t].via
                        /\ \A u \in Tasks : task'[u].at = "spawn" /\ task'[u].via = task'[t].via => u = t
      OBVIOUS
    <3>1. task[t].at = "spawn" /\ task'[t].via = task[t].via /\ task[t].via \in Objects /\ task[t].via # None
      BY <1>1 DEF Held, Serving, Objects, None
    <3> QED
      BY <1>1, <1>3, <1>6, <3>1 DEF HeldAlone
  <2> QED
    BY <2>1, <2>2, <2>3, <2>4 DEF HeldAlone
<1> QED
  BY <1>1, <1>2, <1>5, <1>7

\* An asker spawns the agent it does not find, or the one of the registry gets the task.
LEMMA AskKeeps ==
  ASSUME AgentsInv, NEW m \in Managers, NEW n \in Names, Ask(m, n)
  PROVE  AgentsInv'
<1> USE AgentsAssumption DEF AgentsInv
<1>1. PICK t \in NextTask : Asks(m, n, t)
  BY DEF Ask
<1>2. /\ t \in Tasks /\ task[t].at = "new" /\ registry' = registry /\ command' = command
  BY <1>1 DEF Ask, NextTask, Unasked
<1>3. NoTask \in Asking
  BY DEF NoTask, Asking, Outputs
<1>4. CASE registry[m][n] # None
  <2> DEFINE q == [NoTask EXCEPT !.name = n, !.by = m, !.at = "asked"]
  <2>1. task' = [task EXCEPT ![t] = q] /\ agent' = Delivered(agent, t, n)
    BY <1>1, <1>4 DEF Asks
  <2>2. q \in Asking /\ q.at = "asked"
    BY <1>3 DEF Asking, NoTask, Outputs
  <2> HIDE DEF q
  <2>3. task' \in [Tasks -> Asking] /\ task'[t].at = "asked" /\ \A u \in Tasks : u # t => task'[u] = task[u]
    BY <1>2, <2>1, <2>2 DEF AgentsTyped
  <2>4. /\ agent' \in [Objects -> Agent]
        /\ \A o \in Objects : /\ agent'[o].name = agent[o].name /\ agent'[o].running = agent[o].running
                              /\ OwnBooks(agent[o]) => OwnBooks(agent'[o])
    BY <1>2, <2>1, OnlyDelivers DEF AgentsTyped
  <2>5. AgentsTyped'
    BY <1>2, <2>3, <2>4 DEF AgentsTyped
  <2>6. \A u \in Tasks : task'[u].at = "spawn" =>
           task[u].at = "spawn" /\ task'[u].via = task[u].via /\ task'[u].name = task[u].name /\ task'[u].by = task[u].by
    BY <2>3
  <2>7. Held' /\ HeldAlone'
    BY <1>2, <2>4, <2>6, StaysHeld
  <2> QED
    BY <2>4, <2>5, <2>7
<1>5. CASE registry[m][n] = None
  <2>1. PICK o \in NextObject :
          /\ task' = [task EXCEPT ![t] = [NoTask EXCEPT !.name = n, !.by = m, !.at = "spawn", !.via = o]]
          /\ agent' = Subscribed(o, n)
    BY <1>1, <1>5 DEF Asks
  <2> DEFINE q == [NoTask EXCEPT !.name = n, !.by = m, !.at = "spawn", !.via = o]
             f == [Fresh(n) EXCEPT !.running = TRUE]
  <2>2. /\ o \in Objects /\ o # None /\ agent[o].name \notin Names
        /\ \A k \in Managers : command[k] # o /\ \A i \in Names : registry[k][i] # o
        /\ \A u \in Tasks : task[u].at = "spawn" => task[u].via # o
    BY Outside
  <2>3. f \in Agent /\ f.name = n /\ f.running /\ OwnBooks(f)
    BY FreshOne
  <2>4. q \in Asking /\ q.at = "spawn" /\ q.via = o /\ q.name = n /\ q.by = m
    BY <2>2 DEF Asking, NoTask, Outputs
  <2>5. agent' = [agent EXCEPT ![o] = f] /\ task' = [task EXCEPT ![t] = q]
    BY <2>1 DEF Subscribed
  <2> HIDE DEF q, f
  <2>6. task' \in [Tasks -> Asking] /\ task'[t] = q /\ \A u \in Tasks : u # t => task'[u] = task[u]
    BY <1>2, <2>4, <2>5 DEF AgentsTyped
  <2>7. agent' \in [Objects -> Agent] /\ agent'[o] = f /\ \A p \in Objects : p # o => agent'[p] = agent[p]
    BY <2>2, <2>3, <2>5 DEF AgentsTyped
  <2>8. AgentsTyped'
    BY <1>2, <2>6, <2>7 DEF AgentsTyped
  <2>9. \A p \in Objects : OwnBooks(agent'[p])
    BY <2>3, <2>7
  <2>10. \A p, i : Serving(agent, p, i) => Serving(agent', p, i) /\ p # o /\ agent'[p] = agent[p]
    BY <2>2, <2>7 DEF Serving
  <2>11. Serving(agent', o, n)
    BY <2>2, <2>3, <2>7 DEF Serving
  <2>12. Held'
    <3>1. \A k \in Managers, i \in Names : registry'[k][i] # None => Serving(agent', registry'[k][i], i)
      BY <1>2, <2>10 DEF Held
    <3>2. \A k \in Managers : command'[k] # None => Serving(agent', command'[k], agent'[command'[k]].name)
      BY <1>2, <2>10 DEF Held
    <3>3. \A u \in Tasks : task'[u].at = "spawn" => Serving(agent', task'[u].via, task'[u].name) /\ task'[u].by \in Managers
      BY <2>4, <2>6, <2>10, <2>11 DEF Held
    <3> QED
      BY <3>1, <3>2, <3>3 DEF Held
  <2>13. HeldAlone'
    <3>1. \A u \in Tasks : task'[u].at = "spawn" =>
            /\ \A k \in Managers : command[k] # task'[u].via /\ \A i \in Names : registry[k][i] # task'[u].via
            /\ \A v \in Tasks : task'[v].at = "spawn" /\ task'[v].via = task'[u].via => v = u
      BY <2>2, <2>4, <2>6 DEF HeldAlone
    <3> QED
      BY <1>2, <3>1 DEF HeldAlone
  <2> QED
    BY <2>8, <2>9, <2>12, <2>13
<1> QED
  BY <1>4, <1>5

\* The asker hands the agent it spawned over to the registry of its manager.
LEMMA SpawnEndsKeeps ==
  ASSUME AgentsInv, NEW t \in Tasks, SpawnEnds(t)
  PROVE  AgentsInv'
<1> USE AgentsAssumption DEF AgentsInv
<1> DEFINE o == task[t].via
           m == task[t].by
           n == task[t].name
<1>1. /\ task[t].at = "spawn" /\ Serving(agent, o, n) /\ m \in Managers
      /\ registry' = [registry EXCEPT ![m][n] = o] /\ task' = [task EXCEPT ![t].at = "asked"]
      /\ agent' = Delivered(agent, t, n) /\ command' = command
  BY DEF SpawnEnds, Held
<1>2. /\ \A k \in Managers : command[k] # o /\ \A i \in Names : registry[k][i] # o
      /\ \A u \in Tasks : task[u].at = "spawn" /\ task[u].via = o => u = t
  BY <1>1 DEF HeldAlone
<1>3. o \in Objects /\ o # None /\ n \in Names
  BY <1>1 DEF Serving, Objects, None
<1> HIDE DEF o, m, n
<1>4. /\ agent' \in [Objects -> Agent]
      /\ \A p \in Objects : /\ agent'[p].name = agent[p].name /\ agent'[p].running = agent[p].running
                            /\ OwnBooks(agent[p]) => OwnBooks(agent'[p])
  BY <1>1, OnlyDelivers DEF AgentsTyped
<1>5. task' \in [Tasks -> Asking] /\ task'[t].at = "asked" /\ \A u \in Tasks : u # t => task'[u] = task[u]
  <2>1. PICK q \in Asking : q = task[t]
    BY DEF AgentsTyped
  <2>2. [q EXCEPT !.at = "asked"] \in Asking /\ [q EXCEPT !.at = "asked"].at = "asked"
    BY DEF Asking
  <2>3. task' = [task EXCEPT ![t] = [q EXCEPT !.at = "asked"]]
    BY <1>1, <2>1 DEF AgentsTyped
  <2> QED
    BY <2>2, <2>3 DEF AgentsTyped
<1>6. AgentsTyped'
  BY <1>1, <1>3, <1>4, <1>5 DEF AgentsTyped
<1>7. \A k \in Managers, i \in Names : registry'[k][i] = IF k = m /\ i = n THEN o ELSE registry[k][i]
  BY <1>1, <1>3 DEF AgentsTyped
<1>8. \A p, i : Serving(agent, p, i) => Serving(agent', p, i)
  BY <1>4 DEF Serving
<1>9. Held'
  <2>1. \A k \in Managers, i \in Names : registry'[k][i] # None => Serving(agent', registry'[k][i], i)
    BY <1>1, <1>7, <1>8 DEF Held
  <2>2. \A k \in Managers : command'[k] # None => Serving(agent', command'[k], agent'[command'[k]].name)
    <3>1. \A k \in Managers : command[k] # None => agent'[command[k]].name = agent[command[k]].name
      BY <1>4 DEF AgentsTyped
    <3> QED
      BY <1>1, <1>8, <3>1 DEF Held
  <2>3. \A u \in Tasks : task'[u].at = "spawn" => Serving(agent', task'[u].via, task'[u].name) /\ task'[u].by \in Managers
    BY <1>5, <1>8 DEF Held
  <2> QED
    BY <2>1, <2>2, <2>3 DEF Held
<1>10. HeldAlone'
  <2>1. \A k, l \in Managers, i, j \in Names :
          registry'[k][i] # None /\ registry'[k][i] = registry'[l][j] => k = l /\ i = j
    BY <1>2, <1>3, <1>7 DEF HeldAlone
  <2>2. \A k, l \in Managers, i \in Names : command'[k] # None => registry'[l][i] # command'[k]
    BY <1>1, <1>2, <1>7 DEF HeldAlone
  <2>3. \A k, l \in Managers : command'[k] # None /\ command'[k] = command'[l] => k = l
    BY <1>1 DEF HeldAlone
  <2>4. \A u \in Tasks : task'[u].at = "spawn" =>
          /\ \A k \in Managers : command'[k] # task'[u].via /\ \A i \in Names : registry'[k][i] # task'[u].via
          /\ \A v \in Tasks : task'[v].at = "spawn" /\ task'[v].via = task'[u].via => v = u
    <3> SUFFICES ASSUME NEW u \in Tasks, task'[u].at = "spawn"
                 PROVE  /\ \A k \in Managers : command'[k] # task'[u].via /\ \A i \in Names : registry'[k][i] # task'[u].via
                        /\ \A v \in Tasks : task'[v].at = "spawn" /\ task'[v].via = task'[u].via => v = u
      OBVIOUS
    <3>1. u # t /\ task'[u] = task[u] /\ task[u].via # o
      BY <1>2, <1>5
    <3>2. \A v \in Tasks : task'[v].at = "spawn" => task'[v] = task[v]
      BY <1>5
    <3> QED
      BY <1>1, <1>7, <3>1, <3>2 DEF HeldAlone
  <2> QED
    BY <2>1, <2>2, <2>3, <2>4 DEF HeldAlone
<1> QED
  BY <1>4, <1>6, <1>9, <1>10

\* An asker gives up.
LEMMA TimesOutKeeps ==
  ASSUME AgentsInv, NEW t \in Tasks, TimesOut(t)
  PROVE  AgentsInv'
<1> USE AgentsAssumption DEF AgentsInv
<1>1. task[t].at = "asked" /\ task' = [task EXCEPT ![t].at = "over"] /\ UNCHANGED <<registry, agent, command>>
  BY DEF TimesOut
<1>2. task' \in [Tasks -> Asking] /\ task'[t].at = "over" /\ \A u \in Tasks : u # t => task'[u] = task[u]
  <2>1. PICK q \in Asking : q = task[t]
    BY DEF AgentsTyped
  <2>2. [q EXCEPT !.at = "over"] \in Asking /\ [q EXCEPT !.at = "over"].at = "over"
    BY DEF Asking
  <2>3. task' = [task EXCEPT ![t] = [q EXCEPT !.at = "over"]]
    BY <1>1, <2>1 DEF AgentsTyped
  <2> QED
    BY <2>2, <2>3 DEF AgentsTyped
<1>3. AgentsTyped'
  BY <1>1, <1>2 DEF AgentsTyped
<1>4. \A u \in Tasks : task'[u].at = "spawn" =>
         task[u].at = "spawn" /\ task'[u].via = task[u].via /\ task'[u].name = task[u].name /\ task'[u].by = task[u].by
  BY <1>2
<1>5. Held' /\ HeldAlone'
  BY <1>1, <1>4, StaysHeld
<1> QED
  BY <1>1, <1>3, <1>5

\* An agent at work changes itself, keeping its name, and at most ends a task.
LEMMA WorksKeeps ==
  ASSUME AgentsInv, NEW o \in Objects, NEW b \in Agent, agent' = [agent EXCEPT ![o] = b],
         b.name = agent[o].name, b.running = agent[o].running, OwnBooks(b), UNCHANGED <<registry, command>>,
         task' \in [Tasks -> Asking], \A u \in Tasks : task'[u] = task[u] \/ task'[u].at = "over"
  PROVE  AgentsInv'
<1> USE AgentsAssumption DEF AgentsInv
<1>1. agent' \in [Objects -> Agent] /\ agent'[o] = b /\ \A p \in Objects : p # o => agent'[p] = agent[p]
  BY DEF AgentsTyped
<1>2. AgentsTyped'
  BY <1>1 DEF AgentsTyped
<1>3. \A p \in Objects : agent'[p].name = agent[p].name /\ agent'[p].running = agent[p].running /\ OwnBooks(agent'[p])
  BY <1>1
<1>4. \A u \in Tasks : task'[u].at = "spawn" =>
         task[u].at = "spawn" /\ task'[u].via = task[u].via /\ task'[u].name = task[u].name /\ task'[u].by = task[u].by
  OBVIOUS
<1>5. Held' /\ HeldAlone'
  BY <1>3, <1>4, StaysHeld
<1> QED
  BY <1>2, <1>3, <1>5

\* The next task, with an empty recorder.
LEMMA TakesKeeps ==
  ASSUME AgentsInv, NEW o \in Objects, Takes(o)
  PROVE  AgentsInv'
<1> USE AgentsAssumption
<1>1. PICK a \in Agent : a = agent[o]
  BY DEF AgentsInv, AgentsTyped
<1>2. /\ a.inbox # << >> /\ UNCHANGED <<registry, task, command>>
      /\ agent' = [agent EXCEPT ![o].on = Head(agent[o].inbox), ![o].inbox = Tail(@), ![o].recorder = {}, ![o].tried = 0]
  BY <1>1 DEF Takes
<1> DEFINE b == [[a EXCEPT !.on = Head(a.inbox), !.inbox = Tail(a.inbox)] EXCEPT !.recorder = {}, !.tried = 0]
<1>3. Head(a.inbox) \in Tasks /\ Tail(a.inbox) \in Seq(Tasks)
  BY <1>2 DEF Agent
<1>4. /\ b \in Agent /\ b.name = a.name /\ b.running = a.running /\ b.on = Head(a.inbox)
      /\ b.recorder = {} /\ b.tried = 0 /\ b.last = a.last
  <2> DEFINE c == [a EXCEPT !.on = Head(a.inbox), !.inbox = Tail(a.inbox)]
  <2>1. c \in Agent /\ c.name = a.name /\ c.running = a.running /\ c.on = Head(a.inbox) /\ c.last = a.last
    BY <1>3 DEF Agent
  <2> HIDE DEF c
  <2>2. LET d == [c EXCEPT !.recorder = {}, !.tried = 0]
        IN  d \in Agent /\ d.name = c.name /\ d.running = c.running /\ d.on = c.on /\ d.last = c.last
            /\ d.recorder = {} /\ d.tried = 0
    BY <2>1 DEF Agent
  <2> QED
    BY <2>1, <2>2 DEF c
<1>5. agent' = [agent EXCEPT ![o] = b]
  BY <1>1, <1>2 DEF AgentsInv, AgentsTyped
<1> HIDE DEF b
<1>6. OwnBooks(a)
  BY <1>1 DEF AgentsInv
<1>7. OwnBooks(b)
  BY <1>3, <1>4, <1>6 DEF OwnBooks, None, Tasks
<1>8. task' \in [Tasks -> Asking] /\ \A u \in Tasks : task'[u] = task[u] \/ task'[u].at = "over"
  BY <1>2 DEF AgentsInv, AgentsTyped
<1> QED
  BY <1>1, <1>2, <1>4, <1>5, <1>7, <1>8, WorksKeeps

\* A tool call is recorded for the task the agent is on.
LEMMA CallsToolKeeps ==
  ASSUME AgentsInv, NEW o \in Objects, CallsTool(o)
  PROVE  AgentsInv'
<1> USE AgentsAssumption
<1>1. PICK a \in Agent : a = agent[o]
  BY DEF AgentsInv, AgentsTyped
<1>2. /\ a.on # None /\ UNCHANGED <<registry, task, command>>
      /\ agent' = [agent EXCEPT ![o].recorder = @ \cup {agent[o].on}]
  BY <1>1 DEF CallsTool
<1> DEFINE b == [a EXCEPT !.recorder = a.recorder \cup {a.on}]
<1>3. a.recorder \cup {a.on} \in SUBSET Tasks
  BY <1>2 DEF Agent
<1>4. /\ b \in Agent /\ b.name = a.name /\ b.running = a.running /\ b.on = a.on
      /\ b.recorder = a.recorder \cup {a.on} /\ b.tried = a.tried /\ b.last = a.last
  BY <1>3 DEF Agent
<1>5. agent' = [agent EXCEPT ![o] = b]
  BY <1>1, <1>2 DEF AgentsInv, AgentsTyped
<1> HIDE DEF b
<1>6. OwnBooks(a)
  BY <1>1 DEF AgentsInv
<1>7. OwnBooks(b)
  BY <1>2, <1>4, <1>6 DEF OwnBooks
<1>8. task' \in [Tasks -> Asking] /\ \A u \in Tasks : task'[u] = task[u] \/ task'[u].at = "over"
  BY <1>2 DEF AgentsInv, AgentsTyped
<1> QED
  BY <1>1, <1>2, <1>4, <1>5, <1>7, <1>8, WorksKeeps

\* A try that is followed by another, or the last one, whose books are closed.
LEMMA InvokedKeeps ==
  ASSUME AgentsInv, NEW o \in Objects, NEW r \in {"good", "error", "empty"}, Invoked(o, r)
  PROVE  AgentsInv'
<1> USE AgentsAssumption
<1>1. PICK a \in Agent : a = agent[o]
  BY DEF AgentsInv, AgentsTyped
<1> DEFINE n == a.tried + 1
<1>2. a.on # None /\ a.on \in Tasks /\ UNCHANGED <<registry, command>> /\ n \in Nat /\ n = a.tried + 1 /\ a.tried \in Nat
  BY <1>1 DEF Invoked, Agent
<1>3. OwnBooks(a)
  BY <1>1 DEF AgentsInv
<1> HIDE DEF n
<1>4. CASE TriesAgain(n, r)
  <2> DEFINE b == [a EXCEPT !.tried = n]
  <2>1. agent' = [agent EXCEPT ![o].tried = n] /\ task' = task
    BY <1>1, <1>4 DEF Invoked, n
  <2>2. /\ b \in Agent /\ b.name = a.name /\ b.running = a.running /\ b.on = a.on
        /\ b.recorder = a.recorder /\ b.tried = n /\ b.last = a.last
    BY <1>2 DEF Agent
  <2>3. agent' = [agent EXCEPT ![o] = b]
    BY <1>1, <2>1 DEF AgentsInv, AgentsTyped
  <2> HIDE DEF b
  <2>4. n <= Fallbacks + 1
    BY <1>2, <1>4 DEF TriesAgain, TriesOnce
  <2>5. OwnBooks(b)
    BY <1>2, <1>3, <2>2, <2>4 DEF OwnBooks
  <2>6. task' \in [Tasks -> Asking] /\ \A u \in Tasks : task'[u] = task[u] \/ task'[u].at = "over"
    BY <2>1 DEF AgentsInv, AgentsTyped
  <2> QED
    BY <1>1, <1>2, <2>2, <2>3, <2>5, <2>6, WorksKeeps
<1>5. CASE ~TriesAgain(n, r)
  <2> DEFINE l == [task |-> a.on, calls |-> a.recorder, output |-> r]
             c == [a EXCEPT !.on = None, !.tried = n]
             b == [c EXCEPT !.recorder = {}, !.last = l]
             done == [a EXCEPT !.on = None, !.tried = n, !.recorder = {}, !.last = l]
  <2>1. /\ agent' = [agent EXCEPT ![o] = done]
        /\ task' = IF task[a.on].at = "asked"
                   THEN [task EXCEPT ![a.on].at = "over", ![a.on].reply = r] ELSE task
    BY <1>1, <1>5 DEF Invoked, n
  <2>2. done = b
    BY DEF Agent
  <2>3. l.task = a.on /\ l.calls = a.recorder /\ l.output = r
    OBVIOUS
  <2>4. l \in [task : Tasks \cup {None}, calls : SUBSET Tasks, output : Outputs]
    BY <1>2 DEF Agent, Outputs
  <2> HIDE DEF l
  <2>5. c \in Agent /\ c.name = a.name /\ c.running = a.running /\ c.on = None /\ c.tried = n
    BY <1>2 DEF Agent
  <2> HIDE DEF c
  <2>6. /\ b \in Agent /\ b.name = c.name /\ b.running = c.running /\ b.on = c.on /\ b.tried = c.tried
        /\ b.recorder = {} /\ b.last = l
    BY <2>4, <2>5 DEF Agent
  <2> HIDE DEF b, done
  <2>7. r # "good" => n > Fallbacks /\ (r = "empty" => n # Fallbacks + 1)
    BY <1>2, <1>5 DEF TriesAgain, TriesOnce
  <2>8. a.tried <= Fallbacks + 1
    BY <1>2, <1>3 DEF OwnBooks
  <2>9. r # "good" => n > Fallbacks /\ (r = "empty" => n = Fallbacks + 2)
    BY <1>2, <2>7, <2>8
  <2>10. a.recorder \subseteq {a.on}
    BY <1>3 DEF OwnBooks
  <2>11. OwnBooks(b)
    BY <2>3, <2>5, <2>6, <2>9, <2>10 DEF OwnBooks
  <2>12. task' \in [Tasks -> Asking] /\ \A u \in Tasks : task'[u] = task[u] \/ task'[u].at = "over"
    <3>1. PICK q \in Asking : q = task[a.on]
      BY <1>2 DEF AgentsInv, AgentsTyped
    <3> DEFINE e == [q EXCEPT !.at = "over", !.reply = r]
    <3>2. e \in Asking /\ e.at = "over"
      BY DEF Asking, Outputs
    <3>3. task' = task \/ task' = [task EXCEPT ![a.on] = e]
      BY <1>2, <2>1, <3>1 DEF AgentsInv, AgentsTyped
    <3> HIDE DEF e
    <3> QED
      BY <1>2, <3>2, <3>3 DEF AgentsInv, AgentsTyped
  <2> QED
    BY <1>1, <1>2, <2>1, <2>2, <2>5, <2>6, <2>11, <2>12, WorksKeeps
<1> QED
  BY <1>4, <1>5

LEMMA AgentsStart == AgentsInit => AgentsInv
<1> SUFFICES ASSUME AgentsInit PROVE AgentsInv
  OBVIOUS
<1> USE AgentsAssumption
<1>1. /\ registry = [m \in Managers |-> [n \in Names |-> None]] /\ agent = [o \in Objects |-> Fresh(NoName)]
      /\ task = [t \in Tasks |-> NoTask] /\ command = [m \in Managers |-> None]
  BY DEF AgentsInit
<1>2. Fresh(NoName) \in Agent /\ OwnBooks(Fresh(NoName))
  BY FreshOne
<1>3. NoTask \in Asking /\ NoTask.at = "new"
  BY DEF NoTask, Asking, Outputs
<1>4. AgentsTyped
  BY <1>1, <1>2, <1>3 DEF AgentsTyped
<1>5. /\ \A m \in Managers : command[m] = None /\ \A n \in Names : registry[m][n] = None
      /\ \A t \in Tasks : task[t].at = "new"
  BY <1>1, <1>3
<1>6. Held
  BY <1>5 DEF Held
<1>7. HeldAlone
  BY <1>5 DEF HeldAlone
<1> QED
  BY <1>1, <1>2, <1>4, <1>6, <1>7 DEF AgentsInv

LEMMA AgentsStep == AgentsInv /\ [AgentsNext]_agentvars => AgentsInv'
<1> SUFFICES ASSUME AgentsInv, [AgentsNext]_agentvars PROVE AgentsInv'
  OBVIOUS
<1>1. ASSUME NEW m \in Managers, NEW n \in Names, Ask(m, n) PROVE AgentsInv'
  BY <1>1, AskKeeps
<1>2. ASSUME NEW m \in Managers, NEW n \in Names, Respawn(m, n) PROVE AgentsInv'
  BY <1>2, RespawnKeeps
<1>3. ASSUME NEW m \in Managers, RespawnEnds(m) PROVE AgentsInv'
  BY <1>3, RespawnEndsKeeps
<1>4. ASSUME NEW t \in Tasks, SpawnEnds(t) PROVE AgentsInv'
  BY <1>4, SpawnEndsKeeps
<1>5. ASSUME NEW t \in Tasks, TimesOut(t) PROVE AgentsInv'
  BY <1>5, TimesOutKeeps
<1>6. ASSUME NEW o \in Objects, Takes(o) PROVE AgentsInv'
  BY <1>6, TakesKeeps
<1>7. ASSUME NEW o \in Objects, CallsTool(o) PROVE AgentsInv'
  BY <1>7, CallsToolKeeps
<1>8. ASSUME NEW o \in Objects, NEW r \in {"good", "error", "empty"}, Invoked(o, r) PROVE AgentsInv'
  BY <1>8, InvokedKeeps
<1>9. CASE UNCHANGED agentvars
  BY <1>9 DEF agentvars, AgentsInv, AgentsTyped, Held, HeldAlone
<1> QED
  BY <1>1, <1>2, <1>3, <1>4, <1>5, <1>6, <1>7, <1>8, <1>9 DEF AgentsNext, AgentWorks

\* However the askers, /model and the agents interleave: an agent a registry has runs under its
\* name, its last_session holds one task's tool calls only, and a task is given up after the
\* whole fallback chain (SubAgentManager, SubAgent._handle_request, _invoke_with_fallback).
THEOREM AgentsBooksAreKept == AgentsSpec => []AgentsKeepBooks
<1>1. AgentsInv => AgentsKeepBooks
  <2> SUFFICES ASSUME AgentsInv PROVE AgentsKeepBooks
    OBVIOUS
  <2>1. \A m \in Managers, n \in Names :
          registry[m][n] # None => agent[registry[m][n]].name = n /\ agent[registry[m][n]].running
    BY DEF AgentsInv, Held, Serving
  <2>2. \A o \in Objects : LET a == agent[o] IN
          /\ a.recorder \subseteq {a.on} /\ a.last.calls \subseteq {a.last.task}
          /\ a.on = None /\ a.last.task # None /\ a.last.output # "good" =>
               /\ a.tried > Fallbacks
               /\ a.last.output = "empty" => a.tried = Fallbacks + 2
    BY DEF AgentsInv, OwnBooks
  <2> QED
    BY <2>1, <2>2 DEF AgentsKeepBooks
<1> QED
  BY <1>1, AgentsStart, AgentsStep, PTL DEF AgentsSpec

-----------------------------------------------------------------------------
(* The chart. While a load stops the feeds, those of the fields it has passed *)
(* are gone, and it waits for the feed of the field it is at. What a load      *)
(* changes, c, is a record; the feeds stay as they are until it has fetched.   *)

LoadFields == {"at", "src", "sym", "tf", "waits", "switching", "pump"}
ViewFields == LoadFields \cup {"own", "dying", "stopped", "source"}
IsView(c) == c = [f \in ViewFields |-> c[f]]
Sources == {"kai", "coinbase"}
InField(o) == IF o = "kai" THEN {"kaiTask", "kaiRefresh"} ELSE {"cbTask"}

NoneIn(f) == \A t \in feeds : t.in # f
KnownFeeds == \A t \in feeds : t.in \in {"kaiTask", "kaiRefresh", "cbTask"}
Covered(f, ws) == \A t \in feeds : t.in = f => t \in ws
Owns(o) == o = [f \in Owned |-> o[f]] /\ \A t \in feeds : t = Task(o[t.in], t.in)
Stops(at, ws, sw) ==
  \/ at = "kaiTask" /\ Covered("kaiTask", ws) /\ (sw => NoneIn("cbTask"))
  \/ at = "kaiRefresh" /\ NoneIn("kaiTask") /\ Covered("kaiRefresh", ws) /\ (sw => NoneIn("cbTask"))
  \/ at = "cbTask" /\ Covered("cbTask", ws) /\ (~sw => NoneIn("kaiTask") /\ NoneIn("kaiRefresh"))
  \/ at = "fetch" /\ feeds = {} /\ ~sw
\* What is known of c before a stop, and where it comes out.
Ready(c) ==
  /\ IsView(c) /\ c.switching \in BOOLEAN /\ c.source \in Sources /\ c.src = c.source /\ Owns(c.own)
  /\ feeds # {} => c.source = source
Under(c) == Ready(c) /\ Stops(c.at, c.waits, c.switching)
InPlace(d, c) == d.source = c.source /\ d.src = c.src /\ d.switching = c.switching

FeedOk(t) ==
  /\ loads[t.by].at = "over" /\ Shows(t.by) = panel /\ panel.src = source /\ t.in \in InField(source)
LoadOk(l) ==
  /\ l.switching \in BOOLEAN
  /\ \/ l.at = "new" /\ ~l.switching
     \/ l.src = source /\ Stops(l.at, l.waits, l.switching)
ChartTyped ==
  /\ source \in Sources
  /\ loads = [l \in Loads |-> [f \in LoadFields |-> loads[l][f]]]
ChartInv ==
  /\ ChartTyped /\ Owns(own) /\ \A t \in feeds : t.by \in Loads /\ FeedOk(t)
  /\ painted \subseteq {panel}
  /\ \A l, k \in Busy : l = k
  /\ \A l \in Busy : LoadOk(loads[l])

-----------------------------------------------------------------------------
(* The stops, from the last to the first. *)

LEMMA CancelsOne ==
  ASSUME NEW c, NEW f \in {"kaiTask", "kaiRefresh", "cbTask"}, Ready(c)
  PROVE  LET d == Cancels(c, f) IN
         Ready(d) /\ InPlace(d, c) /\ Covered(f, d.waits) /\ (d.waits = {} => NoneIn(f))
<1> DEFINE t == Task(c.own[f], f)
           d == Cancels(c, f)
<1>1. \A u \in feeds : u.in = f => u = t
  BY DEF Ready, Owns
<1>2. CASE t \in feeds
  <2>1. d = [c EXCEPT !.dying = @ \cup {t}, !.waits = {t}]
    BY <1>2 DEF Cancels
  <2>2. /\ IsView(d) /\ d.waits = {t} /\ d.own = c.own /\ d.source = c.source /\ d.src = c.src
        /\ d.switching = c.switching
    BY <2>1 DEF Ready, IsView, ViewFields, LoadFields
  <2>3. d.waits # {} /\ Covered(f, d.waits)
    BY <1>1, <2>2 DEF Covered
  <2> HIDE DEF d
  <2>4. Ready(d) /\ InPlace(d, c) /\ Covered(f, d.waits) /\ (d.waits = {} => NoneIn(f))
    BY <2>2, <2>3 DEF Ready, InPlace
  <2> QED
    BY <2>4 DEF d
<1>3. CASE t \notin feeds
  <2>1. d = [c EXCEPT !.waits = {}]
    BY <1>3 DEF Cancels
  <2>2. /\ IsView(d) /\ d.own = c.own /\ d.source = c.source /\ d.src = c.src /\ d.switching = c.switching
    BY <2>1 DEF Ready, IsView, ViewFields, LoadFields
  <2>3. NoneIn(f) /\ Covered(f, d.waits)
    BY <1>1, <1>3 DEF Covered, NoneIn
  <2> HIDE DEF d
  <2>4. Ready(d) /\ InPlace(d, c) /\ Covered(f, d.waits) /\ (d.waits = {} => NoneIn(f))
    BY <2>2, <2>3 DEF Ready, InPlace
  <2> QED
    BY <2>4 DEF d
<1> QED
  BY <1>2, <1>3

LEMMA StopsOneStream ==
  ASSUME NEW c, NEW f, Ready(c)
  PROVE  Ready(StopsStream(c, f)) /\ InPlace(StopsStream(c, f), c)
<1> DEFINE d == StopsStream(c, f)
<1>1. IsView(d) /\ d.own = c.own /\ d.source = c.source /\ d.src = c.src /\ d.switching = c.switching
  BY DEF StopsStream, Ready, IsView, ViewFields, LoadFields
<1> HIDE DEF d
<1>2. Ready(d) /\ InPlace(d, c)
  BY <1>1 DEF Ready, InPlace
<1> QED
  BY <1>2 DEF d

\* The fields of feeds that are gone may be cleared.
LEMMA ClearsFields ==
  ASSUME NEW c, NEW fs, Ready(c), \A f \in fs : NoneIn(f), \A t \in feeds : t.in \in Owned
  PROVE  Ready(Clears(c, fs)) /\ InPlace(Clears(c, fs), c)
<1> DEFINE d == Clears(c, fs)
           o == [f \in Owned |-> IF f \in fs THEN NoFeed ELSE c.own[f]]
<1>1. IsView(d) /\ d.own = o /\ d.source = c.source /\ d.src = c.src /\ d.switching = c.switching
  BY DEF Clears, Ready, IsView, ViewFields, LoadFields
<1>2. \A t \in feeds : o[t.in] = c.own[t.in]
  BY DEF NoneIn
<1>3. Owns(o)
  <2>1. o = [f \in Owned |-> o[f]]
    OBVIOUS
  <2>2. \A t \in feeds : t = Task(o[t.in], t.in)
    BY <1>2 DEF Ready, Owns
  <2> QED
    BY <2>1, <2>2 DEF Owns
<1> HIDE DEF d, o
<1>4. Ready(d) /\ InPlace(d, c)
  BY <1>1, <1>3 DEF Ready, InPlace
<1> QED
  BY <1>4 DEF d

LEMMA FetchesUnder ==
  ASSUME NEW c, Ready(c), ~c.switching, feeds = {}
  PROVE  Under(Fetches(c))
<1> DEFINE d == Fetches(c)
<1>1. /\ IsView(d) /\ d.own = c.own /\ d.source = c.source /\ d.src = c.src /\ d.switching = c.switching
      /\ d.at = "fetch"
  BY DEF Fetches, Ready, IsView, ViewFields, LoadFields
<1> HIDE DEF d
<1>2. Under(d)
  BY <1>1 DEF Ready, Under, Stops
<1> QED
  BY <1>2 DEF d

\* A load that has to wait is at the field of the feed it waits for.
LEMMA WaitsAt ==
  ASSUME NEW c, NEW f \in {"kaiTask", "kaiRefresh", "cbTask"}, Ready(c), Stops(f, c.waits, c.switching)
  PROVE  Under([c EXCEPT !.at = f])
<1> DEFINE d == [c EXCEPT !.at = f]
<1>1. /\ IsView(d) /\ d.own = c.own /\ d.source = c.source /\ d.src = c.src /\ d.switching = c.switching
      /\ d.at = f /\ d.waits = c.waits
  BY DEF Ready, IsView, ViewFields, LoadFields
<1> HIDE DEF d
<1>2. Under(d)
  BY <1>1 DEF Ready, Under
<1> QED
  BY <1>2 DEF d

\* _stop_coinbase_feed, and then the fetch.
LEMMA CoinbaseThenFetch ==
  ASSUME NEW c, Ready(c), ~c.switching, NoneIn("kaiTask"), NoneIn("kaiRefresh"), KnownFeeds
  PROVE  /\ Under(StopCoinbase(c, Fetches))
         /\ NoneIn("cbTask") => Under(CoinbaseStopped(c, Fetches))
<1>1. \A t \in feeds : t.in = "cbTask" /\ t.in \in Owned
  BY DEF NoneIn, KnownFeeds, Owned
<1>2. ASSUME NEW e, Ready(e), InPlace(e, c), NoneIn("cbTask") PROVE Under(CoinbaseStopped(e, Fetches))
  <2>1. feeds = {}
    BY <1>1, <1>2 DEF NoneIn
  <2>2. Ready(Clears(e, {"cbStream", "cbTask"})) /\ InPlace(Clears(e, {"cbStream", "cbTask"}), e)
    BY <1>2, <2>1, ClearsFields DEF NoneIn
  <2>3. ~Clears(e, {"cbStream", "cbTask"}).switching
    BY <1>2, <2>2 DEF InPlace
  <2>4. Under(Fetches(Clears(e, {"cbStream", "cbTask"})))
    BY <2>1, <2>2, <2>3, FetchesUnder
  <2> QED
    BY <2>4 DEF CoinbaseStopped
<1> DEFINE a == StopsStream(c, "cbStream")
           d == Cancels(a, "cbTask")
<1>3. Ready(a) /\ InPlace(a, c)
  BY StopsOneStream
<1>4. Ready(d) /\ InPlace(d, a) /\ Covered("cbTask", d.waits) /\ (d.waits = {} => NoneIn("cbTask"))
  BY <1>3, CancelsOne
<1>5. StopCoinbase(c, Fetches) = IF d.waits # {} THEN [d EXCEPT !.at = "cbTask"] ELSE CoinbaseStopped(d, Fetches)
  BY DEF StopCoinbase, Awaits
<1> HIDE DEF a, d
<1>6. InPlace(d, c) /\ ~d.switching
  BY <1>3, <1>4 DEF InPlace
<1>7. Stops("cbTask", d.waits, d.switching)
  BY <1>4 DEF Stops
<1>8. Under([d EXCEPT !.at = "cbTask"])
  BY <1>4, <1>7, WaitsAt
<1>9. d.waits = {} => Under(CoinbaseStopped(d, Fetches))
  BY <1>2, <1>4, <1>6
<1>10. NoneIn("cbTask") => Under(CoinbaseStopped(c, Fetches))
  BY <1>2 DEF InPlace
<1> QED
  BY <1>5, <1>8, <1>9, <1>10

\* The two cancellations and the end of _stop_kai_api_feed.
Kai1(c) == Cancels(StopsStream(c, "kaiStream"), "kaiTask")
Kai2(c) == Cancels(c, "kaiRefresh")
KaiCleared(c) == Clears(c, {"kaiStream", "kaiTask", "kaiRefresh"})

LEMMA KaiConsumerStops ==
  ASSUME NEW c, Ready(c), c.switching => NoneIn("cbTask")
  PROVE  /\ Ready(Kai1(c)) /\ InPlace(Kai1(c), c)
         /\ Under([Kai1(c) EXCEPT !.at = "kaiTask"]) /\ (Kai1(c).waits = {} => NoneIn("kaiTask"))
<1> DEFINE a == StopsStream(c, "kaiStream")
           d == Cancels(a, "kaiTask")
<1>1. Ready(a) /\ InPlace(a, c)
  BY StopsOneStream
<1>2. Ready(d) /\ InPlace(d, a) /\ Covered("kaiTask", d.waits) /\ (d.waits = {} => NoneIn("kaiTask"))
  BY <1>1, CancelsOne
<1>3. Kai1(c) = d
  BY DEF Kai1
<1> HIDE DEF a, d
<1>4. InPlace(d, c)
  BY <1>1, <1>2 DEF InPlace
<1>5. Stops("kaiTask", d.waits, d.switching)
  BY <1>2, <1>4 DEF Stops, InPlace
<1>6. Under([d EXCEPT !.at = "kaiTask"])
  BY <1>2, <1>5, WaitsAt
<1> QED
  BY <1>2, <1>3, <1>4, <1>6

LEMMA KaiRefreshStops ==
  ASSUME NEW c, Ready(c), c.switching => NoneIn("cbTask"), NoneIn("kaiTask")
  PROVE  /\ Ready(Kai2(c)) /\ InPlace(Kai2(c), c)
         /\ Under([Kai2(c) EXCEPT !.at = "kaiRefresh"]) /\ (Kai2(c).waits = {} => NoneIn("kaiRefresh"))
<1> DEFINE d == Cancels(c, "kaiRefresh")
<1>1. Ready(d) /\ InPlace(d, c) /\ Covered("kaiRefresh", d.waits) /\ (d.waits = {} => NoneIn("kaiRefresh"))
  BY CancelsOne
<1>2. Kai2(c) = d
  BY DEF Kai2
<1> HIDE DEF d
<1>3. Stops("kaiRefresh", d.waits, d.switching)
  BY <1>1 DEF Stops, InPlace
<1>4. Under([d EXCEPT !.at = "kaiRefresh"])
  BY <1>1, <1>3, WaitsAt
<1> QED
  BY <1>1, <1>2, <1>4

LEMMA KaiClears ==
  ASSUME NEW c, Ready(c), NoneIn("kaiTask"), NoneIn("kaiRefresh"), KnownFeeds
  PROVE  Ready(KaiCleared(c)) /\ InPlace(KaiCleared(c), c)
<1> DEFINE fs == {"kaiStream", "kaiTask", "kaiRefresh"}
<1>1. \A t \in feeds : t.in \in Owned
  BY DEF KnownFeeds, Owned
<1>2. \A f \in fs : NoneIn(f)
  BY DEF NoneIn, KnownFeeds
<1> HIDE DEF fs
<1>3. Ready(Clears(c, fs)) /\ InPlace(Clears(c, fs), c)
  BY <1>1, <1>2, ClearsFields
<1> QED
  BY <1>3 DEF KaiCleared, fs

-----------------------------------------------------------------------------
(* _load_chart, from its beginning and from each of its awaits. *)

Loading(d) == StopCoinbase(d, Fetches)

LEMMA LoadAfterKai ==
  ASSUME NEW c, Ready(c), ~c.switching, KnownFeeds, NoneIn("kaiTask"), NoneIn("kaiRefresh")
  PROVE  Under(KaiStopped(c, Loading))
<1>1. Ready(KaiCleared(c)) /\ InPlace(KaiCleared(c), c)
  BY KaiClears
<1>2. ~KaiCleared(c).switching
  BY <1>1 DEF InPlace
<1>3. Under(StopCoinbase(KaiCleared(c), Fetches))
  BY <1>1, <1>2, CoinbaseThenFetch
<1> QED
  BY <1>3 DEF KaiStopped, Loading, KaiCleared

LEMMA LoadAfterConsumer ==
  ASSUME NEW c, Ready(c), ~c.switching, KnownFeeds, NoneIn("kaiTask")
  PROVE  Under(KaiConsumerOver(c, Loading))
<1>1. /\ Ready(Kai2(c)) /\ InPlace(Kai2(c), c)
      /\ Under([Kai2(c) EXCEPT !.at = "kaiRefresh"]) /\ (Kai2(c).waits = {} => NoneIn("kaiRefresh"))
  BY KaiRefreshStops
<1>2. KaiConsumerOver(c, Loading) = IF Kai2(c).waits # {} THEN [Kai2(c) EXCEPT !.at = "kaiRefresh"]
                                    ELSE KaiStopped(Kai2(c), Loading)
  BY DEF KaiConsumerOver, Awaits, Kai2
<1>3. Kai2(c).waits = {} => Under(KaiStopped(Kai2(c), Loading))
  BY <1>1, LoadAfterKai DEF InPlace
<1> QED
  BY <1>1, <1>2, <1>3

LEMMA LoadFromKai ==
  ASSUME NEW c, Ready(c), ~c.switching, KnownFeeds
  PROVE  Under(StopKai(c, Loading))
<1>1. /\ Ready(Kai1(c)) /\ InPlace(Kai1(c), c)
      /\ Under([Kai1(c) EXCEPT !.at = "kaiTask"]) /\ (Kai1(c).waits = {} => NoneIn("kaiTask"))
  BY KaiConsumerStops
<1>2. StopKai(c, Loading) = IF Kai1(c).waits # {} THEN [Kai1(c) EXCEPT !.at = "kaiTask"]
                            ELSE KaiConsumerOver(Kai1(c), Loading)
  BY DEF StopKai, Awaits, Kai1
<1>3. Kai1(c).waits = {} => Under(KaiConsumerOver(Kai1(c), Loading))
  BY <1>1, LoadAfterConsumer DEF InPlace
<1> QED
  BY <1>1, <1>2, <1>3

LEMMA LoadBegins ==
  ASSUME NEW c, IsView(c), ~c.switching, c.switching \in BOOLEAN, c.source \in Sources, Owns(c.own),
         feeds # {} => c.source = source, \A t \in feeds : t.in \in InField(c.source)
  PROVE  Under(Begins(c))
<1>1. KnownFeeds
  BY DEF KnownFeeds, InField
<1>2. CASE c.source = "kai"
  <2> DEFINE b == [c EXCEPT !.src = "kai"]
  <2>1. /\ IsView(b) /\ b.own = c.own /\ b.source = c.source /\ b.src = "kai" /\ b.switching = c.switching
    BY DEF IsView, ViewFields, LoadFields
  <2>2. Begins(c) = StopKai(b, Loading)
    BY <1>2 DEF Begins, Loading
  <2> HIDE DEF b
  <2>3. Ready(b) /\ ~b.switching
    BY <1>2, <2>1 DEF Ready
  <2> QED
    BY <1>1, <2>2, <2>3, LoadFromKai
<1>3. CASE c.source # "kai"
  <2> DEFINE b == [c EXCEPT !.src = "coinbase"]
  <2>1. /\ IsView(b) /\ b.own = c.own /\ b.source = c.source /\ b.src = "coinbase" /\ b.switching = c.switching
    BY DEF IsView, ViewFields, LoadFields
  <2>2. Begins(c) = StopCoinbase(b, Fetches)
    BY <1>3 DEF Begins
  <2> HIDE DEF b
  <2>3. Ready(b) /\ ~b.switching
    BY <1>3, <2>1 DEF Ready, Sources
  <2>4. NoneIn("kaiTask") /\ NoneIn("kaiRefresh")
    BY <1>3 DEF NoneIn, InField
  <2> QED
    BY <1>1, <2>2, <2>3, <2>4, CoinbaseThenFetch
<1> QED
  BY <1>2, <1>3

-----------------------------------------------------------------------------
(* /chart source, from its beginning and from each of its awaits. *)

LEMMA SwitchBegins ==
  ASSUME NEW c, Ready(c), feeds = {}
  PROVE  Under(Switches(c))
<1> DEFINE b == [c EXCEPT !.switching = FALSE, !.source = Other(c.src), !.sym = symbol, !.tf = tf]
<1>1. IsView(b) /\ b.own = c.own /\ b.source = Other(c.src) /\ b.switching = FALSE
  BY DEF Ready, IsView, ViewFields, LoadFields
<1>2. Switches(c) = Begins(b)
  BY DEF Switches
<1> HIDE DEF b
<1>3. b.source \in Sources
  BY <1>1 DEF Sources, Other
<1>4. Owns(b.own)
  BY <1>1 DEF Ready
<1> QED
  BY <1>1, <1>2, <1>3, <1>4, LoadBegins

LEMMA SwitchAfterKai ==
  ASSUME NEW c, Ready(c), KnownFeeds, NoneIn("cbTask"), NoneIn("kaiTask"), NoneIn("kaiRefresh")
  PROVE  Under(KaiStopped(c, Switches))
<1>1. Ready(KaiCleared(c))
  BY KaiClears
<1>2. feeds = {}
  BY DEF KnownFeeds, NoneIn
<1>3. Under(Switches(KaiCleared(c)))
  BY <1>1, <1>2, SwitchBegins
<1> QED
  BY <1>3 DEF KaiStopped, KaiCleared

LEMMA SwitchAfterConsumer ==
  ASSUME NEW c, Ready(c), KnownFeeds, NoneIn("cbTask"), NoneIn("kaiTask")
  PROVE  Under(KaiConsumerOver(c, Switches))
<1>1. /\ Ready(Kai2(c)) /\ InPlace(Kai2(c), c)
      /\ Under([Kai2(c) EXCEPT !.at = "kaiRefresh"]) /\ (Kai2(c).waits = {} => NoneIn("kaiRefresh"))
  BY KaiRefreshStops
<1>2. KaiConsumerOver(c, Switches) = IF Kai2(c).waits # {} THEN [Kai2(c) EXCEPT !.at = "kaiRefresh"]
                                     ELSE KaiStopped(Kai2(c), Switches)
  BY DEF KaiConsumerOver, Awaits, Kai2
<1>3. Kai2(c).waits = {} => Under(KaiStopped(Kai2(c), Switches))
  BY <1>1, SwitchAfterKai
<1> QED
  BY <1>1, <1>2, <1>3

LEMMA SwitchFromKai ==
  ASSUME NEW c, Ready(c), KnownFeeds, NoneIn("cbTask")
  PROVE  Under(StopKai(c, Switches))
<1>1. /\ Ready(Kai1(c)) /\ InPlace(Kai1(c), c)
      /\ Under([Kai1(c) EXCEPT !.at = "kaiTask"]) /\ (Kai1(c).waits = {} => NoneIn("kaiTask"))
  BY KaiConsumerStops
<1>2. StopKai(c, Switches) = IF Kai1(c).waits # {} THEN [Kai1(c) EXCEPT !.at = "kaiTask"]
                             ELSE KaiConsumerOver(Kai1(c), Switches)
  BY DEF StopKai, Awaits, Kai1
<1>3. Kai1(c).waits = {} => Under(KaiConsumerOver(Kai1(c), Switches))
  BY <1>1, SwitchAfterConsumer
<1> QED
  BY <1>1, <1>2, <1>3

Switching(d) == StopKai(d, Switches)

LEMMA SwitchAfterCoinbase ==
  ASSUME NEW c, Ready(c), KnownFeeds, NoneIn("cbTask")
  PROVE  Under(CoinbaseStopped(c, Switching))
<1> DEFINE fs == {"cbStream", "cbTask"}
<1>1. \A t \in feeds : t.in \in Owned
  BY DEF KnownFeeds, Owned
<1>2. \A f \in fs : NoneIn(f)
  BY DEF NoneIn, KnownFeeds
<1>3. CoinbaseStopped(c, Switching) = StopKai(Clears(c, fs), Switches)
  BY DEF CoinbaseStopped, Switching
<1> HIDE DEF fs
<1>4. Ready(Clears(c, fs))
  BY <1>1, <1>2, ClearsFields
<1> QED
  BY <1>3, <1>4, SwitchFromKai

LEMMA SwitchSource ==
  ASSUME NEW c, Ready(c), c.switching, KnownFeeds
  PROVE  Under(SwitchesSource(c))
<1> DEFINE a == StopsStream(c, "cbStream")
           d == Cancels(a, "cbTask")
<1>1. Ready(a) /\ InPlace(a, c)
  BY StopsOneStream
<1>2. Ready(d) /\ InPlace(d, a) /\ Covered("cbTask", d.waits) /\ (d.waits = {} => NoneIn("cbTask"))
  BY <1>1, CancelsOne
<1>3. SwitchesSource(c) = IF d.waits # {} THEN [d EXCEPT !.at = "cbTask"] ELSE CoinbaseStopped(d, Switching)
  BY DEF SwitchesSource, StopCoinbase, Awaits, CoinbaseStopped, Switching
<1> HIDE DEF a, d
<1>4. d.switching
  BY <1>1, <1>2 DEF InPlace
<1>5. Stops("cbTask", d.waits, d.switching)
  BY <1>2, <1>4 DEF Stops
<1>6. Under([d EXCEPT !.at = "cbTask"])
  BY <1>2, <1>5, WaitsAt
<1>7. d.waits = {} => Under(CoinbaseStopped(d, Switching))
  BY <1>2, SwitchAfterCoinbase
<1> QED
  BY <1>3, <1>6, <1>7

\* A load that goes on after the feed it waited for is over.
LEMMA LoadGoesOn ==
  ASSUME NEW c, Ready(c), KnownFeeds, Stops(c.at, c.waits, c.switching), c.waits \cap feeds = {},
         c.at \in {"kaiTask", "kaiRefresh", "cbTask"}
  PROVE  Under(GoesOn(c))
<1>0. \A f : Covered(f, c.waits) => NoneIn(f)
  BY DEF Covered, NoneIn
<1>1. CASE c.at = "kaiTask"
  <2>1. GoesOn(c) = IF c.switching THEN KaiConsumerOver(c, Switches) ELSE KaiConsumerOver(c, Loading)
    BY <1>1 DEF GoesOn, KaiConsumerOver, KaiStopped, Awaits, Loading
  <2>2. NoneIn("kaiTask") /\ (c.switching => NoneIn("cbTask"))
    BY <1>0, <1>1 DEF Stops
  <2> QED
    BY <2>1, <2>2, SwitchAfterConsumer, LoadAfterConsumer
<1>2. CASE c.at = "kaiRefresh"
  <2>1. GoesOn(c) = IF c.switching THEN KaiStopped(c, Switches) ELSE KaiStopped(c, Loading)
    BY <1>2 DEF GoesOn, KaiStopped, Loading
  <2>2. NoneIn("kaiTask") /\ NoneIn("kaiRefresh") /\ (c.switching => NoneIn("cbTask"))
    BY <1>0, <1>2 DEF Stops
  <2> QED
    BY <2>1, <2>2, SwitchAfterKai, LoadAfterKai
<1>3. CASE c.at = "cbTask"
  <2>1. GoesOn(c) = IF c.switching THEN CoinbaseStopped(c, Switching) ELSE CoinbaseStopped(c, Fetches)
    BY <1>3 DEF GoesOn, CoinbaseStopped, Switching
  <2>2. NoneIn("cbTask") /\ (~c.switching => NoneIn("kaiTask") /\ NoneIn("kaiRefresh"))
    BY <1>0, <1>3 DEF Stops
  <2> QED
    BY <2>1, <2>2, SwitchAfterCoinbase, CoinbaseThenFetch
<1> QED
  BY <1>1, <1>2, <1>3

-----------------------------------------------------------------------------
(* The actions. *)

LEMMA FeedsAreKnown ==
  ASSUME ChartInv
  PROVE  KnownFeeds /\ \A t \in feeds : t.in \in InField(source)
<1>1. \A t \in feeds : t.in \in InField(source)
  BY DEF ChartInv, FeedOk
<1> QED
  BY <1>1 DEF InField, KnownFeeds

LEMMA ViewOf ==
  ASSUME NEW l
  PROVE  /\ IsView(View(l)) /\ View(l).own = own /\ View(l).source = source /\ View(l).src = l.src
         /\ View(l).at = l.at /\ View(l).waits = l.waits /\ View(l).switching = l.switching
BY DEF View, IsView, ViewFields, LoadFields

IsNew(n) == n = [f \in LoadFields |-> n[f]] /\ n.at = "new" /\ n.src = source /\ n.switching = FALSE
LEMMA NewLoadIs ==
  ASSUME NEW s, NEW i
  PROVE  IsNew(NewLoad(s, i, TRUE)) /\ IsNew(NewLoad(s, i, FALSE))
BY DEF NewLoad, LoadFields, IsNew

LEMMA OnlyOneLoad ==
  ASSUME Concurrent = 1, UserActs
  PROVE  Busy = {}
<1>1. IsFiniteSet(Busy)
  <2>1. IsFiniteSet(1 .. MaxLoads)
    BY ChartAssumption, FS_Interval
  <2> QED
    BY <2>1, FS_Subset DEF Busy, Loads
<1>2. Cardinality(Busy) = 0
  <2>1. Cardinality(Busy) \in Nat
    BY <1>1, FS_CardinalityType
  <2> QED
    BY <2>1 DEF UserActs
<1> QED
  BY <1>1, <1>2, FS_EmptySet

\* Where nobody else is at work, a load may become any of those that the stops come out with.
LEMMA LoadBecomes ==
  ASSUME ChartInv, NEW l \in Loads, NEW c, Under(c), ChartBecomes(l, c), Busy \subseteq {l},
         loads[l].at # "over"
  PROVE  ChartInv'
<1>1. /\ own' = c.own /\ source' = c.source /\ panel' = panel /\ painted' = painted /\ feeds' = feeds
      /\ loads' = [loads EXCEPT ![l] = [f \in DOMAIN loads[l] |-> c[f]]]
  BY DEF ChartBecomes
<1> DEFINE r == [f \in LoadFields |-> c[f]]
<1>2. loads' = [loads EXCEPT ![l] = r]
  <2>1. DOMAIN loads[l] = LoadFields
    BY DEF ChartInv, ChartTyped
  <2> QED
    BY <1>1, <2>1
<1>3. /\ r = [f \in LoadFields |-> r[f]] /\ r.at = c.at /\ r.src = c.src /\ r.waits = c.waits
      /\ r.switching = c.switching
  BY DEF LoadFields
<1> HIDE DEF r
<1>4. /\ loads' = [k \in Loads |-> [f \in LoadFields |-> loads'[k][f]]] /\ loads'[l] = r
      /\ \A k \in Loads : k # l => loads'[k] = loads[k]
  <2>1. loads = [k \in Loads |-> [f \in LoadFields |-> loads[k][f]]]
    BY DEF ChartInv, ChartTyped
  <2>2. loads' = [k \in Loads |-> IF k = l THEN r ELSE loads[k]]
    BY <1>2, <2>1
  <2>3. \A k \in Loads : loads'[k] = [f \in LoadFields |-> loads'[k][f]]
    BY <1>3, <2>1, <2>2
  <2> QED
    BY <2>2, <2>3
<1>5. Ready(c) /\ Stops(c.at, c.waits, c.switching)
  BY DEF Under
<1>6. \A at, ws, sw : Stops(at, ws, sw)' <=> Stops(at, ws, sw)
  BY <1>1 DEF Stops, Covered, NoneIn
<1>7. Owns(own)' /\ ChartTyped'
  BY <1>1, <1>4, <1>5 DEF Ready, Owns, ChartTyped
<1>8. LoadOk(loads[l])'
  <2>1. r.switching \in BOOLEAN /\ r.src = source' /\ Stops(r.at, r.waits, r.switching)
    BY <1>1, <1>3, <1>5 DEF Ready
  <2> QED
    BY <1>4, <1>6, <2>1 DEF LoadOk
<1>9. \A t \in feeds' : t.by \in Loads /\ FeedOk(t)'
  <2> SUFFICES ASSUME NEW t \in feeds PROVE t.by \in Loads /\ FeedOk(t)'
    BY <1>1
  <2>1. t.by \in Loads /\ FeedOk(t) /\ t.by # l
    BY DEF ChartInv, FeedOk
  <2>2. loads'[t.by] = loads[t.by] /\ source' = source
    BY <1>1, <1>4, <1>5, <2>1 DEF Ready
  <2> QED
    BY <1>1, <2>1, <2>2 DEF FeedOk, Shows
<1>10. Busy' \subseteq {l}
  BY <1>4 DEF Busy
<1> QED
  BY <1>1, <1>7, <1>8, <1>9, <1>10 DEF ChartInv

LEMMA AsksForLoad ==
  ASSUME ChartInv, Concurrent = 1, UserActs, NEW l \in Wanted,
         CycleTimeframe(l) \/ CycleSymbol(l) \/ ClickSymbol(l) \/ CommandLoad(l) \/ CommandSource(l)
  PROVE  ChartInv'
<1>1. Busy = {} /\ l \in Loads /\ loads[l].at = "unused"
  BY OnlyOneLoad DEF Wanted
<1>2. KnownFeeds /\ \A t \in feeds : t.in \in InField(source)
  BY FeedsAreKnown
<1>3. ASSUME NEW s, NEW i, InWorker(l, s, i) PROVE ChartInv'
  <2> DEFINE n == NewLoad(s, i, FALSE)
  <2>1. loads' = [loads EXCEPT ![l] = n] /\ UNCHANGED <<source, symbol, panel, painted, own, feeds, dying, reads, stopped>>
    BY <1>3 DEF InWorker
  <2>2. n = [f \in LoadFields |-> n[f]] /\ n.at = "new" /\ n.switching = FALSE
    BY NewLoadIs DEF IsNew
  <2> HIDE DEF n
  <2>3. /\ loads' = [k \in Loads |-> [f \in LoadFields |-> loads'[k][f]]] /\ loads'[l] = n
        /\ \A k \in Loads : k # l => loads'[k] = loads[k]
    <3>1. loads = [k \in Loads |-> [f \in LoadFields |-> loads[k][f]]]
      BY DEF ChartInv, ChartTyped
    <3>2. loads' = [k \in Loads |-> IF k = l THEN n ELSE loads[k]]
      BY <2>1, <3>1
    <3>3. \A k \in Loads : loads'[k] = [f \in LoadFields |-> loads'[k][f]]
      BY <2>2, <3>1, <3>2
    <3> QED
      BY <1>1, <3>2, <3>3
  <2>4. ChartTyped' /\ Owns(own)'
    BY <2>1, <2>3 DEF ChartInv, ChartTyped, Owns
  <2>5. \A t \in feeds' : t.by \in Loads /\ FeedOk(t)'
    <3> SUFFICES ASSUME NEW t \in feeds PROVE t.by \in Loads /\ FeedOk(t)'
      BY <2>1
    <3>1. t.by \in Loads /\ FeedOk(t) /\ t.by # l
      BY <1>1 DEF ChartInv, FeedOk
    <3> QED
      BY <2>1, <2>3, <3>1 DEF FeedOk, Shows
  <2>6. Busy' \subseteq {l}
    BY <1>1, <2>3 DEF Busy
  <2>7. LoadOk(loads[l])'
    BY <2>2, <2>3 DEF LoadOk
  <2> QED
    BY <2>1, <2>4, <2>5, <2>6, <2>7 DEF ChartInv
<1>4. CASE CommandLoad(l)
  <2>1. PICK s \in Known, i \in InSeq(Timeframes) : ChartBecomes(l, Begins(View(NewLoad(s, i, TRUE))))
    BY <1>4 DEF CommandLoad
  <2> DEFINE n == NewLoad(s, i, TRUE)
             c == View(n)
  <2>a. IsNew(n)
    BY NewLoadIs
  <2> HIDE DEF n
  <2>2. IsView(c) /\ c.own = own /\ c.source = source /\ c.switching = FALSE
    BY <2>a, ViewOf DEF IsNew
  <2> HIDE DEF c
  <2>3. Under(Begins(c))
    BY <1>2, <2>2, LoadBegins DEF ChartInv, ChartTyped
  <2>4. ChartBecomes(l, Begins(c))
    BY <2>1 DEF c, n
  <2> QED
    BY <1>1, <2>3, <2>4, LoadBecomes
<1>5. CASE CommandSource(l)
  <2> DEFINE n == NewLoad(symbol, tf, TRUE)
             v == View(n)
             c == [v EXCEPT !.switching = TRUE]
  <2>1. ChartBecomes(l, SwitchesSource(c))
    BY <1>5 DEF CommandSource
  <2>a. IsNew(n)
    BY NewLoadIs
  <2> HIDE DEF n
  <2>2. IsView(v) /\ v.own = own /\ v.source = source /\ v.src = source
    BY <2>a, ViewOf DEF IsNew
  <2> HIDE DEF v
  <2>3. IsView(c) /\ c.own = own /\ c.source = source /\ c.src = source /\ c.switching = TRUE
    BY <2>2 DEF IsView, ViewFields, LoadFields
  <2> HIDE DEF c
  <2>4. Ready(c)
    BY <2>3 DEF Ready, ChartInv, ChartTyped
  <2>5. Under(SwitchesSource(c))
    BY <1>2, <2>3, <2>4, SwitchSource
  <2> QED
    BY <1>1, <2>1, <2>5, LoadBecomes
<1> QED
  BY <1>3, <1>4, <1>5 DEF CycleTimeframe, CycleSymbol, ClickSymbol

LEMMA WorkerStartsKeeps ==
  ASSUME ChartInv, NEW l \in Loads, WorkerStarts(l)
  PROVE  ChartInv'
<1>1. loads[l].at = "new" /\ ChartBecomes(l, Begins(View(loads[l])))
  BY DEF WorkerStarts
<1>2. Busy \subseteq {l} /\ LoadOk(loads[l])
  BY <1>1 DEF ChartInv, Busy
<1> DEFINE c == View(loads[l])
<1>3. IsView(c) /\ c.own = own /\ c.source = source /\ c.switching = loads[l].switching
  BY ViewOf
<1>4. c.switching \in BOOLEAN /\ ~c.switching
  BY <1>1, <1>2, <1>3 DEF LoadOk, Stops
<1> HIDE DEF c
<1>5. Under(Begins(c))
  BY <1>3, <1>4, FeedsAreKnown, LoadBegins DEF ChartInv, ChartTyped
<1> QED
  BY <1>1, <1>2, <1>5, LoadBecomes DEF c

LEMMA StopGoesOnKeeps ==
  ASSUME ChartInv, NEW l \in Loads, StopGoesOn(l)
  PROVE  ChartInv'
<1>1. /\ loads[l].at \in {"kaiTask", "kaiRefresh", "cbTask"} /\ loads[l].waits \cap feeds = {}
      /\ ChartBecomes(l, GoesOn(View(loads[l])))
  BY DEF StopGoesOn
<1>2. Busy \subseteq {l} /\ LoadOk(loads[l])
  BY <1>1 DEF ChartInv, Busy
<1> DEFINE c == View(loads[l])
<1>3. /\ IsView(c) /\ c.own = own /\ c.source = source /\ c.src = loads[l].src /\ c.switching = loads[l].switching
      /\ c.at = loads[l].at /\ c.waits = loads[l].waits
  BY ViewOf
<1>4. c.switching \in BOOLEAN /\ c.src = source /\ Stops(c.at, c.waits, c.switching)
  BY <1>1, <1>2, <1>3 DEF LoadOk
<1> HIDE DEF c
<1>5. Ready(c)
  BY <1>3, <1>4 DEF Ready, ChartInv, ChartTyped
<1>6. Under(GoesOn(c))
  BY <1>1, <1>3, <1>4, <1>5, FeedsAreKnown, LoadGoesOn
<1> QED
  BY <1>1, <1>2, <1>6, LoadBecomes DEF c

\* A load that has fetched finds no feeds.
LEMMA FetchedAlone ==
  ASSUME ChartInv, NEW l \in Loads, loads[l].at = "fetch"
  PROVE  feeds = {} /\ loads[l].src = source /\ Busy \subseteq {l}
<1>1. l \in Busy
  BY DEF Busy
<1>2. LoadOk(loads[l])
  BY <1>1 DEF ChartInv
<1> QED
  BY <1>1, <1>2 DEF ChartInv, LoadOk, Stops

LEMMA LoadFailsKeeps ==
  ASSUME ChartInv, NEW l \in Loads, LoadFails(l)
  PROVE  ChartInv'
<1>1. /\ loads[l].at = "fetch" /\ loads' = [loads EXCEPT ![l].at = "over"]
      /\ UNCHANGED <<source, symbol, tf, panel, painted, own, feeds, dying, reads, stopped>>
  BY DEF LoadFails
<1>2. feeds = {} /\ Busy \subseteq {l}
  BY <1>1, FetchedAlone
<1>3. loads = [k \in Loads |-> [f \in LoadFields |-> loads[k][f]]]
  BY DEF ChartInv, ChartTyped
<1> DEFINE r == [loads[l] EXCEPT !.at = "over"]
<1>4. r = [f \in LoadFields |-> r[f]] /\ r.at = "over"
  BY <1>3 DEF LoadFields
<1>5. loads' = [k \in Loads |-> IF k = l THEN r ELSE loads[k]]
  BY <1>1, <1>3
<1> HIDE DEF r
<1>6. loads' = [k \in Loads |-> [f \in LoadFields |-> loads'[k][f]]]
  BY <1>3, <1>4, <1>5
<1>7. Busy' = {}
  BY <1>2, <1>4, <1>5 DEF Busy
<1> QED
  BY <1>1, <1>2, <1>6, <1>7 DEF ChartInv, ChartTyped, Owns

LEMMA BootstrappedKeeps ==
  ASSUME ChartInv, NEW l \in Loads, Bootstrapped(l)
  PROVE  ChartInv'
<1> DEFINE o == loads[l].src
           s == Name(o, loads[l].sym)
           i == loads[l].tf
           fs == IF o = "kai" THEN {"kaiTask", "kaiRefresh"} ELSE {"cbTask"}
<1>1. /\ loads[l].at = "fetch"
      /\ panel' = Series(source, s, i) /\ painted' = {Series(o, s, i)}
      /\ own' = Started(l, o, i) /\ feeds' = feeds \cup {Task(l, f) : f \in fs}
      /\ loads' = [loads EXCEPT ![l].at = "over", ![l].sym = s] /\ source' = source
  BY DEF Bootstrapped
<1>2. feeds = {} /\ o = source /\ Busy \subseteq {l} /\ source \in Sources
  BY <1>1, FetchedAlone DEF ChartInv, ChartTyped
<1>3. loads = [k \in Loads |-> [f \in LoadFields |-> loads[k][f]]]
  BY DEF ChartInv, ChartTyped
<1> DEFINE r == [loads[l] EXCEPT !.at = "over", !.sym = s]
<1>4. r = [f \in LoadFields |-> r[f]] /\ r.at = "over" /\ r.sym = s /\ r.src = o /\ r.tf = i
  BY <1>3 DEF LoadFields
<1> HIDE DEF o, s, i
<1>5. loads' = [k \in Loads |-> IF k = l THEN r ELSE loads[k]]
  BY <1>1, <1>3
<1> HIDE DEF r
<1>6. loads' = [k \in Loads |-> [f \in LoadFields |-> loads'[k][f]]]
  BY <1>3, <1>4, <1>5
<1>7. Busy' = {}
  BY <1>2, <1>4, <1>5 DEF Busy
<1>8. own' = [f \in Owned |-> own'[f]] /\ \A f \in fs : own'[f] = l
  <2>1. own = [f \in Owned |-> own[f]]
    BY DEF ChartInv, Owns
  <2>2. CASE o = "kai"
    <3>1. own' = [own EXCEPT !.kaiStream = l, !.kaiTask = l, !.kaiRefresh = l]
      BY <1>1, <2>2 DEF Started
    <3>2. own' = [f \in Owned |-> IF f \in {"kaiStream", "kaiTask", "kaiRefresh"} THEN l ELSE own[f]]
      BY <2>1, <3>1 DEF Owned
    <3> QED
      BY <2>2, <3>2 DEF Owned
  <2>3. CASE o # "kai"
    <3>1. own' = [own EXCEPT !.cbStream = l, !.cbTask = l] \/ own' = [own EXCEPT !.cbTask = l]
      BY <1>1, <2>3 DEF Started
    <3>2. own' = [f \in Owned |-> own'[f]] /\ own'["cbTask"] = l
      BY <2>1, <3>1 DEF Owned
    <3> QED
      BY <2>3, <3>2
  <2> QED
    BY <2>2, <2>3
<1>9. \A t \in feeds' : t.by = l /\ t.in \in fs /\ t = Task(l, t.in)
  BY <1>1, <1>2 DEF Task
<1>10. Owns(own)'
  BY <1>8, <1>9 DEF Owns
<1>11. fs = InField(source)
  BY <1>2 DEF InField
<1> HIDE DEF fs
<1>12. ASSUME NEW t \in feeds' PROVE t.by \in Loads /\ FeedOk(t)'
  <2>1. t.by = l /\ t.in \in InField(source)
    BY <1>9, <1>11
  <2>2. loads'[l] = r
    BY <1>5
  <2>3. Series(r.src, r.sym, r.tf) = panel' /\ panel'.src = source
    BY <1>1, <1>2, <1>4 DEF Series
  <2> QED
    BY <1>1, <1>4, <2>1, <2>2, <2>3 DEF FeedOk, Shows
<1>13. painted' \subseteq {panel'}
  BY <1>1, <1>2
<1>14. ChartTyped'
  BY <1>1, <1>2, <1>6 DEF ChartTyped
<1> QED
  BY <1>7, <1>10, <1>12, <1>13, <1>14 DEF ChartInv

\* A feed that ends, by itself or cancelled, takes nothing from what is known of the loads.
LEMMA FewerFeeds ==
  ASSUME ChartInv, feeds' \subseteq feeds, UNCHANGED <<source, panel, painted, loads, own>>
  PROVE  ChartInv'
<1>1. \A at, ws, sw : Stops(at, ws, sw) => Stops(at, ws, sw)'
  BY DEF Stops, Covered, NoneIn
<1>2. \A k \in Loads : LoadOk(loads[k]) => LoadOk(loads[k])'
  BY <1>1 DEF LoadOk
<1>3. \A t : FeedOk(t) => FeedOk(t)'
  BY DEF FeedOk, Shows
<1>4. Busy' = Busy /\ Busy \subseteq Loads
  BY DEF Busy
<1>5. Owns(own)' /\ ChartTyped'
  BY DEF ChartInv, Owns, ChartTyped
<1> QED
  BY <1>2, <1>3, <1>4, <1>5 DEF ChartInv

LEMMA FeedKeeps ==
  ASSUME ChartInv, NEW t \in feeds, ConsumerStarts(t) \/ Paints(t) \/ PanelRefreshes(t) \/ FeedEnds(t)
  PROVE  ChartInv'
<1>1. FeedOk(t)
  BY DEF ChartInv
<1>2. CASE ConsumerStarts(t) \/ FeedEnds(t)
  <2>1. feeds' \subseteq feeds /\ UNCHANGED <<source, panel, painted, loads, own>>
    BY <1>2 DEF ConsumerStarts, FeedEnds, Over
  <2> QED
    BY <2>1, FewerFeeds
<1>3. CASE Paints(t) \/ PanelRefreshes(t)
  <2>1. UNCHANGED <<source, loads, own, feeds>>
    BY <1>3 DEF Paints, PanelRefreshes
  <2>2. panel' = panel /\ painted' \subseteq {panel}
    <3>1. CASE Paints(t)
      BY <1>1, <3>1 DEF Paints, FeedOk, ChartInv
    <3>2. CASE PanelRefreshes(t)
      <4>1. Shows(t.by) = panel /\ panel.src = source /\ Shows(t.by) = Series(panel.src, panel.sym, panel.tf)
        BY <1>1 DEF FeedOk, Shows, Series
      <4>2. [panel EXCEPT !.src = source] = panel
        BY <4>1 DEF Series
      <4> QED
        BY <3>2, <4>1, <4>2 DEF PanelRefreshes
    <3> QED
      BY <1>3, <3>1, <3>2
  <2>3. \A at, ws, sw : Stops(at, ws, sw) => Stops(at, ws, sw)'
    BY <2>1 DEF Stops, Covered, NoneIn
  <2>4. \A k \in Loads : LoadOk(loads[k]) => LoadOk(loads[k])'
    BY <2>1, <2>3 DEF LoadOk
  <2>5. \A u : FeedOk(u) => FeedOk(u)'
    BY <2>1, <2>2 DEF FeedOk, Shows
  <2>6. Busy' = Busy /\ Busy \subseteq Loads /\ Owns(own)' /\ ChartTyped'
    BY <2>1 DEF Busy, ChartInv, Owns, ChartTyped
  <2> QED
    BY <2>1, <2>2, <2>4, <2>5, <2>6 DEF ChartInv
<1> QED
  BY <1>2, <1>3

LEMMA ChartStarts == ChartInit => ChartInv
<1> SUFFICES ASSUME ChartInit PROVE ChartInv
  OBVIOUS
<1> DEFINE n == NewLoad(symbol, tf, FALSE)
           r(l) == [n EXCEPT !.at = IF l = 1 THEN "new" ELSE "unused"]
<1>1. /\ source \in Sources /\ painted = {} /\ feeds = {} /\ own = [f \in Owned |-> NoFeed]
      /\ loads = [l \in Loads |-> r(l)]
  BY DEF ChartInit, Sources
<1>2. IsNew(n)
  BY NewLoadIs
<1> HIDE DEF n
<1>3. \A l \in Loads : /\ r(l) = [f \in LoadFields |-> r(l)[f]] /\ r(l).switching = FALSE
                       /\ r(l).at = IF l = 1 THEN "new" ELSE "unused"
  BY <1>2 DEF IsNew, LoadFields
<1> HIDE DEF r
<1>4. ChartTyped
  BY <1>1, <1>3 DEF ChartTyped
<1>5. Owns(own)
  BY <1>1 DEF Owns
<1>6. \A l \in Busy : l = 1 /\ l \in Loads /\ loads[l].at = "new"
  BY <1>1, <1>3 DEF Busy
<1>7. \A l \in Busy : LoadOk(loads[l])
  BY <1>1, <1>3, <1>6 DEF LoadOk
<1> QED
  BY <1>1, <1>4, <1>5, <1>6, <1>7 DEF ChartInv

LEMMA ChartSteps == ChartInv /\ [ChartNext]_chartvars /\ Concurrent = 1 => ChartInv'
<1> SUFFICES ASSUME ChartInv, [ChartNext]_chartvars, Concurrent = 1 PROVE ChartInv'
  OBVIOUS
<1>1. ASSUME NEW l \in Wanted, UserActs,
             CycleTimeframe(l) \/ CycleSymbol(l) \/ ClickSymbol(l) \/ CommandLoad(l) \/ CommandSource(l)
      PROVE  ChartInv'
  BY <1>1, AsksForLoad
<1>2. ASSUME NEW l \in Loads, WorkerStarts(l) PROVE ChartInv'
  BY <1>2, WorkerStartsKeeps
<1>3. ASSUME NEW l \in Loads, StopGoesOn(l) PROVE ChartInv'
  BY <1>3, StopGoesOnKeeps
<1>4. ASSUME NEW l \in Loads, Bootstrapped(l) PROVE ChartInv'
  BY <1>4, BootstrappedKeeps
<1>5. ASSUME NEW l \in Loads, LoadFails(l) PROVE ChartInv'
  BY <1>5, LoadFailsKeeps
<1>6. ASSUME NEW t \in feeds, ConsumerStarts(t) \/ Paints(t) \/ PanelRefreshes(t) \/ FeedEnds(t) PROVE ChartInv'
  BY <1>6, FeedKeeps
<1>7. CASE UNCHANGED chartvars
  BY <1>7, FewerFeeds DEF chartvars
<1> QED
  BY <1>1, <1>2, <1>3, <1>4, <1>5, <1>6, <1>7 DEF ChartNext

\* While no two loads overlap, whatever they are for and wherever they wait or fail: each feed
\* that runs is the one the app owns and feeds the series the chart shows, nothing of another
\* series is painted over it, and a load that fetches has stopped them all (_load_chart, its
\* stops and its bootstrap, the consumers and pollers).
THEOREM TheChartIsFed == ChartSpec => []ChartIsFed
<1>1. ChartInv => ChartIsFed
  <2> SUFFICES ASSUME ChartInv
               PROVE  /\ \A t \in feeds \ dying : own[t.in] = t.by /\ Shows(t.by) = panel /\ panel.src = source
                      /\ painted \subseteq {panel}
                      /\ \A l \in Loads : loads[l].at = "fetch" => feeds = {}
    BY DEF ChartIsFed
  <2>1. \A t \in feeds : own[t.in] = t.by
    BY DEF ChartInv, Owns, Task
  <2>2. \A t \in feeds : Shows(t.by) = panel /\ panel.src = source
    BY DEF ChartInv, FeedOk
  <2>3. \A l \in Loads : loads[l].at = "fetch" => feeds = {}
    BY FetchedAlone
  <2> QED
    BY <2>1, <2>2, <2>3 DEF ChartInv
<1>2. CASE Concurrent = 1
  BY <1>1, <1>2, ChartStarts, ChartSteps, PTL DEF ChartSpec
<1>3. CASE Concurrent # 1
  <2>1. ChartIsFed
    BY <1>3 DEF ChartIsFed
  <2> QED
    BY <2>1, PTL
<1> QED
  BY <1>2, <1>3

-----------------------------------------------------------------------------
(* The desk. What it folds along sequences: the handlers in their order, and *)
(* the buffer from its newest signal on.                                     *)

Wants(h, last, sig, now, auto) ==
  /\ h.enabled /\ sig.kind \in h.kinds /\ (NeedsAutotrade(h) => auto)
  /\ h.cooldown = 0 \/ last[h.name][sig.sym] = Never \/ now - last[h.name][sig.sym] >= h.cooldown
Reacted(of, acc, k) ==
  IF Wants(Handlers[k], acc.last, of.sig, of.now, of.auto)
  THEN [last |-> [acc.last EXCEPT ![Handlers[k].name][of.sig.sym] = of.now], fire |-> acc.fire \cup {k}]
  ELSE acc
Found(of, found, g) ==
  IF Len(found) < of.limit /\ Meets(g, of.sym, of.kind) THEN Append(found, g) ELSE found
Desk(of, acc, x) == IF of.does = "react" THEN Reacted(of, acc, x) ELSE Found(of, acc, x)
F == INSTANCE FoldLemmas WITH Op <- Desk

Querying(sym, sort, limit) == [does |-> "query", sym |-> sym, kind |-> sort, limit |-> limit]
Reacting(sig, now, auto) == [does |-> "react", sig |-> sig, now |-> now, auto |-> auto]

LEMMA QueryFolds ==
  ASSUME NEW S, buffer \in Seq(S), NEW sym, NEW sort, NEW limit
  PROVE  \E h : /\ F!Chain(Querying(sym, sort, limit), << >>, Reverse(buffer), Len(buffer), h)
                /\ Query(sym, sort, limit) = h[Len(buffer)]
<1> DEFINE s == Reverse(buffer)
           n == Len(buffer)
           of == Querying(sym, sort, limit)
           Is(it) == it = [u \in SUBSET (1 .. n) |-> IF u = {} THEN << >>
                             ELSE IF Len(it[u \ {Max(u)}]) < limit /\ Meets(s[Max(u)], sym, sort) THEN
                                     Append(it[u \ {Max(u)}], s[Max(u)])
                                  ELSE it[u \ {Max(u)}]]
<1>1. n \in Nat /\ DOMAIN s = 1 .. n
  BY DEF Reverse
<1>2. \A it : Is(it) <=> F!Folds(of, << >>, s, n, it)
  BY DEF F!Folds, Desk, Found, F!Max, Max, Querying
<1>3. \E it : Is(it)
  <2> HIDE DEF n, Is
  <2> QED
    BY <1>1, <1>2, F!FoldExists
<1> DEFINE it == CHOOSE f : Is(f)
<1>4. Is(it)
  <2> HIDE DEF Is
  <2> QED
    BY <1>3
<1>5. Query(sym, sort, limit) = it[1 .. n]
  BY <1>1 DEF Query, FoldLeft, MapThenFoldSet
<1> HIDE DEF it, Is, n
<1> QED
  BY <1>1, <1>2, <1>4, <1>5, F!FoldChain DEF n

LEMMA RunFolds ==
  ASSUME NEW sig, NEW S, Handlers \in Seq(S)
  PROVE  \E h : /\ F!Chain(Reacting(sig, clock, autotrade), [last |-> lastFired, fire |-> {}],
                           [i \in DOMAIN Handlers |-> i], Len(Handlers), h)
                /\ RunHandlers(sig) = h[Len(Handlers)]
<1> DEFINE s == [i \in DOMAIN Handlers |-> i]
           n == Len(Handlers)
           base == [last |-> lastFired, fire |-> {}]
           of == Reacting(sig, clock, autotrade)
           Is(it) == it = [u \in SUBSET (1 .. n) |-> IF u = {} THEN base
                             ELSE Reacts(it[u \ {Max(u)}], s[Max(u)], sig)]
<1>1. n \in Nat /\ DOMAIN s = 1 .. n
  OBVIOUS
<1>2. \A acc, k : Reacts(acc, k, sig) = Desk(of, acc, k)
  <2> TAKE acc, k
  <2>1. Wants(Handlers[k], acc.last, sig, clock, autotrade) <=>
          /\ Handlers[k].enabled /\ sig.kind \in Handlers[k].kinds /\ CanFire(Handlers[k], sig.sym, acc.last)
          /\ NeedsAutotrade(Handlers[k]) => autotrade
    BY DEF Wants, CanFire
  <2>2. of.does = "react" /\ of.sig = sig /\ of.now = clock /\ of.auto = autotrade
    BY DEF Reacting
  <2> HIDE DEF of
  <2> QED
    BY <2>1, <2>2 DEF Reacts, Desk, Reacted
<1>3. \A it : Is(it) <=> F!Folds(of, base, s, n, it)
  <2> TAKE it
  <2>1. \A u : Max(u) = F!Max(u)
    BY DEF F!Max, Max
  <2>2. \A u : (IF u = {} THEN base ELSE Reacts(it[u \ {Max(u)}], s[Max(u)], sig))
               = (IF u = {} THEN base ELSE Desk(of, it[u \ {F!Max(u)}], s[F!Max(u)]))
    <3> HIDE DEF of, base, n, s
    <3> QED
      BY <1>2, <2>1
  <2> HIDE DEF of, base, n, s
  <2>3. [u \in SUBSET (1 .. n) |-> IF u = {} THEN base ELSE Reacts(it[u \ {Max(u)}], s[Max(u)], sig)]
        = [u \in SUBSET (1 .. n) |-> IF u = {} THEN base ELSE Desk(of, it[u \ {F!Max(u)}], s[F!Max(u)])]
    BY <2>2, Zenon
  <2> QED
    BY <2>3 DEF F!Folds
<1>4. \E it : Is(it)
  <2> HIDE DEF n, Is, of, base, s
  <2> QED
    BY <1>1, <1>3, F!FoldExists
<1> DEFINE it == CHOOSE f : Is(f)
<1>5. Is(it)
  <2> HIDE DEF Is
  <2> QED
    BY <1>4
<1>6. RunHandlers(sig) = it[1 .. n]
  BY <1>1 DEF RunHandlers, FoldLeftDomain, FoldLeft, MapThenFoldSet
<1> HIDE DEF it, Is, n, of, base, s
<1>7. F!Folds(of, base, s, n, it)
  BY <1>3, <1>5
<1>8. \E h : F!Chain(of, base, s, n, h) /\ h[n] = it[1 .. n]
  BY <1>1, <1>7, F!FoldChain
<1> QED
  BY <1>6, <1>8 DEF n, of, base, s

-----------------------------------------------------------------------------
(* The firings f among signals s that were heard, and what the cooldowns know of them. *)

HandlerNames == {Handlers[k].name : k \in DOMAIN Handlers}
Heard == [sig : Signals, time : Nat, auto : BOOLEAN]
Stamps == [HandlerNames -> [Symbols -> Int]]
Firings == [nr : Nat, handler : DOMAIN Handlers]
Before(f, nr, k) == f.nr < nr \/ (f.nr = nr /\ f.handler < k)
Alike(s, f, name, sym) == Handlers[f.handler].name = name /\ s[f.nr].sig.sym = sym
Due(s, fs, nr, k) ==
  /\ Handlers[k].enabled /\ s[nr].sig.kind \in Handlers[k].kinds /\ (NeedsAutotrade(Handlers[k]) => s[nr].auto)
  /\ Handlers[k].cooldown > 0 =>
       ~ \E f \in fs : /\ Before(f, nr, k) /\ Alike(s, f, Handlers[k].name, s[nr].sig.sym)
                       /\ s[nr].time - s[f.nr].time < Handlers[k].cooldown
StampIs(t, s, fs, name, sym) ==
  \/ t = Never /\ \A f \in fs : ~Alike(s, f, name, sym)
  \/ /\ \E f \in fs : Alike(s, f, name, sym) /\ t = s[f.nr].time
     /\ \A f \in fs : Alike(s, f, name, sym) => s[f.nr].time <= t
StampsAre(last, s, fs) == \A name \in HandlerNames, sym \in Symbols : StampIs(last[name][sym], s, fs, name, sym)
FiringsOf(s, fs) == fs \subseteq Firings /\ \A f \in fs : f.nr \in DOMAIN s

LEMMA HandlerType ==
  ASSUME NEW k \in DOMAIN Handlers
  PROVE  /\ Handlers[k].cooldown \in Nat /\ Handlers[k].name \in HandlerNames
         /\ k \in Nat /\ k \in 1 .. Len(Handlers) /\ Len(Handlers) \in Nat
<1>1. Handlers \in Seq(Handler)
  BY DeskAssumption
<1>2. Handlers[k] \in Handler /\ k \in 1 .. Len(Handlers) /\ Len(Handlers) \in Nat
  BY <1>1
<1>3. Handlers[k].cooldown \in Nat
  BY <1>2 DEF Handler
<1> QED
  BY <1>2, <1>3 DEF HandlerNames

LEMMA HeardType ==
  ASSUME NEW g \in Heard
  PROVE  g.time \in Nat /\ g.sig \in Signals /\ g.sig.sym \in Symbols
<1>1. g.time \in Nat /\ g.sig \in Signals
  BY DEF Heard
<1> QED
  BY <1>1 DEF Signals

\* The stamp decides as all the firings before would.
LEMMA WantsIsDue ==
  ASSUME NEW s \in Seq(Heard), NEW fs, FiringsOf(s, fs), NEW last, StampsAre(last, s, fs),
         NEW k \in DOMAIN Handlers, NEW nr, nr = Len(s), nr > 0,
         \A f \in fs : f.nr < nr \/ f.handler < k
  PROVE  Wants(Handlers[k], last, s[nr].sig, s[nr].time, s[nr].auto) <=> Due(s, fs, nr, k)
<1> DEFINE h == Handlers[k]
           g == s[nr]
           t == last[h.name][g.sig.sym]
<1>1. g \in Heard /\ g.time \in Nat /\ g.sig \in Signals /\ g.sig.sym \in Symbols
  <2>1. g \in Heard
    OBVIOUS
  <2> QED
    BY <2>1, HeardType
<1>2. h.cooldown \in Nat /\ h.name \in HandlerNames
  BY HandlerType
<1>3. StampIs(t, s, fs, h.name, g.sig.sym)
  BY <1>1, <1>2 DEF StampsAre
<1>4. \A f \in fs : /\ f.nr \in DOMAIN s /\ s[f.nr].time \in Nat /\ f.nr \in Nat /\ f.nr <= nr
                    /\ Before(f, nr, k)
  <2> TAKE f \in fs
  <2>1. f.nr \in DOMAIN s /\ f \in Firings
    BY DEF FiringsOf
  <2>2. s[f.nr] \in Heard /\ f.nr \in Nat /\ f.nr <= nr
    BY <2>1 DEF Firings
  <2>3. s[f.nr].time \in Nat
    BY <2>2 DEF Heard
  <2>4. Before(f, nr, k)
    BY <2>2 DEF Before
  <2> QED
    BY <2>1, <2>2, <2>3, <2>4
<1> HIDE DEF h, g, t
<1>5. ASSUME h.cooldown > 0
      PROVE  (t = Never \/ g.time - t >= h.cooldown) <=>
               ~ \E f \in fs : /\ Before(f, nr, k) /\ Alike(s, f, h.name, g.sig.sym)
                               /\ g.time - s[f.nr].time < h.cooldown
  <2>1. CASE t = Never /\ \A f \in fs : ~Alike(s, f, h.name, g.sig.sym)
    BY <2>1
  <2>2. CASE /\ \E f \in fs : Alike(s, f, h.name, g.sig.sym) /\ t = s[f.nr].time
             /\ \A f \in fs : Alike(s, f, h.name, g.sig.sym) => s[f.nr].time <= t
    <3>1. PICK f \in fs : Alike(s, f, h.name, g.sig.sym) /\ t = s[f.nr].time
      BY <2>2
    <3>2. t \in Nat /\ t # Never
      BY <1>4, <3>1 DEF Never
    <3>3. \A e \in fs : Alike(s, e, h.name, g.sig.sym) => s[e.nr].time <= t /\ s[e.nr].time \in Nat
      BY <1>4, <2>2
    <3>4. ASSUME g.time - t >= h.cooldown, NEW e \in fs, Alike(s, e, h.name, g.sig.sym)
          PROVE  ~(g.time - s[e.nr].time < h.cooldown)
      BY <1>1, <1>2, <3>2, <3>3, <3>4
    <3>5. ASSUME ~(g.time - t >= h.cooldown) PROVE g.time - s[f.nr].time < h.cooldown
      BY <1>1, <1>2, <3>1, <3>2, <3>5
    <3> QED
      BY <1>4, <3>1, <3>2, <3>4, <3>5
  <2> QED
    BY <1>3, <2>1, <2>2 DEF StampIs
<1> QED
  BY <1>2, <1>5 DEF Wants, Due, h, g, t

\* A firing of k for the signal nr, heard now, is stamped.
LEMMA StampsKept ==
  ASSUME NEW s \in Seq(Heard), NEW fs, FiringsOf(s, fs), NEW last \in Stamps, StampsAre(last, s, fs),
         NEW k \in DOMAIN Handlers, NEW nr, nr = Len(s), nr > 0,
         \A i \in DOMAIN s : s[i].time <= s[nr].time
  PROVE  LET new == [last EXCEPT ![Handlers[k].name][s[nr].sig.sym] = s[nr].time] IN
         new \in Stamps /\ StampsAre(new, s, fs \cup {[nr |-> nr, handler |-> k]})
<1> DEFINE name == Handlers[k].name
           sym == s[nr].sig.sym
           now == s[nr].time
           f == [nr |-> nr, handler |-> k]
           new == [last EXCEPT ![name][sym] = now]
<1>1. s[nr] \in Heard /\ now \in Nat /\ sym \in Symbols /\ name \in HandlerNames /\ nr \in DOMAIN s
  <2>1. s[nr] \in Heard /\ nr \in DOMAIN s
    OBVIOUS
  <2> QED
    BY <2>1, HandlerType, HeardType
<1>2. Alike(s, f, name, sym) /\ f.nr = nr /\ f.handler = k
  BY DEF Alike
<1>3. \A n, y : Alike(s, f, n, y) => n = name /\ y = sym
  BY <1>2 DEF Alike
<1>4. new \in Stamps
  BY <1>1 DEF Stamps
<1>5. \A n \in HandlerNames, y \in Symbols :
        new[n][y] = IF n = name /\ y = sym THEN now ELSE last[n][y]
  BY <1>1 DEF Stamps
<1>6. \A e \in fs : s[e.nr].time <= now
  BY DEF FiringsOf
<1> HIDE DEF name, sym, now, f, new
<1>7. ASSUME NEW n \in HandlerNames, NEW y \in Symbols PROVE StampIs(new[n][y], s, fs \cup {f}, n, y)
  <2>1. CASE n = name /\ y = sym
    <3>1. new[n][y] = now
      BY <1>5, <2>1
    <3>2. now = s[f.nr].time /\ Alike(s, f, n, y)
      BY <1>2, <2>1 DEF now
    <3>3. \A e \in fs \cup {f} : s[e.nr].time <= now
      BY <1>1, <1>6, <3>2
    <3> QED
      BY <3>1, <3>2, <3>3 DEF StampIs
  <2>2. CASE ~(n = name /\ y = sym)
    <3>1. new[n][y] = last[n][y] /\ ~Alike(s, f, n, y)
      BY <1>3, <1>5, <2>2
    <3>2. StampIs(last[n][y], s, fs, n, y)
      BY DEF StampsAre
    <3> QED
      BY <3>1, <3>2 DEF StampIs
  <2> QED
    BY <2>1, <2>2
<1> QED
  BY <1>4, <1>7 DEF StampsAre, name, sym, now, f, new

\* More firings that are not before it leave what is due as it is.
LEMMA DueStays ==
  ASSUME NEW s, NEW fs, NEW new, fs \subseteq new, NEW nr, NEW k, \A f \in new \ fs : ~Before(f, nr, k)
  PROVE  Due(s, fs, nr, k) <=> Due(s, new, nr, k)
  BY DEF Due

\* The handlers 1 to k have reacted to the signal nr.
Added(fs, nr, u) == fs \cup [nr : {nr}, handler : u]
ReactedTo(s, fs, nr, k, acc) ==
  /\ acc.fire \subseteq 1 .. k /\ acc.last \in Stamps
  /\ FiringsOf(s, Added(fs, nr, acc.fire)) /\ StampsAre(acc.last, s, Added(fs, nr, acc.fire))
  /\ \A j \in 1 .. k : j \in acc.fire <=> Due(s, Added(fs, nr, acc.fire), nr, j)

LEMMA OneReacts ==
  ASSUME NEW s \in Seq(Heard), NEW fs, NEW nr, nr = Len(s), nr > 0, \A f \in fs : f.nr < nr,
         \A i \in DOMAIN s : s[i].time <= s[nr].time,
         NEW acc, NEW k \in DOMAIN Handlers, ReactedTo(s, fs, nr, k - 1, acc)
  PROVE  ReactedTo(s, fs, nr, k, Desk(Reacting(s[nr].sig, s[nr].time, s[nr].auto), acc, k))
<1> DEFINE of == Reacting(s[nr].sig, s[nr].time, s[nr].auto)
           b == Desk(of, acc, k)
           f == [nr |-> nr, handler |-> k]
           old == Added(fs, nr, acc.fire)
           wants == Wants(Handlers[k], acc.last, s[nr].sig, s[nr].time, s[nr].auto)
<1>1. /\ k \in Nat /\ k \in 1 .. Len(Handlers) /\ k \notin 1 .. k - 1 /\ Len(Handlers) \in Nat
      /\ 1 .. k = (1 .. k - 1) \cup {k} /\ DOMAIN Handlers = 1 .. Len(Handlers)
  <2>1. Handlers \in Seq(Handler)
    BY DeskAssumption
  <2>2. DOMAIN Handlers = 1 .. Len(Handlers) /\ Len(Handlers) \in Nat
    BY <2>1
  <2> QED
    BY <2>2
<1>2. b = IF wants THEN [last |-> [acc.last EXCEPT ![Handlers[k].name][s[nr].sig.sym] = s[nr].time],
                         fire |-> acc.fire \cup {k}] ELSE acc
  BY DEF Desk, Reacted, Reacting
<1>3. /\ FiringsOf(s, old) /\ StampsAre(acc.last, s, old) /\ acc.last \in Stamps /\ acc.fire \subseteq 1 .. k - 1
      /\ \A j \in 1 .. k - 1 : j \in acc.fire <=> Due(s, old, nr, j)
  BY DEF ReactedTo
<1>4. \A e \in old : e.nr < nr \/ e.handler < k
  <2>1. ASSUME NEW e \in [nr : {nr}, handler : acc.fire] PROVE e.handler < k
    <3>1. e.handler \in 1 .. k - 1
      BY <1>3
    <3> QED
      BY <1>1, <3>1
  <2> QED
    BY <2>1 DEF Added
<1>5. wants <=> Due(s, old, nr, k)
  <2> HIDE DEF old
  <2> QED
    BY <1>3, <1>4, WantsIsDue
<1>6. CASE ~wants
  <2>1. b = acc /\ k \notin acc.fire /\ ~Due(s, old, nr, k)
    BY <1>1, <1>2, <1>3, <1>5, <1>6
  <2>2. acc.fire \subseteq 1 .. k /\ \A j \in 1 .. k : j \in acc.fire <=> Due(s, old, nr, j)
    BY <1>1, <1>3, <2>1
  <2> HIDE DEF b
  <2> QED
    BY <1>3, <2>1, <2>2 DEF ReactedTo, b
<1>7. CASE wants
  <2> DEFINE last == [acc.last EXCEPT ![Handlers[k].name][s[nr].sig.sym] = s[nr].time]
             fire == acc.fire \cup {k}
             new == Added(fs, nr, fire)
  <2>1. b.last = last /\ b.fire = fire
    BY <1>2, <1>7
  <2>2. new = old \cup {f}
    BY DEF Added
  <2>3. last \in Stamps /\ StampsAre(last, s, old \cup {f})
    <3> HIDE DEF old
    <3> QED
      BY <1>3, StampsKept
  <2>4. FiringsOf(s, new)
    <3>1. f \in Firings /\ f.nr \in DOMAIN s
      BY <1>1 DEF Firings
    <3> HIDE DEF f, old, new
    <3> QED
      BY <1>3, <2>2, <3>1 DEF FiringsOf
  <2>5. ASSUME NEW j \in 1 .. k PROVE Due(s, new, nr, j) <=> Due(s, old, nr, j)
    <3>1. ~Before(f, nr, j)
      BY <1>1 DEF Before
    <3> HIDE DEF f, old, new
    <3>2. old \subseteq new /\ \A e \in new \ old : ~Before(e, nr, j)
      BY <2>2, <3>1
    <3> QED
      BY <3>2, DueStays
  <2>6. \A j \in 1 .. k : j \in fire <=> Due(s, new, nr, j)
    <3> HIDE DEF old, new
    <3> QED
      BY <1>1, <1>3, <1>5, <1>7, <2>5
  <2>7. fire \subseteq 1 .. k
    BY <1>1, <1>3
  <2>8. last \in Stamps /\ StampsAre(last, s, new)
    <3> HIDE DEF old, new, last, f
    <3> QED
      BY <2>2, <2>3
  <2> HIDE DEF b, last, fire
  <2> QED
    BY <2>1, <2>4, <2>6, <2>7, <2>8 DEF ReactedTo, b
<1> QED
  BY <1>6, <1>7

LEMMA AllReact ==
  ASSUME NEW s \in Seq(Heard), NEW fs, NEW nr, nr = Len(s), nr > 0, \A f \in fs : f.nr < nr,
         \A i \in DOMAIN s : s[i].time <= s[nr].time,
         FiringsOf(s, fs), NEW last \in Stamps, StampsAre(last, s, fs),
         NEW h, F!Chain(Reacting(s[nr].sig, s[nr].time, s[nr].auto), [last |-> last, fire |-> {}],
                        [i \in DOMAIN Handlers |-> i], Len(Handlers), h)
  PROVE  ReactedTo(s, fs, nr, Len(Handlers), h[Len(Handlers)])
<1> DEFINE of == Reacting(s[nr].sig, s[nr].time, s[nr].auto)
           n == Len(Handlers)
           S == {k \in Nat : k <= n => ReactedTo(s, fs, nr, k, h[k])}
<1>1. n \in Nat /\ DOMAIN Handlers = 1 .. n
  <2>1. Handlers \in Seq(Handler)
    BY DeskAssumption
  <2> QED
    BY <2>1
<1>2. h[0] = [last |-> last, fire |-> {}] /\ \A k \in 1 .. n : h[k] = Desk(of, h[k - 1], k)
  <2> DEFINE t == [i \in DOMAIN Handlers |-> i]
  <2>1. \A k \in 1 .. n : t[k] = k
    BY <1>1
  <2>2. F!Chain(of, [last |-> last, fire |-> {}], t, n, h)
    OBVIOUS
  <2> HIDE DEF of, n, t
  <2> QED
    BY <2>1, <2>2 DEF F!Chain
<1>3. ReactedTo(s, fs, nr, 0, h[0])
  <2>1. h[0].last = last /\ h[0].fire = {} /\ Added(fs, nr, {}) = fs /\ \A j \in 1 .. 0 : FALSE
    BY <1>2 DEF Added
  <2> QED
    BY <2>1 DEF ReactedTo
<1> HIDE DEF n, of
<1>4. ASSUME NEW k \in Nat, k \in S PROVE k + 1 \in S
  <2>1. CASE k + 1 <= n
    <3> DEFINE m == k + 1
    <3>1. m \in 1 .. n /\ m - 1 = k /\ k <= n /\ m \in Nat
      BY <1>1, <2>1
    <3> HIDE DEF m
    <3>2. ReactedTo(s, fs, nr, m - 1, h[m - 1]) /\ h[m] = Desk(of, h[m - 1], m) /\ m \in DOMAIN Handlers
      BY <1>1, <1>2, <1>4, <3>1
    <3>3. ReactedTo(s, fs, nr, m, h[m])
      BY <3>2, OneReacts DEF of
    <3>4. m \in S
      BY <3>1, <3>3
    <3> QED
      BY <3>4 DEF m
  <2> QED
    BY <1>1, <2>1
<1>5. 0 \in S
  BY <1>3
<1>6. n \in S
  <2> HIDE DEF S
  <2> QED
    BY <1>1, <1>4, <1>5, F!Induction
<1> QED
  BY <1>1, <1>6 DEF n

-----------------------------------------------------------------------------
(* The buffer has the newest signals, and a query finds the newest among them. *)

Recent(s, b) ==
  /\ b \in Seq(Signals) /\ Len(b) = IF Len(s) < Depth THEN Len(s) ELSE Depth
  /\ \A i \in 1 .. Len(b) : b[i] = s[Len(s) - Len(b) + i].sig
Hits(s, k, sym, sort) == {nr \in DOMAIN s : nr > Len(s) - k /\ Meets(s[nr].sig, sym, sort)}
IsAnswer(s, at, limit, a) ==
  /\ Len(a) = IF Cardinality(at) < limit THEN Cardinality(at) ELSE limit
  /\ \A i \in DOMAIN a : \E nr \in at : a[i] = s[nr].sig /\ Cardinality({n \in at : n >= nr}) = i

LEMMA StaysRecent ==
  ASSUME NEW s \in Seq(Heard), NEW b, Recent(s, b), NEW g \in Heard
  PROVE  Recent(Append(s, g), Newest(Append(b, g.sig)))
<1> DEFINE c == Append(b, g.sig)
           z == Append(s, g)
<1>1. /\ Depth \in Nat \ {0} /\ b \in Seq(Signals) /\ g.sig \in Signals /\ Len(b) \in Nat /\ Len(s) \in Nat
      /\ Len(b) = IF Len(s) < Depth THEN Len(s) ELSE Depth
      /\ \A i \in 1 .. Len(b) : b[i] = s[Len(s) - Len(b) + i].sig
  <2>1. /\ b \in Seq(Signals) /\ Len(b) = IF Len(s) < Depth THEN Len(s) ELSE Depth
        /\ \A i \in 1 .. Len(b) : b[i] = s[Len(s) - Len(b) + i].sig
    BY DEF Recent
  <2>2. Depth \in Nat \ {0} /\ g.sig \in Signals /\ Len(s) \in Nat
    BY HeardType, DeskAssumption
  <2>3. Len(b) \in Nat
    BY <2>1
  <2> QED
    BY <2>1, <2>2, <2>3
<1>2. /\ c \in Seq(Signals) /\ Len(c) = Len(b) + 1 /\ c[Len(b) + 1] = g.sig /\ \A i \in 1 .. Len(b) : c[i] = b[i]
  BY <1>1
<1>3. Len(z) = Len(s) + 1 /\ z[Len(s) + 1] = g /\ \A i \in 1 .. Len(s) : z[i] = s[i]
  OBVIOUS
<1> HIDE DEF c, z
<1>4. \A i \in 1 .. Len(c) : c[i] = z[Len(z) - Len(c) + i].sig
  <2> TAKE i \in 1 .. Len(c)
  <2>0. /\ Len(b) \in Nat /\ Len(s) \in Nat /\ Len(c) = Len(b) + 1 /\ Len(z) = Len(s) + 1
        /\ Len(b) <= Len(s) /\ i \in Int /\ 1 <= i /\ i <= Len(b) + 1
    <3>1. /\ Len(b) \in Nat /\ Len(s) \in Nat /\ Len(c) = Len(b) + 1 /\ Len(z) = Len(s) + 1 /\ Depth \in Nat
          /\ Len(b) = IF Len(s) < Depth THEN Len(s) ELSE Depth
      BY <1>1, <1>2, <1>3
    <3> QED
      BY <3>1
  <2>1. Len(z) - Len(c) + i = Len(s) - Len(b) + i
    BY <2>0
  <2>2. CASE i = Len(b) + 1
    <3>1. Len(z) - Len(c) + i = Len(s) + 1
      BY <2>0, <2>2
    <3>2. c[i] = g.sig /\ z[Len(s) + 1] = g
      BY <1>2, <1>3, <2>2
    <3> QED
      BY <3>1, <3>2
  <2>3. CASE i \in 1 .. Len(b)
    <3>1. Len(s) - Len(b) + i \in 1 .. Len(s)
      BY <2>0, <2>3
    <3> QED
      BY <1>1, <1>2, <1>3, <2>1, <2>3, <3>1
  <2>4. i = Len(b) + 1 \/ i \in 1 .. Len(b)
    BY <2>0
  <2> QED
    BY <2>2, <2>3, <2>4
<1>5. CASE Len(c) <= Depth
  <2>1. Newest(c) = c
    BY <1>5 DEF Newest
  <2>2. Len(c) = IF Len(z) < Depth THEN Len(z) ELSE Depth
    BY <1>1, <1>2, <1>3, <1>5
  <2> QED
    BY <1>2, <1>4, <2>1, <2>2 DEF Recent, c, z
<1>6. CASE ~(Len(c) <= Depth)
  <2> DEFINE d == SubSeq(c, 2, Len(c))
  <2>1. Len(c) = Depth + 1 /\ Len(b) = Depth /\ Len(s) \in Nat /\ ~(Len(s) < Depth) /\ Len(c) \in Nat
    BY <1>1, <1>2, <1>6
  <2>2. Newest(c) = d
    <3>1. Len(c) - Depth + 1 = 2
      BY <1>1, <2>1
    <3> QED
      BY <1>6, <3>1 DEF Newest
  <2>3. /\ d \in Seq(Signals) /\ Len(d) = Depth
        /\ \A i \in 1 .. Depth : d[i] = c[i + 1]
    <3>1. \A i \in 2 .. Len(c) : c[i] \in Signals
      BY <1>2, <2>1
    <3>2. /\ d \in Seq(Signals) /\ Len(d) = IF 2 <= Len(c) THEN Len(c) - 2 + 1 ELSE 0
          /\ \A i \in 1 .. Len(c) - 2 + 1 : d[i] = c[2 + i - 1]
      BY <2>1, <3>1, SubSeqProperties
    <3>3. Len(c) - 2 + 1 = Depth /\ 2 <= Len(c) /\ \A i \in 1 .. Depth : 2 + i - 1 = i + 1
      BY <1>1, <2>1
    <3> HIDE DEF d
    <3> QED
      BY <3>2, <3>3
  <2> HIDE DEF d
  <2>4. \A i \in 1 .. Depth : d[i] = z[Len(z) - Depth + i].sig
    <3> TAKE i \in 1 .. Depth
    <3>1. i + 1 \in 1 .. Len(c) /\ Len(z) - Len(c) + (i + 1) = Len(z) - Depth + i
      BY <1>1, <1>3, <2>1
    <3>2. c[i + 1] = z[Len(z) - Len(c) + (i + 1)].sig
      BY <1>4, <3>1
    <3> QED
      BY <2>3, <3>1, <3>2
  <2>5. Len(d) = IF Len(z) < Depth THEN Len(z) ELSE Depth
    BY <1>1, <1>3, <2>1, <2>3
  <2> QED
    BY <2>2, <2>3, <2>4, <2>5 DEF Recent, c, z
<1> QED
  BY <1>5, <1>6

\* One match more, older than those before it.
LEMMA OneMore ==
  ASSUME NEW s, NEW n \in Nat, NEW at \in SUBSET (1 .. n), NEW x \in Nat, \A y \in at : x < y,
         NEW limit \in Nat \ {0}, NEW S, NEW a \in Seq(S), s[x].sig \in S, IsAnswer(s, at, limit, a)
  PROVE  IsAnswer(s, at \cup {x}, limit, IF Len(a) < limit THEN Append(a, s[x].sig) ELSE a)
<1> DEFINE more == at \cup {x}
           z == Append(a, s[x].sig)
<1>1. IsFiniteSet(at) /\ Cardinality(at) \in Nat /\ x \notin at
  <2>1. IsFiniteSet(1 .. n)
    BY FS_Interval
  <2>2. IsFiniteSet(at)
    BY <2>1, FS_Subset
  <2> QED
    BY <2>2, FS_CardinalityType
<1>2. Cardinality(more) = Cardinality(at) + 1
  BY <1>1, FS_AddElement
<1>3. Len(a) \in Nat /\ DOMAIN a = 1 .. Len(a) /\ Len(a) = IF Cardinality(at) < limit THEN Cardinality(at) ELSE limit
  BY DEF IsAnswer
<1>4. \A nr \in at : {y \in more : y >= nr} = {y \in at : y >= nr}
  OBVIOUS
<1>5. \A i \in DOMAIN a : \E nr \in more : a[i] = s[nr].sig /\ Cardinality({y \in more : y >= nr}) = i
  <2> HIDE DEF more
  <2>1. at \subseteq more
    BY DEF more
  <2> QED
    BY <1>4, <2>1 DEF IsAnswer
<1>6. {y \in more : y >= x} = more
  <2>1. \A y \in at : y \in Nat /\ x < y
    OBVIOUS
  <2>2. \A y \in more : y >= x
    BY <2>1
  <2> HIDE DEF more
  <2> QED
    BY <2>2
<1> HIDE DEF more
<1>7. CASE Len(a) < limit
  <2>1. Len(a) = Cardinality(at)
    BY <1>1, <1>3, <1>7
  <2>2. Len(z) = Len(a) + 1 /\ DOMAIN z = 1 .. Len(a) + 1 /\ z[Len(a) + 1] = s[x].sig /\ \A i \in 1 .. Len(a) : z[i] = a[i]
    OBVIOUS
  <2> HIDE DEF z
  <2>3. Len(z) = IF Cardinality(more) < limit THEN Cardinality(more) ELSE limit
    BY <1>1, <1>2, <1>7, <2>1, <2>2
  <2>4. ASSUME NEW i \in DOMAIN z PROVE \E nr \in more : z[i] = s[nr].sig /\ Cardinality({y \in more : y >= nr}) = i
    <3>1. CASE i \in 1 .. Len(a)
      BY <1>3, <1>5, <2>2, <3>1
    <3>2. CASE i = Len(a) + 1
      <4>1. x \in more /\ Cardinality(more) = i
        BY <1>2, <2>1, <3>2 DEF more
      <4> QED
        BY <1>6, <2>2, <3>2, <4>1
    <3>3. i \in 1 .. Len(a) \/ i = Len(a) + 1
      BY <1>3, <2>2
    <3> QED
      BY <3>1, <3>2, <3>3
  <2> QED
    BY <1>7, <2>3, <2>4 DEF IsAnswer, more, z
<1>8. CASE ~(Len(a) < limit)
  <2>1. Len(a) = IF Cardinality(more) < limit THEN Cardinality(more) ELSE limit
    BY <1>1, <1>2, <1>3, <1>8
  <2> QED
    BY <1>5, <1>8, <2>1 DEF IsAnswer, more
<1> QED
  BY <1>7, <1>8

LEMMA QueryAnswers ==
  ASSUME NEW s \in Seq(Heard), Recent(s, buffer), NEW sym, NEW sort, NEW limit \in Nat \ {0}
  PROVE  IsAnswer(s, Hits(s, Depth, sym, sort), limit, Query(sym, sort, limit))
<1> DEFINE b == Len(buffer)
           n == Len(s)
           r == Reverse(buffer)
           of == Querying(sym, sort, limit)
<1>1. buffer \in Seq(Signals) /\ b \in Nat /\ n \in Nat /\ b <= n /\ Depth \in Nat \ {0} /\ DOMAIN s = 1 .. n
  BY DeskAssumption DEF Recent
<1>2. PICK h : F!Chain(of, << >>, r, b, h) /\ Query(sym, sort, limit) = h[b]
  BY <1>1, QueryFolds
<1>3. ASSUME NEW k \in 1 .. b PROVE r[k] = s[n - k + 1].sig /\ r[k] \in Signals /\ n - k + 1 \in 1 .. n
  <2>1. b - k + 1 \in 1 .. b /\ n - b + (b - k + 1) = n - k + 1 /\ n - k + 1 \in 1 .. n
    BY <1>1
  <2>2. r[k] = buffer[b - k + 1]
    BY <1>1 DEF Reverse
  <2>3. \A i \in 1 .. b : buffer[i] = s[n - b + i].sig
    BY DEF Recent
  <2> DEFINE j == b - k + 1
  <2>4. j \in 1 .. b
    BY <2>1
  <2> HIDE DEF j
  <2>5. buffer[j] = s[n - b + j].sig
    BY <2>3, <2>4
  <2>6. buffer[j] \in Signals
    BY <1>1, <2>4
  <2> QED
    BY <2>1, <2>2, <2>5, <2>6 DEF j
<1>4. h[0] = << >> /\ \A k \in 1 .. b : h[k] = IF Len(h[k - 1]) < limit /\ Meets(r[k], sym, sort)
                                               THEN Append(h[k - 1], r[k]) ELSE h[k - 1]
  <2>1. of.does = "query" /\ of.sym = sym /\ of.kind = sort /\ of.limit = limit
    BY DEF Querying
  <2> HIDE DEF of, r, b
  <2> QED
    BY <1>2, <2>1 DEF F!Chain, Desk, Found
<1> HIDE DEF r, of
<1> DEFINE S == {k \in Nat : k <= b => h[k] \in Seq(Signals) /\ IsAnswer(s, Hits(s, k, sym, sort), limit, h[k])}
<1>5. 0 \in S
  <2>1. Hits(s, 0, sym, sort) = {}
    BY <1>1 DEF Hits
  <2>2. Cardinality({}) = 0 /\ Len(<< >>) = 0 /\ << >> \in Seq(Signals) /\ DOMAIN << >> = {}
    BY FS_EmptySet
  <2>3. IsAnswer(s, {}, limit, << >>)
    BY <2>2 DEF IsAnswer
  <2> QED
    BY <1>4, <2>1, <2>2, <2>3
<1> HIDE DEF b, n
<1>6. ASSUME NEW k \in Nat, k \in S PROVE k + 1 \in S
  <2> DEFINE m == k + 1
             x == n - m + 1
             at == Hits(s, k, sym, sort)
  <2>1. CASE m <= b
    <3>1. m \in 1 .. b /\ m - 1 = k /\ k <= b /\ x \in 1 .. n /\ x = n - k /\ x \in Nat
      BY <1>1, <2>1
    <3>2. h[k] \in Seq(Signals) /\ IsAnswer(s, at, limit, h[k])
      BY <1>6, <3>1
    <3> HIDE DEF m, x
    <3>3. r[m] = s[x].sig /\ s[x].sig \in Signals
      BY <1>3, <3>1 DEF x
    <3>4. h[m] = IF Len(h[k]) < limit /\ Meets(s[x].sig, sym, sort) THEN Append(h[k], s[x].sig) ELSE h[k]
      BY <1>4, <3>1, <3>3
    <3>5. n - m = x - 1
      BY <1>1, <3>1 DEF x
    <3>6. \A y \in 1 .. n : y > n - m <=> y = x \/ y > n - k
      BY <1>1, <3>1, <3>5
    <3>7. /\ at \in SUBSET (1 .. n) /\ \A y \in at : x < y
          /\ Hits(s, m, sym, sort) = IF Meets(s[x].sig, sym, sort) THEN at \cup {x} ELSE at
      <4>1. at = {y \in 1 .. n : y > n - k /\ Meets(s[y].sig, sym, sort)}
        BY <1>1 DEF Hits, n
      <4>2. Hits(s, m, sym, sort) = {y \in 1 .. n : y > n - m /\ Meets(s[y].sig, sym, sort)}
        BY <1>1 DEF Hits, n
      <4> HIDE DEF at
      <4> QED
        BY <1>1, <3>1, <3>6, <4>1, <4>2
    <3> HIDE DEF at
    <3>8. h[m] \in Seq(Signals)
      BY <3>2, <3>3, <3>4
    <3>9. IsAnswer(s, Hits(s, m, sym, sort), limit, h[m])
      <4>1. CASE Meets(s[x].sig, sym, sort)
        <5>1. h[m] = IF Len(h[k]) < limit THEN Append(h[k], s[x].sig) ELSE h[k]
          BY <3>4, <4>1
        <5>2. IsAnswer(s, at \cup {x}, limit, IF Len(h[k]) < limit THEN Append(h[k], s[x].sig) ELSE h[k])
          BY <1>1, <3>1, <3>2, <3>3, <3>7, OneMore
        <5> QED
          BY <3>7, <4>1, <5>1, <5>2
      <4>2. CASE ~Meets(s[x].sig, sym, sort)
        BY <3>2, <3>4, <3>7, <4>2
      <4> QED
        BY <4>1, <4>2
    <3>10. m \in S
      BY <3>1, <3>8, <3>9
    <3> QED
      BY <3>10 DEF m
  <2> QED
    BY <1>1, <2>1
<1>7. b \in S
  <2> HIDE DEF S
  <2> QED
    BY <1>1, <1>5, <1>6, F!Induction
<1>8. Hits(s, b, sym, sort) = Hits(s, Depth, sym, sort)
  <2>1. b = IF n < Depth THEN n ELSE Depth
    BY DEF Recent, b, n
  <2>2. \A y \in 1 .. n : y > n - b <=> y > n - Depth
    BY <1>1, <2>1
  <2> QED
    BY <1>1, <2>2 DEF Hits, n
<1> QED
  BY <1>1, <1>2, <1>7, <1>8

-----------------------------------------------------------------------------
(* Each firing was due and what was due has fired; the stamps are the times of the last       *)
(* firings; the buffer is the end of what was heard.                                          *)

AllFired(s, fs) ==
  \A nr \in DOMAIN s, k \in DOMAIN Handlers : [nr |-> nr, handler |-> k] \in fs <=> Due(s, fs, nr, k)
DeskTyped ==
  /\ wire \in Seq(Signals) /\ clock \in Nat /\ autotrade \in BOOLEAN /\ lastFired \in Stamps
  /\ dispatches \subseteq [handler : DOMAIN Handlers, sig : Signals, nr : Nat]
  /\ heard \in Seq(Heard) /\ \A i \in DOMAIN heard : heard[i].time <= clock
DeskInv ==
  /\ DeskTyped /\ FiringsOf(heard, fired) /\ AllFired(heard, fired)
  /\ StampsAre(lastFired, heard, fired) /\ Recent(heard, buffer)

\* What was said of the past stays true when one more signal is heard.
LEMMA PastStays ==
  ASSUME NEW s \in Seq(Heard), NEW g \in Heard, NEW fs, FiringsOf(s, fs), NEW last, StampsAre(last, s, fs)
  PROVE  FiringsOf(Append(s, g), fs) /\ StampsAre(last, Append(s, g), fs)
<1> DEFINE z == Append(s, g)
<1>1. \A i \in DOMAIN s : i \in DOMAIN z /\ z[i] = s[i]
  OBVIOUS
<1>2. \A f \in fs : f.nr \in DOMAIN s
  BY DEF FiringsOf
<1> HIDE DEF z
<1>3. \A f \in fs : f.nr \in DOMAIN z /\ z[f.nr] = s[f.nr]
  BY <1>1, <1>2
<1>4. FiringsOf(z, fs)
  BY <1>3 DEF FiringsOf
<1>5. \A f \in fs : \A n, y : Alike(z, f, n, y) <=> Alike(s, f, n, y)
  BY <1>3 DEF Alike
<1>6. ASSUME NEW t, NEW n, NEW y, StampIs(t, s, fs, n, y) PROVE StampIs(t, z, fs, n, y)
  BY <1>3, <1>5, <1>6 DEF StampIs
<1>7. StampsAre(last, z, fs)
  BY <1>6 DEF StampsAre
<1> QED
  BY <1>4, <1>7 DEF z

LEMMA FiringsAdded ==
  ASSUME NEW s \in Seq(Heard), NEW g \in Heard, NEW fs, FiringsOf(s, fs), AllFired(s, fs), NEW acc,
         ReactedTo(Append(s, g), fs, Len(s) + 1, Len(Handlers), acc)
  PROVE  AllFired(Append(s, g), Added(fs, Len(s) + 1, acc.fire))
<1> DEFINE z == Append(s, g)
           n == Len(s) + 1
           new == Added(fs, n, acc.fire)
<1>1. /\ Len(s) \in Nat /\ n \in Nat /\ DOMAIN s = 1 .. Len(s) /\ DOMAIN z = 1 .. n /\ z[n] = g
      /\ \A i \in DOMAIN s : z[i] = s[i]
  OBVIOUS
<1>2. DOMAIN Handlers = 1 .. Len(Handlers)
  <2>1. Handlers \in Seq(Handler)
    BY DeskAssumption
  <2> QED
    BY <2>1
<1>3. \A f \in fs : f.nr \in DOMAIN s /\ f.nr \in Nat
  BY DEF FiringsOf, Firings
<1>4. \A j \in DOMAIN Handlers : j \in acc.fire <=> Due(z, new, n, j)
  <2> HIDE DEF z, new, n
  <2>1. ReactedTo(z, fs, n, Len(Handlers), acc)
    BY DEF z, n
  <2> QED
    BY <1>2, <2>1 DEF ReactedTo, new
<1>5. fs \subseteq new /\ \A f \in new \ fs : f.nr = n
  BY DEF Added
<1>6. ASSUME NEW i \in DOMAIN z, NEW k \in DOMAIN Handlers
      PROVE  [nr |-> i, handler |-> k] \in new <=> Due(z, new, i, k)
  <2> DEFINE f == [nr |-> i, handler |-> k]
  <2>0. f.nr = i /\ f.handler = k
    OBVIOUS
  <2>1. CASE i = n
    <3>1. f \notin fs
      <4> HIDE DEF f
      <4> QED
        BY <1>1, <1>3, <2>0, <2>1
    <3>2. f \in [nr : {n}, handler : acc.fire] <=> k \in acc.fire
      BY <2>1
    <3> HIDE DEF f
    <3>3. f \in new <=> k \in acc.fire
      BY <3>1, <3>2 DEF Added
    <3> QED
      BY <1>4, <2>1, <3>3 DEF f
  <2>2. CASE i \in DOMAIN s
    <3>0. i # n /\ i \in Nat /\ ~(n < i)
      BY <1>1, <2>2
    <3>1. f \in new <=> f \in fs
      <4> HIDE DEF f, n, new
      <4> QED
        BY <1>5, <2>0, <3>0
    <3>2. f \in fs <=> Due(s, fs, i, k)
      BY <2>2 DEF AllFired
    <3>3. Due(z, fs, i, k) <=> Due(z, new, i, k)
      <4> HIDE DEF n, z, new
      <4>1. \A e \in new \ fs : ~Before(e, i, k)
        BY <1>5, <3>0 DEF Before
      <4> QED
        BY <1>5, <4>1, DueStays
    <3>4. Due(z, fs, i, k) <=> Due(s, fs, i, k)
      <4> HIDE DEF n, z, new
      <4>1. z[i] = s[i] /\ \A e \in fs : z[e.nr] = s[e.nr]
        BY <1>1, <1>3, <2>2
      <4>2. \A e \in fs : \A name, sym : Alike(z, e, name, sym) <=> Alike(s, e, name, sym)
        BY <4>1 DEF Alike
      <4> QED
        BY <4>1, <4>2 DEF Due
    <3> HIDE DEF f, new, z
    <3> QED
      BY <3>1, <3>2, <3>3, <3>4 DEF f
  <2> QED
    BY <1>1, <2>1, <2>2
<1> HIDE DEF new, z
<1>7. AllFired(z, new)
  BY <1>6 DEF AllFired
<1> QED
  BY <1>7 DEF z, new

LEMMA DeskStarts ==
  ASSUME DeskInit
  PROVE  DeskInv
<1>0. << >> \in Seq(Signals) /\ << >> \in Seq(Heard) /\ DOMAIN << >> = {} /\ Len(<< >>) = 0 /\ Depth \in Nat \ {0}
  BY DeskAssumption
<1>1. /\ wire = << >> /\ buffer = << >> /\ autotrade \in BOOLEAN /\ clock = 0 /\ dispatches = {}
      /\ heard = << >> /\ fired = {}
      /\ lastFired = [n \in HandlerNames |-> [y \in Symbols |-> Never]]
  BY DEF DeskInit, HandlerNames
<1>2. Never \in Int
  BY DEF Never
<1>3. lastFired \in Stamps /\ \A n \in HandlerNames, y \in Symbols : lastFired[n][y] = Never
  BY <1>1, <1>2 DEF Stamps
<1>4. DeskTyped
  BY <1>0, <1>1, <1>3 DEF DeskTyped
<1>5. FiringsOf(heard, fired) /\ AllFired(heard, fired)
  BY <1>0, <1>1 DEF FiringsOf, AllFired
<1>6. StampsAre(lastFired, heard, fired)
  BY <1>1, <1>3 DEF StampsAre, StampIs
<1>7. Recent(heard, buffer)
  BY <1>0, <1>1 DEF Recent
<1> QED
  BY <1>4, <1>5, <1>6, <1>7 DEF DeskInv

LEMMA IngestKeeps ==
  ASSUME DeskInv, Ingest
  PROVE  DeskInv'
<1> DEFINE sig == Head(wire)
           g == [sig |-> sig, time |-> clock, auto |-> autotrade]
           z == Append(heard, g)
           nr == Len(heard) + 1
           acc == RunHandlers(sig)
           n == Len(Handlers)
<1>1. /\ wire # << >> /\ wire' = Tail(wire) /\ buffer' = Newest(Append(buffer, sig)) /\ lastFired' = acc.last
      /\ heard' = z /\ fired' = Added(fired, nr, acc.fire)
      /\ dispatches' = dispatches \cup [handler : acc.fire, sig : {sig}, nr : {nr}]
      /\ autotrade' = autotrade /\ clock' = clock
  BY DEF Ingest, Added
<1>2. /\ wire \in Seq(Signals) /\ clock \in Nat /\ autotrade \in BOOLEAN /\ lastFired \in Stamps
      /\ dispatches \subseteq [handler : DOMAIN Handlers, sig : Signals, nr : Nat]
      /\ heard \in Seq(Heard) /\ \A i \in DOMAIN heard : heard[i].time <= clock
  BY DEF DeskInv, DeskTyped
<1>3. sig \in Signals /\ wire' \in Seq(Signals)
  BY <1>1, <1>2
<1>4. g \in Heard /\ g.sig = sig /\ g.time = clock /\ g.auto = autotrade
  <2> HIDE DEF sig
  <2> QED
    BY <1>2, <1>3 DEF Heard
<1>5. Handlers \in Seq(Handler) /\ n \in Nat /\ DOMAIN Handlers = 1 .. n
  <2>1. Handlers \in Seq(Handler)
    BY DeskAssumption
  <2> QED
    BY <2>1
<1>6. PICK h : /\ F!Chain(Reacting(sig, clock, autotrade), [last |-> lastFired, fire |-> {}],
                          [i \in DOMAIN Handlers |-> i], n, h)
               /\ acc = h[n]
  <2> HIDE DEF sig
  <2> QED
    BY <1>5, RunFolds
<1> HIDE DEF acc, g, sig
<1>7. /\ z \in Seq(Heard) /\ Len(z) = nr /\ nr > 0 /\ z[nr] = g /\ nr \in Nat /\ DOMAIN z = 1 .. nr
      /\ Len(heard) \in Nat /\ DOMAIN heard = 1 .. Len(heard) /\ \A i \in DOMAIN heard : z[i] = heard[i]
  BY <1>2, <1>4
<1>8. FiringsOf(z, fired) /\ StampsAre(lastFired, z, fired)
  BY <1>2, <1>4, PastStays DEF DeskInv
<1>9. /\ \A i \in DOMAIN z : z[i].time <= clock
      /\ \A f \in fired : f.nr < nr
  <2>1. \A i \in DOMAIN z : i = nr \/ i \in DOMAIN heard
    BY <1>7
  <2>2. \A f \in fired : f.nr \in DOMAIN heard
    BY DEF DeskInv, FiringsOf
  <2>3. \A i \in DOMAIN z : z[i].time <= clock
    BY <1>2, <1>4, <1>7, <2>1
  <2> QED
    BY <1>7, <2>2, <2>3
<1> HIDE DEF z, nr, n
<1>10. ReactedTo(z, fired, nr, n, acc)
  <2>1. F!Chain(Reacting(z[nr].sig, z[nr].time, z[nr].auto), [last |-> lastFired, fire |-> {}],
                [i \in DOMAIN Handlers |-> i], n, h)
    BY <1>4, <1>6, <1>7
  <2>2. \A i \in DOMAIN z : z[i].time <= z[nr].time
    BY <1>4, <1>7, <1>9
  <2>3. ReactedTo(z, fired, nr, n, h[n])
    BY <1>2, <1>7, <1>8, <1>9, <2>1, <2>2, AllReact DEF n
  <2> QED
    BY <1>6, <2>3
<1>11. AllFired(z, Added(fired, nr, acc.fire))
  BY <1>2, <1>4, <1>10, FiringsAdded DEF DeskInv, z, nr, n
<1>12. /\ acc.fire \subseteq DOMAIN Handlers /\ acc.last \in Stamps
       /\ FiringsOf(z, Added(fired, nr, acc.fire)) /\ StampsAre(acc.last, z, Added(fired, nr, acc.fire))
  BY <1>5, <1>10 DEF ReactedTo
<1>13. Recent(z, Newest(Append(buffer, sig)))
  BY <1>2, <1>4, StaysRecent DEF DeskInv, z
<1>14. dispatches' \subseteq [handler : DOMAIN Handlers, sig : Signals, nr : Nat]
  <2>1. [handler : acc.fire, sig : {sig}, nr : {nr}] \subseteq [handler : DOMAIN Handlers, sig : Signals, nr : Nat]
    BY <1>3, <1>7, <1>12
  <2> QED
    BY <1>1, <1>2, <2>1
<1>15. DeskTyped'
  BY <1>1, <1>2, <1>3, <1>7, <1>9, <1>12, <1>14 DEF DeskTyped
<1> QED
  BY <1>1, <1>11, <1>12, <1>13, <1>15 DEF DeskInv

LEMMA DeskKeeps ==
  ASSUME DeskInv, [DeskNext]_<<agentvars, deskvars>>
  PROVE  DeskInv'
<1>0. /\ wire \in Seq(Signals) /\ clock \in Nat /\ autotrade \in BOOLEAN /\ lastFired \in Stamps
      /\ dispatches \subseteq [handler : DOMAIN Handlers, sig : Signals, nr : Nat]
      /\ heard \in Seq(Heard) /\ \A i \in DOMAIN heard : heard[i].time <= clock
  BY DEF DeskInv, DeskTyped
\* The other actions leave what was heard and what has fired.
<1>1. ASSUME UNCHANGED <<buffer, lastFired, heard, fired>>, DeskTyped'
      PROVE  DeskInv'
  BY <1>1 DEF DeskInv
<1>2. ASSUME NEW sig \in Signals, Emit(sig) PROVE DeskInv'
  <2>1. DeskTyped'
    BY <1>0, <1>2 DEF Emit, DeskTyped
  <2> QED
    BY <1>1, <1>2, <2>1 DEF Emit
<1>3. ASSUME Autotrade PROVE DeskInv'
  <2>1. DeskTyped'
    BY <1>0, <1>3 DEF Autotrade, DeskTyped
  <2> QED
    BY <1>1, <1>3, <2>1 DEF Autotrade
<1>4. ASSUME Second PROVE DeskInv'
  <2>0. clock' \in Nat /\ \A t \in Nat : t <= clock => t <= clock'
    BY <1>0, <1>4 DEF Second
  <2>1. \A i \in DOMAIN heard : heard[i].time \in Nat
    BY <1>0, HeardType
  <2>2. DeskTyped'
    BY <1>0, <1>4, <2>0, <2>1 DEF Second, DeskTyped
  <2> QED
    BY <1>1, <1>4, <2>2 DEF Second
<1>5. ASSUME NEW d \in dispatches, Dispatches(d) PROVE DeskInv'
  <2>1. d.sig \in Signals
    BY <1>0
  <2>2. wire' \in Seq(Signals)
    <3>1. wire' = wire \/ wire' = Append(wire, d.sig)
      BY <1>5 DEF Dispatches
    <3> QED
      BY <1>0, <2>1, <3>1
  <2>3. dispatches' \subseteq dispatches /\ UNCHANGED <<buffer, lastFired, autotrade, clock, heard, fired>>
    BY <1>5 DEF Dispatches
  <2>4. DeskTyped'
    BY <1>0, <2>2, <2>3 DEF DeskTyped
  <2> QED
    BY <1>1, <2>3, <2>4
<1>6. ASSUME UNCHANGED deskvars PROVE DeskInv'
  BY <1>6 DEF deskvars, DeskInv, DeskTyped
<1> QED
  BY <1>2, <1>3, <1>4, <1>5, <1>6, IngestKeeps DEF DeskNext, DeskActs

\* Whatever the handlers, the depth of the buffer and the burst of signals: a handler fires for
\* exactly the signals its declaration names, and a query finds the newest matches of what was
\* heard (SignalHandlerEngine.run, CooldownTracker, SignalConsumer.query).
THEOREM TheDeskIsPrompt == DeskSpec => []DeskAsPromised
<1>1. ASSUME DeskInv PROVE DeskAsPromised
  <2>1. \A nr \in DOMAIN heard, k \in DOMAIN Handlers : [nr |-> nr, handler |-> k] \in fired <=> DueAt(nr, k)
    <3> TAKE nr \in DOMAIN heard, k \in DOMAIN Handlers
    <3>1. DueAt(nr, k) <=> Due(heard, fired, nr, k)
      BY DEF DueAt, Due, Before, Alike
    <3> QED
      BY <1>1, <3>1 DEF DeskInv, AllFired
  <2>2. ASSUME NEW sym \in Symbols \cup {"any"}, NEW sort \in SignalKinds \cup {"any"}, NEW limit \in 1 .. Depth
        PROVE  LET at == {nr \in DOMAIN heard :
                            /\ nr > Len(heard) - Depth
                            /\ sym \in {"any", heard[nr].sig.sym} /\ sort \in {"any", heard[nr].sig.kind}}
                   answer == Query(sym, sort, limit)
               IN  /\ Len(answer) = IF Cardinality(at) < limit THEN Cardinality(at) ELSE limit
                   /\ \A i \in DOMAIN answer : \E nr \in at :
                        answer[i] = heard[nr].sig /\ Cardinality({n \in at : n >= nr}) = i
    <3>1. heard \in Seq(Heard) /\ Recent(heard, buffer) /\ limit \in Nat \ {0}
      BY <1>1, DeskAssumption DEF DeskInv, DeskTyped
    <3>2. IsAnswer(heard, Hits(heard, Depth, sym, sort), limit, Query(sym, sort, limit))
      BY <3>1, QueryAnswers
    <3> QED
      BY <3>2 DEF IsAnswer, Hits, Meets
  <2> QED
    BY <2>1, <2>2 DEF DeskAsPromised
<1>2. DeskSpec => []DeskInv
  BY DeskStarts, DeskKeeps, PTL DEF DeskSpec
<1> QED
  BY <1>1, <1>2, PTL

-----------------------------------------------------------------------------
(* The taskboard's runs. What a request writes was read from the file a moment before, and    *)
(* what a thread writes is the runner's own object; the invariant says what the copies in     *)
(* flight can hold, compared with the file they will overwrite.                               *)

Ended == {"finishing", "failing", "cancelled", "none"}

\* A record that can be shown while the runner of r is in phase p.
Fit(rec, r, p) ==
  /\ rec.status \in Terminal => p \in Ended
  /\ rec.status = "completed" => rec.text

\* The runner's own copies never hold a follow-up or an abort.
Own(rec) == rec.followups = {} /\ rec.status # "aborted"

RunnerInv(r) ==
  /\ Active(r) => obj[r] # NoRecord
  /\ obj[r] # NoRecord => Own(obj[r]) /\ Fit(obj[r], r, pc[r])
  /\ thread[r] # NoRecord => Own(thread[r]) /\ Fit(thread[r], r, pc[r])
  /\ obj[r] # NoRecord \/ thread[r] # NoRecord => file[r] # NoRecord

FileInv(r) ==
  file[r] # NoRecord =>
    Fit(file[r], r, pc[r]) /\ (file[r].status = "aborted" => r \in acked)

HandlerInv ==
  handler.kind # "none" =>
    LET r == handler.run IN
    /\ file[r] # NoRecord
    /\ Fit(handler.rec, r, pc[r])
    /\ handler.rec.status = "aborted" => r \in acked
    /\ file[r].status = "aborted" => handler.rec.status = "aborted"
    /\ file[r].followups \subseteq handler.rec.followups

\* Only a run that exists is aborted.
AckedKnown == \A r \in acked : file[r] # NoRecord

Inv ==
  /\ TypeOK
  /\ AbortStopsTheWork
  /\ AckedKnown
  /\ \A r \in Run : RunnerInv(r) /\ FileInv(r)
  /\ HandlerInv

-----------------------------------------------------------------------------
\* The three kinds of requests, told apart by their kind.
LEMMA RequestKinds ==
  ASSUME TypeOK
  PROVE  /\ handler.kind = "none" <=> handler = NoRequest
         /\ handler.kind # "none" => handler.run \in Run /\ handler.rec \in RunRecord
         /\ handler.kind = "send" => handler.message \in Message
BY DEF TypeOK, Request, NoRequest

\* A new run's record is a record.
LEMMA CreatedType == Created \in RunRecord /\ Own(Created) /\ Created.status = "accepted"
BY TaskboardAssumption DEF Created, RunRecord, RunStatus, Own

\* Nothing is known of any run at the start.
LEMMA InvInit == Init => Inv
<1> SUFFICES ASSUME Init PROVE Inv
  OBVIOUS
<1>1. TypeOK
  BY TaskboardAssumption DEF Init, TypeOK, Phase, Request
<1>2. AbortStopsTheWork /\ HandlerInv
  BY DEF Init, AbortStopsTheWork, HandlerInv, NoRequest
<1>3. \A r \in Run : RunnerInv(r) /\ FileInv(r)
  BY DEF Init, RunnerInv, FileInv, Active
<1>4. AckedKnown
  BY DEF Init, AckedKnown
<1>5. QED
  BY <1>1, <1>2, <1>3, <1>4 DEF Inv

-----------------------------------------------------------------------------
(* Steps of the runner of one run, by what they do.                         *)

\* Handing a record to a thread preserves the invariant if the record is the runner's
\* own and fits the phase, and if the runner was not past its work.
LEMMA SubmitInv ==
  ASSUME Inv, NEW r \in Run, NEW rec \in RunRecord, NEW phase \in Phase,
         handler = NoRequest, Active(r), pc[r] # "cancelled", phase # "none",
         pc[r] \in Ended => phase \in Ended,
         Own(rec), Fit(rec, r, phase), file[r].status \in Terminal => phase \in Ended,
         ToThread(r, rec, phase)
  PROVE  Inv'
<1>1. /\ UNCHANGED <<file, handler, acked, restarts>>
      /\ obj' = [obj EXCEPT ![r] = rec] /\ thread' = [thread EXCEPT ![r] = rec]
      /\ pc' = [pc EXCEPT ![r] = phase]
  BY DEF ToThread
<1>2. TypeOK'
  BY <1>1 DEF Inv, TypeOK
<1>3. r \notin acked
  BY DEF Inv, AbortStopsTheWork, Active
<1>4. AbortStopsTheWork'
  BY <1>1, <1>3 DEF Inv, AbortStopsTheWork, TypeOK
<1>5. HandlerInv'
  BY <1>1 DEF HandlerInv, NoRequest
<1>6. ASSUME NEW q \in Run PROVE RunnerInv(q)' /\ FileInv(q)'
  <2>1. CASE q = r
    BY <1>1, <2>1, RecordAssumption DEF Inv, TypeOK, RunnerInv, FileInv, Fit, Active
  <2>2. CASE q # r
    BY <1>1, <2>2 DEF Inv, TypeOK, RunnerInv, FileInv, Fit, Active
  <2>3. QED
    BY <2>1, <2>2
<1>7. AckedKnown'
  BY <1>1 DEF Inv, AckedKnown
<1>8. QED
  BY <1>2, <1>4, <1>5, <1>6, <1>7 DEF Inv

\* So does a move to another phase that keeps nothing back.
LEMMA GotoInv ==
  ASSUME Inv, NEW r \in Run, NEW phase \in Phase,
         handler = NoRequest, Active(r), pc[r] \notin Ended, phase \notin Ended,
         Goto(r, phase)
  PROVE  Inv'
<1>1. /\ UNCHANGED <<file, obj, thread, handler, acked, restarts>>
      /\ pc' = [pc EXCEPT ![r] = phase]
  BY DEF Goto
<1>2. TypeOK'
  BY <1>1 DEF Inv, TypeOK
<1>3. r \notin acked
  BY DEF Inv, AbortStopsTheWork, Ended
<1>4. AbortStopsTheWork'
  BY <1>1, <1>3 DEF Inv, AbortStopsTheWork, TypeOK
<1>5. HandlerInv'
  BY <1>1 DEF HandlerInv, NoRequest
<1>6. ASSUME NEW q \in Run PROVE RunnerInv(q)' /\ FileInv(q)'
  BY <1>1 DEF Inv, TypeOK, RunnerInv, FileInv, Fit, Active
<1>7. AckedKnown'
  BY <1>1 DEF Inv, AckedKnown
<1>8. QED
  BY <1>2, <1>4, <1>5, <1>6, <1>7 DEF Inv

\* So does the end of the task.
LEMMA EndTaskInv ==
  ASSUME Inv, NEW r \in Run, handler = NoRequest, EndTask(r)
  PROVE  Inv'
<1>1. /\ UNCHANGED <<file, thread, handler, acked, restarts>>
      /\ pc' = [pc EXCEPT ![r] = "none"] /\ obj' = [obj EXCEPT ![r] = NoRecord]
  BY DEF EndTask
<1>2. TypeOK'
  BY <1>1 DEF Inv, TypeOK, Phase
<1>3. AbortStopsTheWork'
  BY <1>1 DEF Inv, AbortStopsTheWork, TypeOK
<1>4. HandlerInv'
  BY <1>1 DEF HandlerInv, NoRequest
<1>5. ASSUME NEW q \in Run PROVE RunnerInv(q)' /\ FileInv(q)'
  BY <1>1 DEF Inv, TypeOK, RunnerInv, FileInv, Fit, Active, Ended
<1>6. AckedKnown'
  BY <1>1 DEF Inv, AckedKnown
<1>7. QED
  BY <1>2, <1>3, <1>4, <1>5, <1>6 DEF Inv

-----------------------------------------------------------------------------
(* The steps, one by one.                                                   *)

\* create_run and schedule_run.
LEMMA SpawnInv ==
  ASSUME Inv, NEW r \in Run, Spawn(r)
  PROVE  Inv'
<1>1. /\ UNCHANGED <<thread, handler, acked, restarts>>
      /\ file[r] = NoRecord /\ handler = NoRequest
      /\ file' = [file EXCEPT ![r] = Created] /\ obj' = [obj EXCEPT ![r] = Created]
      /\ pc' = [pc EXCEPT ![r] = "scheduled"]
  BY DEF Spawn, LoopFree
<1>2. TypeOK'
  BY <1>1, CreatedType DEF Inv, TypeOK, Phase
<1>3. r \notin acked /\ thread[r] = NoRecord
  BY <1>1 DEF Inv, AckedKnown, RunnerInv
<1>4. AbortStopsTheWork'
  BY <1>1, <1>3 DEF Inv, AbortStopsTheWork, TypeOK
<1>5. HandlerInv'
  BY <1>1 DEF HandlerInv, NoRequest
<1>6. ASSUME NEW q \in Run PROVE RunnerInv(q)' /\ FileInv(q)'
  BY <1>1, <1>3, CreatedType, RecordAssumption
  DEF Inv, TypeOK, RunnerInv, FileInv, Fit, Active, Terminal
<1>7. AckedKnown'
  BY <1>1, CreatedType, RecordAssumption DEF Inv, AckedKnown, TypeOK
<1>8. QED
  BY <1>2, <1>4, <1>5, <1>6, <1>7 DEF Inv

\* A request reads the file.
LEMMA TakeInv ==
  ASSUME Inv, NEW r \in Run, TakeAbort(r) \/ \E m \in Message : TakeSend(r, m)
  PROVE  Inv'
<1>1. /\ UNCHANGED <<file, obj, pc, thread, acked, restarts>>
      /\ file[r] # NoRecord /\ handler'.kind # "none"
      /\ handler'.run = r /\ handler'.rec = file[r]
  BY DEF TakeAbort, TakeSend, Take
<1>2. file[r] \in RunRecord
  BY <1>1 DEF Inv, TypeOK
<1>3. handler' \in Request
  BY <1>2 DEF TakeAbort, TakeSend, Take, Request
<1>4. TypeOK' /\ AbortStopsTheWork' /\ AckedKnown'
  BY <1>1, <1>3 DEF Inv, TypeOK, AbortStopsTheWork, AckedKnown
<1>5. HandlerInv'
  BY <1>1 DEF Inv, FileInv, Fit, HandlerInv
<1>6. \A q \in Run : RunnerInv(q)' /\ FileInv(q)'
  BY <1>1 DEF Inv, RunnerInv, FileInv, Fit, Active
<1>7. QED
  BY <1>4, <1>5, <1>6 DEF Inv

\* An abort writes what it read, and stops the runner.
LEMMA AbortInv ==
  ASSUME Inv, Abort
  PROVE  Inv'
<1>1. PICK r \in Run : r = handler.run /\ handler.rec \in RunRecord
  BY RequestKinds DEF Inv, Abort
<1> DEFINE rec == [handler.rec EXCEPT !.status = "aborted"]
<1>2. /\ UNCHANGED <<obj, restarts>> /\ handler' = NoRequest
      /\ acked' = acked \cup {r}
      /\ file' = [file EXCEPT ![r] = rec]
      /\ pc' = (IF Active(r) THEN [pc EXCEPT ![r] = "cancelled"] ELSE pc)
      /\ thread' \in {thread, [thread EXCEPT ![r] = NoRecord]}
  BY <1>1 DEF Abort
<1>3. rec \in RunRecord /\ rec.status = "aborted"
  BY <1>1 DEF RunRecord, RunStatus
<1>4. TypeOK'
  BY <1>1, <1>2, <1>3 DEF Inv, TypeOK, Phase, Request
<1>5. AbortStopsTheWork'
  BY <1>1, <1>2 DEF Inv, AbortStopsTheWork, TypeOK, Active
<1>6. HandlerInv'
  BY <1>2 DEF HandlerInv, NoRequest
<1>7. pc'[r] \in {"cancelled", "none"} /\ (Active(r)' <=> Active(r)) /\ rec # NoRecord
  BY <1>1, <1>2, <1>3, RecordAssumption DEF Inv, TypeOK, Active
<1>8. RunnerInv(r)' /\ FileInv(r)'
  BY <1>1, <1>2, <1>3, <1>7 DEF Inv, TypeOK, RunnerInv, FileInv, Fit, Ended
<1>9. ASSUME NEW q \in Run, q # r PROVE RunnerInv(q)' /\ FileInv(q)'
  BY <1>1, <1>2, <1>9 DEF Inv, TypeOK, RunnerInv, FileInv, Fit, Active
<1>10. AckedKnown'
  BY <1>1, <1>2, <1>3, RecordAssumption DEF Inv, AckedKnown, TypeOK
<1>11. QED
  BY <1>4, <1>5, <1>6, <1>8, <1>9, <1>10 DEF Inv

\* A follow-up writes what it read, with the message.
LEMMA SendInv ==
  ASSUME Inv, Send
  PROVE  Inv'
<1>1. PICK r \in Run : /\ r = handler.run
                       /\ handler.rec \in RunRecord /\ handler.message \in Message
  BY RequestKinds DEF Inv, Send
<1> DEFINE rec == [handler.rec EXCEPT !.followups = @ \cup {handler.message}]
<1>2. /\ UNCHANGED <<obj, pc, thread, acked, restarts>> /\ handler' = NoRequest
      /\ file' = [file EXCEPT ![r] = rec]
  BY <1>1 DEF Send
<1>3. rec \in RunRecord /\ rec.status = handler.rec.status /\ rec.text = handler.rec.text
  BY <1>1 DEF RunRecord
<1>4. TypeOK' /\ AbortStopsTheWork'
  BY <1>1, <1>2, <1>3 DEF Inv, TypeOK, AbortStopsTheWork, Request
<1>5. HandlerInv'
  BY <1>2 DEF HandlerInv, NoRequest
<1>6. FileInv(r)'
  BY <1>1, <1>2, <1>3 DEF Inv, TypeOK, Send, HandlerInv, FileInv, Fit
<1>7. ASSUME NEW q \in Run PROVE RunnerInv(q)' /\ (q # r => FileInv(q)')
  BY <1>1, <1>2, <1>3, RecordAssumption DEF Inv, TypeOK, RunnerInv, FileInv, Fit, Active
<1>8. AckedKnown'
  BY <1>1, <1>2, <1>3, RecordAssumption DEF Inv, AckedKnown, TypeOK
<1>9. QED
  BY <1>4, <1>5, <1>6, <1>7, <1>8 DEF Inv

\* A thread writes the runner's object: no abort and no follow-up is in it, so a request
\* in progress still knows more than the file.
LEMMA ThreadWriteInv ==
  ASSUME Inv, NEW r \in Run, ThreadWrite(r)
  PROVE  Inv'
<1>1. /\ UNCHANGED <<obj, pc, handler, acked, restarts>> /\ thread[r] # NoRecord
      /\ file' = [file EXCEPT ![r] = thread[r]]
      /\ thread' = [thread EXCEPT ![r] = NoRecord]
  BY DEF ThreadWrite
<1>2. thread[r] \in RunRecord /\ Own(thread[r]) /\ Fit(thread[r], r, pc[r])
  BY <1>1 DEF Inv, TypeOK, RunnerInv
<1>3. TypeOK' /\ AbortStopsTheWork' /\ AckedKnown'
  BY <1>1, <1>2 DEF Inv, TypeOK, AbortStopsTheWork, AckedKnown
<1>4. HandlerInv'
  BY <1>1, <1>2, RequestKinds DEF Inv, TypeOK, HandlerInv, Fit, Own
<1>5. ASSUME NEW q \in Run PROVE RunnerInv(q)' /\ FileInv(q)'
  BY <1>1, <1>2 DEF Inv, TypeOK, RunnerInv, FileInv, Fit, Active, Own
<1>6. QED
  BY <1>3, <1>4, <1>5 DEF Inv

\* A restart leaves nothing but the files.
LEMMA RestartInv ==
  ASSUME Inv, Restart
  PROVE  Inv'
<1>1. TypeOK'
  BY TaskboardAssumption DEF Inv, TypeOK, Restart, Phase, Request
<1>2. AbortStopsTheWork' /\ AckedKnown' /\ HandlerInv'
  BY DEF Inv, Restart, AbortStopsTheWork, AckedKnown, HandlerInv, NoRequest, TypeOK
<1>3. \A q \in Run : RunnerInv(q)' /\ FileInv(q)'
  BY DEF Inv, Restart, RunnerInv, FileInv, Fit, Active, Ended
<1>4. QED
  BY <1>1, <1>2, <1>3 DEF Inv

\* What the runner's object can become.
LEMMA OwnRecords ==
  ASSUME Inv, NEW r \in Run, Active(r)
  PROVE  /\ obj[r] \in RunRecord /\ Own(obj[r]) /\ Fit(obj[r], r, pc[r])
         /\ \A st \in RunStatus \ {"aborted"} :
              /\ [obj[r] EXCEPT !.status = st] \in RunRecord
              /\ Own([obj[r] EXCEPT !.status = st])
              /\ [obj[r] EXCEPT !.status = st].status = st
         /\ LET done == [obj[r] EXCEPT !.status = "completed", !.text = TRUE]
            IN  done \in RunRecord /\ Own(done) /\ done.status = "completed" /\ done.text
         /\ obj[r].events < MaxEvents =>
              LET more == [obj[r] EXCEPT !.events = @ + 1]
              IN  more \in RunRecord /\ Own(more) /\ more.status = obj[r].status
<1>1. obj[r] \in RunRecord /\ Own(obj[r]) /\ Fit(obj[r], r, pc[r])
  BY DEF Inv, TypeOK, RunnerInv
<1>2. \A st \in RunStatus \ {"aborted"} :
        /\ [obj[r] EXCEPT !.status = st] \in RunRecord
        /\ Own([obj[r] EXCEPT !.status = st])
        /\ [obj[r] EXCEPT !.status = st].status = st
  BY <1>1 DEF RunRecord, Own
<1>3. LET done == [obj[r] EXCEPT !.status = "completed", !.text = TRUE]
      IN  done \in RunRecord /\ Own(done) /\ done.status = "completed" /\ done.text
  BY <1>1 DEF RunRecord, RunStatus, Own
<1>4. ASSUME obj[r].events < MaxEvents
      PROVE  LET more == [obj[r] EXCEPT !.events = @ + 1]
             IN  more \in RunRecord /\ Own(more) /\ more.status = obj[r].status
  BY <1>1, <1>4, TaskboardAssumption DEF RunRecord, Own
<1>5. QED
  BY <1>1, <1>2, <1>3, <1>4

\* Every step of the runner.
LEMMA StepInv ==
  ASSUME Inv, NEW r \in Run, Step(r)
  PROVE  Inv'
<1>1. handler = NoRequest /\ Active(r)
  BY DEF Step, Begin, Check, Prepare, PrepareFails, Stream, StreamEvent, Logged, Poll, Finish,
         Fail, End, Unwind, Resumes, LoopFree, Active
<1>2. file[r].status \in Terminal => pc[r] \in Ended
  BY <1>1 DEF Inv, RunnerInv, FileInv, Fit
<1>3. CASE Begin(r) \/ Stream(r) \/ Logged(r)
  BY <1>1, <1>3, GotoInv DEF Begin, Stream, Logged, Resumes, Ended, Phase
<1>4. CASE PrepareFails(r) \/ End(r) \/ Unwind(r)
  BY <1>1, <1>4, EndTaskInv DEF PrepareFails, End, Unwind
<1>5. CASE Check(r)
  <2>1. CASE EndTask(r)
    BY <1>1, <2>1, EndTaskInv
  <2>2. CASE ToThread(r, [obj[r] EXCEPT !.status = "starting"], "starting")
    BY <1>1, <1>2, <1>5, <2>2, SubmitInv, OwnRecords
    DEF Check, Resumes, Ended, Phase, Fit, Terminal, RunStatus
  <2>3. QED
    BY <1>5, <2>1, <2>2 DEF Check
<1>6. CASE Prepare(r)
  BY <1>1, <1>2, <1>6, SubmitInv, OwnRecords
  DEF Prepare, Resumes, Ended, Phase, Fit, Terminal, RunStatus
<1>7. CASE StreamEvent(r)
  BY <1>1, <1>2, <1>7, SubmitInv, OwnRecords
  DEF StreamEvent, Resumes, Ended, Phase, Fit, Terminal, RunStatus
<1>8. CASE Poll(r)
  BY <1>1, <1>8, GotoInv, EndTaskInv DEF Poll, Resumes, Ended, Phase
<1>9. CASE Finish(r)
  BY <1>1, <1>2, <1>9, SubmitInv, OwnRecords
  DEF Finish, Resumes, Ended, Phase, Fit, Terminal, RunStatus
<1>10. CASE Fail(r)
  BY <1>1, <1>2, <1>10, SubmitInv, OwnRecords
  DEF Fail, Resumes, Ended, Phase, Fit, Terminal, RunStatus
<1>11. QED
  BY <1>3, <1>4, <1>5, <1>6, <1>7, <1>8, <1>9, <1>10 DEF Step

\* The invariant is inductive.
LEMMA InvNext == Inv /\ [Next]_vars => Inv'
<1> SUFFICES ASSUME Inv, [Next]_vars PROVE Inv'
  OBVIOUS
<1>1. CASE UNCHANGED vars
  BY <1>1 DEF vars, Inv, TypeOK, AbortStopsTheWork, AckedKnown, HandlerInv, RunnerInv,
              FileInv, Fit, Active
<1>2. CASE Next
  BY <1>2, SpawnInv, TakeInv, StepInv, ThreadWriteInv, AbortInv, SendInv, RestartInv DEF Next
<1>3. QED
  BY <1>1, <1>2

\* In every reachable state the copies in flight are what Inv says.
THEOREM Reachable == Spec => []Inv
BY InvInit, InvNext, PTL DEF Spec

-----------------------------------------------------------------------------
\* Every variable keeps its type: records on disk, objects, phases, requests.
THEOREM RunsTyped == Spec => []TypeOK
BY Reachable, PTL DEF Inv

\* A run the taskboard was told is aborted does no more work.
THEOREM AbortWorks == Spec => []AbortStopsTheWork
BY Reachable, PTL DEF Inv

\* A record that says a run is over is right.
THEOREM OverIsOver == Spec => []TerminalMeansOver
<1>1. Inv => TerminalMeansOver
  BY DEF Inv, FileInv, Fit, TerminalMeansOver, Ended
<1>2. QED
  BY <1>1, Reachable, PTL

\* Only a thread's write takes an abort back or loses a follow-up.
THEOREM RequestsAgree == Spec => OnlyThreadsUndo
<1> DEFINE A == \A r \in Run : file[r] # NoRecord /\ thread[r] = NoRecord =>
                  /\ file[r].status = "aborted" => file'[r].status = "aborted"
                  /\ file[r].followups \subseteq file'[r].followups
<1>1. ASSUME Inv, [Next]_vars PROVE A
  <2> SUFFICES ASSUME NEW r \in Run, file[r] # NoRecord, thread[r] = NoRecord
               PROVE  /\ file[r].status = "aborted" => file'[r].status = "aborted"
                      /\ file[r].followups \subseteq file'[r].followups
    OBVIOUS
  <2>1. CASE file'[r] = file[r]
    BY <2>1
  <2>2. CASE Abort
    BY <1>1, <2>2, RequestKinds DEF Inv, TypeOK, Abort, HandlerInv, RunRecord
  <2>3. CASE Send
    BY <1>1, <2>3, RequestKinds DEF Inv, TypeOK, Send, HandlerInv, RunRecord
  <2>4. CASE \E q \in Run : Spawn(q) \/ ThreadWrite(q)
    BY <1>1, <2>1, <2>4 DEF Inv, TypeOK, Spawn, ThreadWrite
  <2>5. CASE \E q \in Run : Step(q) \/ TakeAbort(q) \/ \E m \in Message : TakeSend(q, m)
    BY <2>1, <2>5 DEF Step, Begin, Check, Prepare, PrepareFails, Stream, StreamEvent, Logged,
       Poll, Finish, Fail, End, Unwind, ToThread, Goto, EndTask, TakeAbort, TakeSend, Take
  <2>6. CASE Restart \/ UNCHANGED vars
    BY <2>1, <2>6 DEF Restart, vars
  <2>7. QED
    BY <1>1, <2>2, <2>3, <2>4, <2>5, <2>6 DEF Next
<1>2. QED
  BY <1>1, Reachable, PTL DEF Spec, OnlyThreadsUndo
=============================================================================
