---------------------------- MODULE SessionProofs ----------------------------
(***************************************************************************)
(* Theorems about SessionTurns, for any clients, jobs and bounds.          *)
(***************************************************************************)
EXTENDS SessionTurns, InputLockProofs, SequenceTheorems

\* A stop that is under way found a turn, which is cancelled or over.
StopFoundTurn ==
  /\ Stopping => ~Running
  /\ cancelled => current # NoOne

\* Nobody writes to the inbox of a client that is not there.
InboxIsOpen == \A c \in Client : conn[c] = "away" => inbox[c] = <<>>

\* The part of the invariant that is about the lock and its tasks.
LineOK ==
  /\ holder \in [Session -> Actor \cup {NoOne}]
  /\ waiters \in [Session -> Seq(Actor)]
  /\ current \in Actor \cup {NoOne}
  /\ task \in [Actor -> {"reading", "turn", "stopping"}]
  /\ status \in {"idle", "thinking..."}
  /\ \A s \in Session : InLineOnce(s)
  /\ OneTurn

\* The part that is about clients.
ClientsOK ==
  /\ conn \in [Client -> {"away", "open", "gone"}]
  /\ inbox \in [Client -> Seq(Message)]
  /\ page \in [Client -> {"ready", "asked", "stopping", "answered"}]
  /\ cut \in [Client -> Nat]
  /\ sent \in Nat /\ clicks \in Nat /\ fired \in Nat
  /\ InboxIsOpen

\* The part that is about auto mode.
AutoOK ==
  /\ auto \in [on : BOOLEAN, left : 0 .. MaxBudget, by : Client \cup {NoOne}]
  /\ AutoHasBudget
  /\ AutoHasStarter

\* The part that is about stops.
StopOK ==
  /\ cancelled \in BOOLEAN
  /\ StatusIsTrue
  /\ StopFoundTurn

\* The inductive invariant.
Inv == LineOK /\ ClientsOK /\ AutoOK /\ StopOK

-----------------------------------------------------------------------------
\* A message is of one of four kinds, and only "/auto" has a budget.
LEMMA MessageParts ==
  ASSUME NEW m \in Message
  PROVE  m.kind = "auto" => m.runs \in 1 .. MaxBudget
BY DEF Message, Typed

\* What a handler reads is a message, of a client who was attached; the inboxes stay
\* well-typed, and empty ones empty.
LEMMA ReadsMessage ==
  ASSUME Inv, NEW c \in Client, NEW kind, Reads(c, kind)
  PROVE  /\ Head(inbox[c]) \in Message
         /\ inbox' \in [Client -> Seq(Message)]
         /\ \A d \in Client : inbox[d] = <<>> => inbox'[d] = <<>>
         /\ conn[c] # "away"
<1>1. /\ inbox \in [Client -> Seq(Message)]
      /\ inbox[c] # <<>> /\ inbox' = [inbox EXCEPT ![c] = Tail(@)]
  BY DEF Inv, ClientsOK, Reads
<1>2. Head(inbox[c]) \in Message /\ Tail(inbox[c]) \in Seq(Message)
  BY <1>1
<1>3. \A d \in Client : inbox[d] = <<>> => inbox'[d] = <<>>
  BY <1>1
<1>4. conn[c] # "away"
  BY <1>1 DEF Inv, ClientsOK, InboxIsOpen
<1>5. QED
  BY <1>1, <1>2, <1>3, <1>4

\* A message is put into the inbox of an open connection.
LEMMA PutMessage ==
  ASSUME Inv, NEW c \in Client, conn[c] = "open", NEW m \in Message,
         inbox' = [inbox EXCEPT ![c] = Append(@, m)], conn' = conn
  PROVE  inbox' \in [Client -> Seq(Message)] /\ InboxIsOpen'
<1>1. inbox[c] \in Seq(Message) /\ inbox \in [Client -> Seq(Message)]
  BY DEF Inv, ClientsOK
<1>2. Append(inbox[c], m) \in Seq(Message)
  BY <1>1
<1>3. QED
  BY <1>1, <1>2 DEF Inv, ClientsOK, InboxIsOpen

-----------------------------------------------------------------------------
\* Entering a turn: the actor was reading, and holds the lock or is in line for it.
LEMMA EnterLine ==
  ASSUME LineOK, NEW a \in Actor, task[a] = "reading", Enter(a)
  PROVE  LineOK'
<1> USE SessionAssumption
<1>1. /\ holder' \in [Session -> Actor \cup {NoOne}]
      /\ waiters' \in [Session -> Seq(Actor)]
      /\ task' \in [Actor -> {"reading", "turn", "stopping"}]
      /\ current' \in Actor \cup {NoOne} /\ status' \in {"idle", "thinking..."}
  BY AcquireType DEF LineOK, Enter, BeginTurn
<1>2. holder[Main] # a /\ ~InLine(Main, a)
  BY DEF LineOK, OneTurn
<1>3. /\ \A s \in Session : InLineOnce(s)'
      /\ \A q : InLine(Main, q)' <=> InLine(Main, q) \/ (q = a /\ ~Uncontended(Main))
  <2>1. Acquire(Main, a) /\ Main \in Session
    BY DEF Enter
  <2>2. waiters \in [Session -> Seq(Actor)] /\ \A r \in Session : InLineOnce(r)
    BY DEF LineOK
  <2>3. \A r \in Session :
           /\ InLineOnce(r)'
           /\ \A q : InLine(r, q)' <=> InLine(r, q) \/ (r = Main /\ q = a /\ ~Uncontended(Main))
    BY <1>2, <2>1, <2>2, AcquireLine
  <2>4. QED
    BY <2>1, <2>3
<1>4. CASE Uncontended(Main)
  <2>1. holder'[Main] = a /\ current' = a /\ holder[Main] = NoOne
    BY <1>4 DEF LineOK, Enter, BeginTurn, Acquire, Uncontended
  <2>2. waiters'[Main] = <<>> /\ waiters[Main] = <<>>
    BY <1>4 DEF Enter, Acquire, Uncontended
  <2>3. \A q : ~InLine(Main, q) /\ ~InLine(Main, q)'
    BY <2>2 DEF InLine
  <2>4. \A b \in Actor : task'[b] = "turn" <=> b = a
    BY <2>1, <2>3 DEF LineOK, OneTurn, Enter
  <2>5. OneTurn'
    BY <1>3, <2>1, <2>3, <2>4 DEF OneTurn
  <2>6. QED
    BY <1>1, <1>3, <2>5 DEF LineOK
<1>5. CASE ~Uncontended(Main)
  <2>1. holder' = holder /\ current' = current
    BY <1>5 DEF Enter, Acquire
  <2>2. OneTurn'
    BY <1>1, <1>2, <1>3, <1>5, <2>1 DEF LineOK, OneTurn, Enter
  <2>3. QED
    BY <1>1, <1>3, <2>2 DEF LineOK
<1>6. QED
  BY <1>4, <1>5

\* The woken waiter goes from the line to the lock.
LEMMA TakeLockLine ==
  ASSUME LineOK, TakeLock
  PROVE  LineOK' /\ current' \in Actor
<1> USE SessionAssumption
<1>1. /\ Head(waiters[Main]) \in Actor
      /\ holder' \in [Session -> Actor \cup {NoOne}]
      /\ waiters' \in [Session -> Seq(Actor)]
  BY GrantType DEF LineOK, TakeLock
<1>2. /\ InLine(Main, Head(waiters[Main]))
      /\ \A s \in Session : InLineOnce(s)'
      /\ \A q : InLine(Main, q)' <=> InLine(Main, q) /\ q # Head(waiters[Main])
  BY GrantLine DEF LineOK, TakeLock
<1>3. /\ holder[Main] = NoOne /\ holder'[Main] = Head(waiters[Main])
      /\ current' = Head(waiters[Main]) /\ status' = "thinking..." /\ task' = task
  BY DEF LineOK, TakeLock, BeginTurn, Grant
<1>4. OneTurn'
  BY <1>1, <1>2, <1>3 DEF LineOK, OneTurn
<1>5. QED
  BY <1>1, <1>2, <1>3, <1>4 DEF LineOK

\* The end of a turn frees the lock and the task, and leaves the line alone.
LEMMA EndTurnLine ==
  ASSUME LineOK, current # NoOne, EndTurn
  PROVE  LineOK'
<1> USE SessionAssumption
<1>1. /\ current \in Actor /\ current = holder[Main] /\ ~InLine(Main, current)
      /\ waiters' = waiters /\ current' = NoOne /\ status' = "idle"
      /\ holder' = [holder EXCEPT ![Main] = NoOne]
      /\ task' = [task EXCEPT ![current] = "reading"]
  BY DEF LineOK, OneTurn, EndTurn, Release
<1>2. /\ \A s \in Session : InLineOnce(s)'
      /\ \A q : InLine(Main, q)' <=> InLine(Main, q)
  BY <1>1 DEF LineOK, InLineOnce, InLine
<1>3. ~InLine(Main, NoOne)
  BY DEF LineOK, InLine
<1>4. OneTurn'
  BY <1>1, <1>2, <1>3 DEF LineOK, OneTurn
<1>5. QED
  BY <1>1, <1>2, <1>4 DEF LineOK

-----------------------------------------------------------------------------
\* The invariant gives every property of the runs.
LEMMA InvGives ==
  ASSUME Inv
  PROVE  TypeOK /\ OneTurn /\ StatusIsTrue /\ AutoHasBudget /\ AutoHasStarter
BY DEF Inv, LineOK, ClientsOK, AutoOK, StopOK, TypeOK

\* It holds initially.
LEMMA InitInv == Init => Inv
<1> SUFFICES ASSUME Init PROVE Inv
  OBVIOUS
<1>1. LineOK
  BY SessionAssumption DEF Init, LockInit, LineOK, OneTurn, InLineOnce, InLine
<1>2. ClientsOK
  BY DEF Init, ClientsOK, InboxIsOpen
<1>3. AutoOK
  BY SessionAssumption DEF Init, Off, AutoOK, AutoHasBudget, AutoHasStarter
<1>4. StopOK
  BY DEF Init, LockInit, StopOK, StatusIsTrue, StopFoundTurn, Stopping, Running
<1>5. QED
  BY <1>1, <1>2, <1>3, <1>4 DEF Inv

\* A step that leaves the lock and its tasks alone leaves what is said of them true.
LEMMA LineKept ==
  ASSUME LineOK, UNCHANGED <<lineVars, task>>
  PROVE  LineOK'
<1>1. \A s \in Session : InLineOnce(s)'
  BY DEF LineOK, lineVars, InLineOnce
<1>2. OneTurn'
  BY <1>1 DEF LineOK, OneTurn, lineVars, InLine, InLineOnce
<1>3. QED
  BY <1>1, <1>2 DEF LineOK, lineVars

\* Auto mode that is switched off satisfies what is said of it.
LEMMA AutoOff ==
  ASSUME auto' = Off
  PROVE  AutoOK'
BY SessionAssumption DEF Off, AutoOK, AutoHasBudget, AutoHasStarter

\* So does auto mode that stays as it is, as long as nobody leaves.
LEMMA AutoKept ==
  ASSUME Inv, auto' = auto, \A c \in Client : conn[c] # "away" => conn'[c] # "away"
  PROVE  AutoOK'
BY DEF Inv, AutoOK, AutoHasBudget, AutoHasStarter

\* What clients do on their own.
LEMMA ClientStep ==
  ASSUME Inv, NEW c \in Client,
         \/ Attach(c) \/ Vanish(c) \/ Click(c) \/ SendInterrupt(c)
         \/ \E m \in Typed : Put(c, m)
  PROVE  Inv'
<1> USE DEF counters, clientVars
<1>1. UNCHANGED <<lineVars, task>> /\ auto' = auto /\ cancelled' = cancelled
  BY DEF Attach, Vanish, Click, SendInterrupt, Put
<1>2. LineOK'
  BY <1>1, LineKept DEF Inv
<1>3. \A d \in Client : conn[d] # "away" => conn'[d] # "away"
  BY DEF Attach, Vanish, Click, SendInterrupt, Put, Inv, ClientsOK
<1>4. AutoOK'
  BY <1>1, <1>3, AutoKept
<1>5. StopOK'
  <2>1. Stopping' => Stopping
    BY <1>1 DEF Attach, Vanish, Click, SendInterrupt, Put, Inv, ClientsOK, Stopping
  <2>2. QED
    BY <1>1, <2>1 DEF Inv, StopOK, StatusIsTrue, StopFoundTurn, Running, lineVars
<1>6. ClientsOK'
  <2>1. ASSUME Attach(c) \/ Vanish(c) \/ Click(c) PROVE ClientsOK'
    <3>1. conn' \in [Client -> {"away", "open", "gone"}] /\ InboxIsOpen'
      BY <2>1 DEF Attach, Vanish, Click, Inv, ClientsOK, InboxIsOpen
    <3>2. page' \in [Client -> {"ready", "asked", "stopping", "answered"}]
      BY <2>1 DEF Attach, Vanish, Click, Inv, ClientsOK
    <3>3. sent' \in Nat /\ clicks' \in Nat /\ fired' \in Nat
      BY <2>1 DEF Attach, Vanish, Click, Inv, ClientsOK
    <3>4. inbox' = inbox /\ cut' = cut
      BY <2>1 DEF Attach, Vanish, Click
    <3>5. QED
      BY <3>1, <3>2, <3>3, <3>4 DEF Inv, ClientsOK
  <2>2. CASE SendInterrupt(c) /\ conn[c] = "open"
    <3>1. [kind |-> "interrupt"] \in Message
      BY DEF Message
    <3>2. inbox' \in [Client -> Seq(Message)] /\ InboxIsOpen'
      BY <2>2, <3>1, PutMessage DEF SendInterrupt
    <3>3. QED
      BY <2>2, <3>2 DEF SendInterrupt, Inv, ClientsOK
  <2>3. CASE SendInterrupt(c) /\ conn[c] # "open"
    BY <2>3 DEF SendInterrupt, Inv, ClientsOK, InboxIsOpen
  <2>4. ASSUME NEW m \in Typed, Put(c, m) PROVE ClientsOK'
    <3>1. m \in Message
      BY DEF Message
    <3>2. inbox' \in [Client -> Seq(Message)] /\ InboxIsOpen'
      BY <2>4, <3>1, PutMessage DEF Put
    <3>3. QED
      BY <2>4, <3>2 DEF Put, Inv, ClientsOK
  <2>5. QED
    BY <2>1, <2>2, <2>3, <2>4
<1>7. QED
  BY <1>2, <1>4, <1>5, <1>6 DEF Inv

\* A step that leaves the turn alone and begins no stop leaves what is said of stops true.
LEMMA StopKept ==
  ASSUME Inv, UNCHANGED <<lineVars, cancelled>>, Stopping' => Stopping
  PROVE  StopOK'
BY DEF Inv, StopOK, StatusIsTrue, StopFoundTurn, Running, lineVars

\* An actor that enters a turn.
LEMMA EnterStep ==
  ASSUME Inv, NEW a \in Actor, task[a] = "reading", Enter(a), page' = page
  PROVE  LineOK' /\ StopOK'
<1>1. LineOK'
  BY EnterLine DEF Inv
<1>2. /\ Stopping' => Stopping
      /\ current = holder[Main] /\ Calm /\ cancelled' = cancelled /\ Acquire(Main, a)
  BY DEF Inv, LineOK, OneTurn, Enter, Stopping
<1>3. CASE Uncontended(Main)
  <2>1. holder[Main] = NoOne /\ holder'[Main] = a /\ current' = a /\ status' = "thinking..."
    BY <1>2, <1>3, SessionAssumption DEF Inv, LineOK, Enter, BeginTurn, Acquire, Uncontended
  <2>2. ~Stopping /\ ~cancelled
    BY <1>2, <2>1 DEF Inv, StopOK, StopFoundTurn, Calm
  <2>3. StopOK'
    BY <1>2, <2>1, <2>2, SessionAssumption DEF Inv, StopOK, StatusIsTrue, StopFoundTurn, Running
  <2>4. QED
    BY <1>1, <2>3
<1>4. CASE ~Uncontended(Main)
  <2>1. UNCHANGED <<holder, current, status, cancelled>>
    BY <1>2, <1>4 DEF Enter, Acquire
  <2>2. StopOK'
    BY <1>2, <2>1 DEF Inv, StopOK, StatusIsTrue, StopFoundTurn, Running
  <2>3. QED
    BY <1>1, <2>2
<1>5. QED
  BY <1>3, <1>4

\* What the handler of a client does, stops apart.
LEMMA HandlerStep ==
  ASSUME Inv, NEW c \in Client, HandleInput(c) \/ HandleAuto(c) \/ HandleOff(c) \/ Leave(c)
  PROVE  Inv'
<1> USE DEF counters
<1>1. CASE HandleInput(c)
  <2>1. Reads(c, "input") /\ Enter(c) /\ c \in Actor /\ task[c] = "reading"
    BY <1>1 DEF HandleInput, Reads, Actor
  <2>2. UNCHANGED <<auto, conn, page, cut, counters>>
    BY <1>1 DEF HandleInput
  <2>3. LineOK' /\ StopOK'
    BY <2>1, <2>2, EnterStep
  <2>4. ClientsOK'
    BY <2>1, <2>2, ReadsMessage DEF Inv, ClientsOK, InboxIsOpen
  <2>5. AutoOK'
    BY <2>2, AutoKept
  <2>6. QED
    BY <2>3, <2>4, <2>5 DEF Inv
<1>2. ASSUME HandleAuto(c) \/ HandleOff(c) PROVE Inv'
  <2>1. \E kind : Reads(c, kind)
    BY <1>2 DEF HandleAuto, HandleOff
  <2>2. UNCHANGED <<lineVars, cancelled, task, conn, page, cut, counters>>
    BY <1>2 DEF HandleAuto, HandleOff
  <2>3. LineOK'
    BY <2>2, LineKept DEF Inv
  <2>4. StopOK'
    BY <2>2, StopKept DEF Stopping
  <2>5. ClientsOK'
    BY <2>1, <2>2, ReadsMessage DEF Inv, ClientsOK, InboxIsOpen
  <2>6. AutoOK'
    <3>1. CASE HandleAuto(c)
      <4>1. Reads(c, "auto") /\ auto' = [on |-> TRUE, left |-> Head(inbox[c]).runs, by |-> c]
        BY <3>1 DEF HandleAuto
      <4>2. Head(inbox[c]).runs \in 1 .. MaxBudget /\ conn[c] # "away"
        BY <4>1, ReadsMessage, MessageParts DEF Reads
      <4>3. QED
        BY <2>2, <4>1, <4>2, SessionAssumption DEF AutoOK, AutoHasBudget, AutoHasStarter
    <3>2. CASE HandleOff(c)
      BY <3>2, AutoOff DEF HandleOff
    <3>3. QED
      BY <1>2, <3>1, <3>2
  <2>7. QED
    BY <2>3, <2>4, <2>5, <2>6 DEF Inv
<1>3. CASE Leave(c)
  <2>1. UNCHANGED <<lineVars, cancelled, task, inbox, page, cut, counters>> /\ auto' = Off
    BY <1>3 DEF Leave
  <2>2. LineOK' /\ AutoOK'
    BY <2>1, LineKept, AutoOff DEF Inv
  <2>3. StopOK'
    BY <2>1, StopKept DEF Stopping
  <2>4. ClientsOK'
    BY <1>3, <2>1 DEF Leave, Inv, ClientsOK, InboxIsOpen
  <2>5. QED
    BY <2>2, <2>3, <2>4 DEF Inv
<1>4. QED
  BY <1>1, <1>2, <1>3

-----------------------------------------------------------------------------
(* Stops.                                                                   *)

\* The first half of a stop: with a turn under way it is cancelled, and otherwise all is
\* quiet.
LEMMA BeginsStep ==
  ASSUME Inv, Calm, StopBegins, UNCHANGED <<holder, waiters, current, conn>>,
         current = NoOne => (Stopping' => Stopping)
  PROVE  AutoOK' /\ StopOK'
<1>1. CASE current # NoOne
  <2>1. AutoOK'
    BY <1>1, AutoKept DEF StopBegins
  <2>2. StopOK'
    BY <1>1 DEF StopBegins, Inv, LineOK, OneTurn, StopOK, StatusIsTrue, StopFoundTurn, Running
  <2>3. QED
    BY <2>1, <2>2
<1>2. CASE current = NoOne
  <2>1. AutoOK'
    BY <1>2, AutoOff DEF StopBegins
  <2>2. StopOK'
    BY <1>2 DEF StopBegins, Inv, LineOK, OneTurn, StopOK, StatusIsTrue, StopFoundTurn, Running
  <2>3. QED
    BY <2>1, <2>2
<1>3. QED
  BY <1>1, <1>2

\* The second half: no turn goes on that the stop has not cancelled.
LEMMA EndsStep ==
  ASSUME Inv, Stopping, StopEnds, Stopping' => Stopping
  PROVE  AutoOK' /\ StopOK'
<1>1. AutoOK'
  BY AutoOff DEF StopEnds
<1>2. ~Running
  BY DEF Inv, StopOK, StopFoundTurn
<1>3. StopOK'
  BY <1>2 DEF StopEnds, Inv, StopOK, StatusIsTrue, StopFoundTurn, Running
<1>4. QED
  BY <1>1, <1>3

\* Stops, by a request and by an interrupt.
LEMMA StopStep ==
  ASSUME Inv, NEW c \in Client,
         RestStop(c) \/ RestStopEnds(c) \/ Interrupt(c) \/ InterruptEnds(c)
  PROVE  Inv'
<1> USE DEF counters
<1>1. c \in Actor
  BY DEF Actor
<1>2. CASE RestStop(c)
  <2>1. LineOK'
    <3>1. /\ UNCHANGED <<holder, waiters, current, task>>
          /\ status' \in {"idle", "thinking..."}
      BY <1>2 DEF RestStop, StopBegins, Inv, LineOK
    <3>2. (\A s \in Session : InLineOnce(s)') /\ OneTurn'
      BY <3>1 DEF Inv, LineOK, OneTurn, InLine, InLineOnce
    <3>3. QED
      BY <3>1, <3>2 DEF Inv, LineOK
  <2>2. ClientsOK'
    BY <1>2 DEF RestStop, Inv, ClientsOK, InboxIsOpen
  <2>3. current = NoOne => (Stopping' => Stopping)
    BY <1>2 DEF RestStop, Inv, ClientsOK, Stopping
  <2>4. AutoOK' /\ StopOK'
    BY <1>2, <2>3, BeginsStep DEF RestStop
  <2>5. QED
    BY <2>1, <2>2, <2>4 DEF Inv
<1>3. CASE RestStopEnds(c)
  <2>1. LineOK'
    <3>1. UNCHANGED <<holder, waiters, current, task>> /\ status' = "idle"
      BY <1>3 DEF RestStopEnds, StopEnds
    <3>2. (\A s \in Session : InLineOnce(s)') /\ OneTurn'
      BY <3>1 DEF Inv, LineOK, OneTurn, InLine, InLineOnce
    <3>3. QED
      BY <3>1, <3>2 DEF Inv, LineOK
  <2>2. ClientsOK'
    BY <1>3 DEF RestStopEnds, StopEnds, Inv, ClientsOK, InboxIsOpen
  <2>3. AutoOK' /\ StopOK'
    BY <1>3, EndsStep DEF RestStopEnds, Stopping
  <2>4. QED
    BY <2>1, <2>2, <2>3 DEF Inv
<1>4. CASE Interrupt(c)
  <2>1. Reads(c, "interrupt") /\ task[c] = "reading" /\ Calm
    BY <1>4 DEF Interrupt, Reads
  <2>2. LineOK'
    <3>1. /\ UNCHANGED <<holder, waiters, current>>
          /\ status' \in {"idle", "thinking..."}
          /\ task' \in [Actor -> {"reading", "turn", "stopping"}]
          /\ \A a \in Actor : task'[a] = "turn" <=> task[a] = "turn"
      BY <1>1, <1>4, <2>1 DEF Interrupt, StopBegins, Inv, LineOK
    <3>2. (\A s \in Session : InLineOnce(s)') /\ OneTurn'
      BY <3>1 DEF Inv, LineOK, OneTurn, InLine, InLineOnce
    <3>3. QED
      BY <3>1, <3>2 DEF Inv, LineOK
  <2>3. ClientsOK'
    <3>1. UNCHANGED <<conn, page, sent, clicks, fired>>
      BY <1>4 DEF Interrupt
    <3>2. /\ inbox' \in [Client -> Seq(Message)]
          /\ \A d \in Client : inbox[d] = <<>> => inbox'[d] = <<>>
      BY <2>1, ReadsMessage
    <3>3. cut' \in [Client -> Nat]
      BY <1>4 DEF Interrupt, Inv, ClientsOK
    <3>4. QED
      BY <3>1, <3>2, <3>3 DEF Inv, ClientsOK, InboxIsOpen
  <2>4. current = NoOne => (Stopping' => Stopping)
    BY <1>4 DEF Interrupt, Stopping
  <2>5. AutoOK' /\ StopOK'
    BY <1>4, <2>1, <2>4, BeginsStep DEF Interrupt
  <2>6. QED
    BY <2>2, <2>3, <2>5 DEF Inv
<1>5. CASE InterruptEnds(c)
  <2>1. LineOK'
    <3>1. /\ UNCHANGED <<holder, waiters, current>> /\ status' = "idle"
          /\ task' \in [Actor -> {"reading", "turn", "stopping"}]
          /\ \A a \in Actor : task'[a] = "turn" <=> task[a] = "turn"
      BY <1>1, <1>5 DEF InterruptEnds, StopEnds, Inv, LineOK
    <3>2. (\A s \in Session : InLineOnce(s)') /\ OneTurn'
      BY <3>1 DEF Inv, LineOK, OneTurn, InLine, InLineOnce
    <3>3. QED
      BY <3>1, <3>2 DEF Inv, LineOK
  <2>2. ClientsOK'
    <3>1. /\ UNCHANGED <<conn, inbox, page, sent, clicks, fired>>
          /\ cut' = [cut EXCEPT ![c] = 0]
      BY <1>5 DEF InterruptEnds, StopEnds
    <3>2. cut' \in [Client -> Nat]
      BY <3>1 DEF Inv, ClientsOK
    <3>3. QED
      BY <3>1, <3>2 DEF Inv, ClientsOK, InboxIsOpen
  <2>3. AutoOK' /\ StopOK'
    BY <1>1, <1>5, EndsStep DEF InterruptEnds, Stopping
  <2>4. QED
    BY <2>1, <2>2, <2>3 DEF Inv
<1>6. QED
  BY <1>2, <1>3, <1>4, <1>5

-----------------------------------------------------------------------------
(* Turns.                                                                   *)

\* The end of a turn that is under way, whatever becomes of auto mode.
LEMMA EndTurnStep ==
  ASSUME Inv, current # NoOne, EndTurn, AutoOK'
  PROVE  Inv'
<1>1. LineOK'
  BY EndTurnLine DEF Inv
<1>2. /\ UNCHANGED <<conn, inbox, page, cut, sent, clicks, fired>>
      /\ current' = NoOne /\ cancelled' = FALSE /\ status' = "idle"
  BY DEF EndTurn, clientVars, counters
<1>3. ClientsOK'
  BY <1>2 DEF Inv, ClientsOK, InboxIsOpen
<1>4. StopOK'
  BY <1>2 DEF StopOK, StatusIsTrue, StopFoundTurn, Running
<1>5. QED
  BY <1>1, <1>3, <1>4 DEF Inv

\* The steps of turns.
LEMMA TurnsStep ==
  ASSUME Inv, TakeLock \/ TurnStep \/ Unwind \/ \E j \in Job : Fire(j)
  PROVE  Inv'
<1> USE DEF clientVars, counters
<1>1. CASE TakeLock
  <2>1. LineOK' /\ current' \in Actor
    BY <1>1, TakeLockLine DEF Inv
  <2>2. /\ holder[Main] = NoOne /\ Calm /\ status' = "thinking..."
        /\ UNCHANGED <<cancelled, auto, task, conn, inbox, page, cut, sent, clicks, fired>>
    BY <1>1 DEF TakeLock, Grant, BeginTurn
  <2>3. ClientsOK'
    BY <2>2 DEF Inv, ClientsOK, InboxIsOpen
  <2>4. AutoOK'
    BY <2>2, AutoKept
  <2>5. ~Stopping /\ ~Stopping' /\ ~cancelled
    BY <2>2 DEF Calm, Stopping, Inv, LineOK, OneTurn, StopOK, StopFoundTurn
  <2>6. current' = holder'[Main] /\ current' # NoOne
    BY <2>1, SessionAssumption DEF LineOK, OneTurn
  <2>7. StopOK'
    BY <2>2, <2>5, <2>6 DEF Inv, StopOK, StatusIsTrue, StopFoundTurn, Running
  <2>8. QED
    BY <2>1, <2>3, <2>4, <2>7 DEF Inv
<1>2. CASE Continue
  <2>1. UNCHANGED <<lineVars, cancelled, task, conn, inbox, page, cut, sent, clicks, fired>>
    BY <1>2 DEF Continue
  <2>2. LineOK' /\ StopOK'
    BY <2>1, LineKept, StopKept DEF Inv, Stopping
  <2>3. ClientsOK'
    BY <2>1 DEF Inv, ClientsOK, InboxIsOpen
  <2>4. AutoOK'
    <3>1. /\ auto \in [on : BOOLEAN, left : 0 .. MaxBudget, by : Client \cup {NoOne}]
          /\ auto.on /\ auto.left > 1 /\ auto.left \in 0 .. MaxBudget
          /\ auto' = [auto EXCEPT !.left = auto.left - 1]
      BY <1>2 DEF Continue, Inv, AutoOK
    <3>2. auto.left - 1 \in 0 .. MaxBudget /\ auto.left - 1 > 0
      BY <3>1, SessionAssumption
    <3>3. auto'.on = auto.on /\ auto'.by = auto.by /\ auto'.left = auto.left - 1
      BY <3>1
    <3>4. auto' \in [on : BOOLEAN, left : 0 .. MaxBudget, by : Client \cup {NoOne}]
      BY <3>1, <3>2
    <3>5. QED
      BY <2>1, <3>1, <3>2, <3>3, <3>4 DEF Inv, AutoOK, AutoHasBudget, AutoHasStarter
  <2>5. QED
    BY <2>2, <2>3, <2>4 DEF Inv
<1>3. CASE Finish \/ Unwind
  <2>1. EndTurn /\ current # NoOne /\ auto' = Off
    BY <1>3 DEF Finish, Unwind, Running, Inv, StopOK, StopFoundTurn
  <2>2. QED
    BY <2>1, AutoOff, EndTurnStep
<1>4. CASE Fail
  <2>1. EndTurn /\ current # NoOne /\ auto' = auto /\ conn' = conn
    BY <1>4 DEF Fail, Running, EndTurn
  <2>2. QED
    BY <2>1, AutoKept, EndTurnStep
<1>5. ASSUME NEW j \in Job, Fire(j) PROVE Inv'
  <2>1. /\ j \in Actor /\ task[j] = "reading" /\ Enter(j) /\ fired' = fired + 1
        /\ UNCHANGED <<auto, conn, inbox, page, cut, sent, clicks>>
    BY <1>5 DEF Fire, Actor
  <2>2. LineOK' /\ StopOK'
    BY <2>1, EnterStep
  <2>3. ClientsOK'
    BY <2>1 DEF Inv, ClientsOK, InboxIsOpen
  <2>4. AutoOK'
    BY <2>1, AutoKept
  <2>5. QED
    BY <2>2, <2>3, <2>4 DEF Inv
<1>6. QED
  BY <1>1, <1>2, <1>3, <1>4, <1>5 DEF TurnStep

-----------------------------------------------------------------------------
\* The invariant holds in every reachable state of a session.
THEOREM Reachable == Spec => []Inv
<1>1. Inv /\ [Next]_vars => Inv'
  <2> SUFFICES ASSUME Inv, [Next]_vars PROVE Inv'
    OBVIOUS
  <2>1. ASSUME NEW c \in Client,
               \/ Attach(c) \/ Vanish(c) \/ Click(c) \/ SendInterrupt(c)
               \/ \E m \in Typed : Put(c, m)
        PROVE  Inv'
    BY <2>1, ClientStep
  <2>2. ASSUME NEW c \in Client, Handler(c) \/ Request(c) PROVE Inv'
    BY <2>2, HandlerStep, StopStep DEF Handler, Request
  <2>3. CASE TakeLock \/ TurnStep \/ Unwind \/ \E j \in Job : Fire(j)
    BY <2>3, TurnsStep
  <2>4. CASE UNCHANGED vars
    <3>1. UNCHANGED <<lineVars, cancelled, auto, task, conn, inbox, page, cut, sent, clicks, fired>>
      BY <2>4 DEF vars, clientVars, counters
    <3>2. LineOK' /\ StopOK' /\ AutoOK'
      BY <3>1, LineKept, StopKept, AutoKept DEF Inv, Stopping
    <3>3. ClientsOK'
      BY <3>1 DEF Inv, ClientsOK, InboxIsOpen
    <3>4. QED
      BY <3>2, <3>3 DEF Inv
  <2>5. QED
    BY <2>1, <2>2, <2>3, <2>4 DEF Next
<1>2. QED
  BY <1>1, InitInv, PTL DEF Spec

\* One turn at a time: the registered task is that of the holder of the lock, and
\* whoever is in a turn holds the lock or is in line for it, once.
THEOREM OneTurnAtATime == Spec => [](TypeOK /\ OneTurn)
BY Reachable, InvGives, PTL

\* The status that clients are shown is true.
THEOREM StatusHolds == Spec => []StatusIsTrue
BY Reachable, InvGives, PTL

\* Auto mode never outlives its budget, nor the client who switched it on.
THEOREM AutoIsBounded == Spec => []AutoIsOwned
BY Reachable, InvGives, PTL DEF AutoIsOwned

-----------------------------------------------------------------------------
(* The session implements TurnQueue.                                        *)

\* Sequences: adding to the end of a line behind a first one, and what is left when the
\* first one goes.
LEMMA BehindTheFirst ==
  ASSUME NEW S, NEW h \in S, NEW q \in Seq(S), NEW a \in S
  PROVE  /\ <<h>> \o Append(q, a) = Append(<<h>> \o q, a)
         /\ Tail(<<h>> \o q) = q
         /\ <<h>> \o q # <<>>
<1>1. <<h>> \in Seq(S) /\ Append(q, a) \in Seq(S) /\ <<h>> \o q \in Seq(S)
  OBVIOUS
<1>2. <<h>> \o Append(q, a) = Append(<<h>> \o q, a)
  <2>1. /\ Len(<<h>> \o Append(q, a)) = Len(q) + 2
        /\ Len(Append(<<h>> \o q, a)) = Len(q) + 2
    BY <1>1
  <2>2. \A i \in 1 .. Len(q) + 2 : (<<h>> \o Append(q, a))[i] = Append(<<h>> \o q, a)[i]
    BY <1>1
  <2>3. QED
    BY <1>1, <2>1, <2>2, SeqEqual
<1>3. Tail(<<h>> \o q) = q
  <2>1. Tail(<<h>> \o q) \in Seq(S) /\ Len(Tail(<<h>> \o q)) = Len(q)
    BY <1>1
  <2>2. \A i \in 1 .. Len(q) : Tail(<<h>> \o q)[i] = q[i]
    BY <1>1
  <2>3. QED
    BY <2>1, <2>2, SeqEqual
<1>4. QED
  BY <1>1, <1>2, <1>3

\* A line is its head before its tail.
LEMMA HeadAndTail ==
  ASSUME NEW S, NEW q \in Seq(S), q # <<>>
  PROVE  <<Head(q)>> \o Tail(q) = q
<1>1. Head(q) \in S /\ Tail(q) \in Seq(S) /\ Len(q) \in Nat \ {0}
  OBVIOUS
<1>2. <<Head(q)>> \o Tail(q) \in Seq(S) /\ Len(<<Head(q)>> \o Tail(q)) = Len(q)
  BY <1>1
<1>3. \A i \in 1 .. Len(q) : (<<Head(q)>> \o Tail(q))[i] = q[i]
  BY <1>1
<1>4. QED
  BY <1>2, <1>3, SeqEqual

\* An actor that is not in a turn is not in the line.
LEMMA NotWaiting ==
  ASSUME LineOK, NEW a \in Actor, task[a] = "reading"
  PROVE  ~Queue!Waits(a)
<1>1. holder[Main] # a /\ ~InLine(Main, a)
  BY DEF LineOK, OneTurn
<1>2. waiters[Main] \in Seq(Actor) /\ holder[Main] \in Actor \cup {NoOne}
  BY SessionAssumption DEF LineOK
<1>3. CASE holder[Main] = NoOne
  BY <1>1, <1>3 DEF Line, InLine, Queue!Waits
<1>4. CASE holder[Main] # NoOne
  <2>1. SUFFICES ASSUME NEW i \in DOMAIN Line, Line[i] = a PROVE FALSE
    BY DEF Queue!Waits
  <2>2. Line = <<holder[Main]>> \o waiters[Main] /\ holder[Main] \in Actor
    BY <1>2, <1>4 DEF Line
  <2>3. i \in 1 .. Len(waiters[Main]) + 1
    BY <1>2, <2>2
  <2>4. i = 1 \/ (i - 1 \in 1 .. Len(waiters[Main]) /\ Line[i] = waiters[Main][i - 1])
    BY <1>2, <2>2, <2>3
  <2>5. Line[1] = holder[Main]
    BY <1>2, <2>2
  <2>6. QED
    BY <1>1, <1>2, <2>1, <2>4, <2>5 DEF InLine
<1>5. QED
  BY <1>3, <1>4

\* Who enters a turn joins the line at its end.
LEMMA EnterJoins ==
  ASSUME LineOK, NEW a \in Actor, task[a] = "reading", Enter(a)
  PROVE  Queue!Join(a)
<1> waiters[Main] \in Seq(Actor) /\ holder[Main] \in Actor \cup {NoOne} /\ a # NoOne
  BY SessionAssumption DEF LineOK
<1>1. ~Queue!Waits(a)
  BY NotWaiting
<1>2. Acquire(Main, a) /\ Main \in Session
  BY SessionAssumption DEF Enter
<1>3. Line' = Append(Line, a)
  <2>1. CASE Uncontended(Main)
    <3>1. holder'[Main] = a /\ waiters' = waiters
      BY <1>2, <2>1 DEF Acquire, LineOK
    <3>2. holder[Main] = NoOne /\ waiters[Main] = <<>>
      BY <2>1 DEF Uncontended
    <3>3. Line' = <<a>> \o <<>> /\ Line = <<>>
      BY <3>1, <3>2 DEF Line
    <3>4. QED
      BY <3>3
  <2>2. CASE ~Uncontended(Main)
    <3>1. holder' = holder /\ waiters'[Main] = Append(waiters[Main], a)
      BY <1>2, <2>2 DEF Acquire, LineOK
    <3>2. CASE holder[Main] = NoOne
      BY <3>1, <3>2 DEF Line
    <3>3. CASE holder[Main] # NoOne
      BY <3>1, <3>3, BehindTheFirst DEF Line
    <3>4. QED
      BY <3>2, <3>3
  <2>3. QED
    BY <2>1, <2>2
<1>4. QED
  BY <1>1, <1>3 DEF Queue!Join

\* The hand-over of the lock changes nothing in the line.
LEMMA TakeLockStutters ==
  ASSUME LineOK, TakeLock
  PROVE  Line' = Line
<1>1. /\ waiters[Main] \in Seq(Actor) /\ waiters[Main] # <<>> /\ holder[Main] = NoOne
      /\ holder'[Main] = Head(waiters[Main]) /\ waiters'[Main] = Tail(waiters[Main])
  BY SessionAssumption DEF LineOK, TakeLock, Grant
<1>2. Head(waiters[Main]) # NoOne
  BY <1>1, SessionAssumption
<1>3. QED
  BY <1>1, <1>2, HeadAndTail DEF Line

\* The end of a turn takes the first one out of the line.
LEMMA EndTurnServes ==
  ASSUME LineOK, current # NoOne, EndTurn
  PROVE  Queue!Served
<1>1. /\ waiters[Main] \in Seq(Actor) /\ holder[Main] \in Actor
      /\ holder'[Main] = NoOne /\ waiters' = waiters
  BY SessionAssumption DEF LineOK, OneTurn, EndTurn, Release
<1>2. Line = <<holder[Main]>> \o waiters[Main] /\ Line' = waiters[Main]
  BY <1>1, SessionAssumption DEF Line
<1>3. QED
  BY <1>1, <1>2, BehindTheFirst DEF Queue!Served

\* A session serves its inputs one at a time and in the order in which they came.
THEOREM InOrder == Spec => ServesInOrder
<1>1. Init => Queue!Init
  BY SessionAssumption DEF Init, LockInit, Line, Queue!Init
<1>2. Inv /\ [Next]_vars => [Queue!Next]_Line
  <2> SUFFICES ASSUME Inv, [Next]_vars PROVE Queue!Next \/ Line' = Line
    OBVIOUS
  <2>1. LineOK /\ (\A c \in Client : c \in Actor) /\ (\A j \in Job : j \in Actor)
    BY DEF Inv, Actor
  <2>2. ASSUME NEW a \in Actor, task[a] = "reading", Enter(a) PROVE Queue!Next
    BY <2>1, <2>2, EnterJoins DEF Queue!Next
  <2>3. ASSUME UNCHANGED <<holder, waiters>> PROVE Line' = Line
    BY <2>3 DEF Line
  <2>4. ASSUME NEW c \in Client,
               \/ Attach(c) \/ Vanish(c) \/ Click(c) \/ SendInterrupt(c)
               \/ \E m \in Typed : Put(c, m)
        PROVE  Line' = Line
    BY <2>3, <2>4 DEF Attach, Vanish, Click, SendInterrupt, Put, lineVars
  <2>5. ASSUME NEW c \in Client, HandleInput(c) PROVE Queue!Next
    BY <2>1, <2>2, <2>5 DEF HandleInput, Reads
  <2>6. ASSUME NEW c \in Client,
               \/ HandleAuto(c) \/ HandleOff(c) \/ Interrupt(c) \/ InterruptEnds(c) \/ Leave(c)
               \/ Request(c)
        PROVE  Line' = Line
    BY <2>3, <2>6 DEF HandleAuto, HandleOff, Interrupt, InterruptEnds, Leave, Request,
                      RestStop, RestStopEnds, StopEnds, lineVars
  <2>7. ASSUME NEW j \in Job, Fire(j) PROVE Queue!Next
    BY <2>1, <2>2, <2>7 DEF Fire
  <2>8. CASE TakeLock
    BY <2>1, <2>8, TakeLockStutters
  <2>9. CASE Continue
    BY <2>3, <2>9 DEF Continue, lineVars
  <2>10. CASE Finish \/ Fail \/ Unwind
    <3>1. EndTurn /\ current # NoOne
      BY <2>10 DEF Finish, Fail, Unwind, Running, Inv, StopOK, StopFoundTurn
    <3>2. QED
      BY <2>1, <3>1, EndTurnServes DEF Queue!Next
  <2>11. CASE UNCHANGED vars
    BY <2>3, <2>11 DEF vars, lineVars
  <2>12. QED
    BY <2>4, <2>5, <2>6, <2>7, <2>8, <2>9, <2>10, <2>11 DEF Next, Handler, TurnStep
<1>3. QED
  BY <1>1, <1>2, Reachable, PTL DEF Spec, ServesInOrder, Queue!Spec
=============================================================================
