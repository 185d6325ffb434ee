--------------------------- MODULE InputLockProofs ---------------------------
(***************************************************************************)
(* Lemmas about the input lock, for whatever set A of tasks competes for   *)
(* it.                                                                     *)
(***************************************************************************)
EXTENDS Integers, InputLock, TLAPS

\* Entering the lock keeps its two variables well-typed.
LEMMA AcquireType ==
  ASSUME NEW A, NEW s \in Session, NEW p \in A,
         holder \in [Session -> A \cup {NoOne}],
         waiters \in [Session -> Seq(A)],
         Acquire(s, p)
  PROVE  /\ holder' \in [Session -> A \cup {NoOne}]
         /\ waiters' \in [Session -> Seq(A)]
<1>1. CASE Uncontended(s)
  BY <1>1 DEF Acquire
<1>2. CASE ~Uncontended(s)
  <2>1. Append(waiters[s], p) \in Seq(A)
    OBVIOUS
  <2>2. QED
    BY <1>2, <2>1 DEF Acquire
<1>3. QED
  BY <1>1, <1>2

\* Granting it to the first waiter keeps them well-typed.
LEMMA GrantType ==
  ASSUME NEW A, NEW s \in Session,
         holder \in [Session -> A \cup {NoOne}],
         waiters \in [Session -> Seq(A)],
         Grant(s)
  PROVE  /\ Head(waiters[s]) \in A
         /\ holder' \in [Session -> A \cup {NoOne}]
         /\ waiters' \in [Session -> Seq(A)]
<1>1. waiters[s] \in Seq(A) /\ waiters[s] # <<>>
  BY DEF Grant
<1>2. Head(waiters[s]) \in A /\ Tail(waiters[s]) \in Seq(A)
  BY <1>1
<1>3. QED
  BY <1>2 DEF Grant

-----------------------------------------------------------------------------
(* Who is in line.                                                          *)

\* Whoever enters the lock and does not get it is in line after it, and the line of
\* no other session changes.
LEMMA AcquireLine ==
  ASSUME NEW A, NEW s \in Session, NEW p \in A,
         waiters \in [Session -> Seq(A)],
         \A r \in Session : InLineOnce(r),
         ~InLine(s, p),
         Acquire(s, p)
  PROVE  \A r \in Session :
           /\ InLineOnce(r)'
           /\ \A q : InLine(r, q)' <=> InLine(r, q) \/ (r = s /\ q = p /\ ~Uncontended(s))
<1> SUFFICES ASSUME NEW r \in Session
             PROVE  /\ InLineOnce(r)'
                    /\ \A q : InLine(r, q)'
                               <=> InLine(r, q) \/ (r = s /\ q = p /\ ~Uncontended(s))
  OBVIOUS
<1>1. CASE r = s /\ ~Uncontended(s)
  <2>1. /\ waiters[s] \in Seq(A) /\ Len(waiters[s]) \in Nat
        /\ DOMAIN waiters[s] = 1 .. Len(waiters[s])
    OBVIOUS
  <2>2. waiters'[s] = Append(waiters[s], p)
    BY <1>1 DEF Acquire
  <2>3. /\ DOMAIN waiters'[s] = 1 .. Len(waiters[s]) + 1
        /\ waiters'[s][Len(waiters[s]) + 1] = p
        /\ \A i \in 1 .. Len(waiters[s]) : waiters'[s][i] = waiters[s][i]
    BY <2>1, <2>2
  <2>4. InLineOnce(s)'
    BY <2>1, <2>3 DEF InLineOnce, InLine
  <2>5. ASSUME NEW q PROVE InLine(s, q)' <=> InLine(s, q) \/ q = p
    <3>1. ASSUME InLine(s, q)' PROVE InLine(s, q) \/ q = p
      <4>1. PICK i \in 1 .. Len(waiters[s]) + 1 : waiters'[s][i] = q
        BY <2>3, <3>1 DEF InLine
      <4>2. i = Len(waiters[s]) + 1 \/ i \in 1 .. Len(waiters[s])
        BY <2>1
      <4>3. QED
        BY <2>1, <2>3, <4>1, <4>2 DEF InLine
    <3>2. ASSUME InLine(s, q) PROVE InLine(s, q)'
      <4>1. PICK i \in 1 .. Len(waiters[s]) : waiters[s][i] = q
        BY <2>1, <3>2 DEF InLine
      <4>2. i \in DOMAIN waiters'[s] /\ waiters'[s][i] = q
        BY <2>1, <2>3, <4>1
      <4>3. QED
        BY <4>2 DEF InLine
    <3>3. ASSUME q = p PROVE InLine(s, q)'
      <4>1. Len(waiters[s]) + 1 \in DOMAIN waiters'[s]
        BY <2>1, <2>3
      <4>2. QED
        BY <2>3, <3>3, <4>1 DEF InLine
    <3>4. QED
      BY <3>1, <3>2, <3>3
  <2>6. QED
    BY <1>1, <2>4, <2>5
<1>2. CASE r # s \/ Uncontended(s)
  <2>1. waiters'[r] = waiters[r]
    BY <1>2 DEF Acquire
  <2>2. QED
    BY <1>2, <2>1 DEF InLineOnce, InLine
<1>3. QED
  BY <1>1, <1>2

\* The one that is granted the lock leaves the line, and nobody else does.
LEMMA GrantLine ==
  ASSUME NEW A, NEW s \in Session,
         waiters \in [Session -> Seq(A)],
         \A r \in Session : InLineOnce(r),
         Grant(s)
  PROVE  /\ InLine(s, Head(waiters[s]))
         /\ \A r \in Session :
              /\ InLineOnce(r)'
              /\ \A q : InLine(r, q)' <=> InLine(r, q) /\ ~(r = s /\ q = Head(waiters[s]))
<1>1. /\ waiters[s] \in Seq(A) /\ waiters[s] # <<>> /\ Len(waiters[s]) \in Nat \ {0}
      /\ DOMAIN waiters[s] = 1 .. Len(waiters[s]) /\ Head(waiters[s]) = waiters[s][1]
  BY DEF Grant
<1>2. InLine(s, Head(waiters[s]))
  BY <1>1 DEF InLine
<1>3. ASSUME NEW r \in Session, r # s
      PROVE  InLineOnce(r)' /\ \A q : InLine(r, q)' <=> InLine(r, q)
  BY <1>3 DEF Grant, InLineOnce, InLine
<1>4. InLineOnce(s)' /\ \A q : InLine(s, q)' <=> InLine(s, q) /\ q # Head(waiters[s])
  <2>1. waiters'[s] = Tail(waiters[s])
    BY DEF Grant
  <2>2. /\ DOMAIN waiters'[s] = 1 .. Len(waiters[s]) - 1
        /\ \A i \in 1 .. Len(waiters[s]) - 1 : waiters'[s][i] = waiters[s][i + 1]
    BY <1>1, <2>1
  <2>. \A i, k \in 1 .. Len(waiters[s]) : waiters[s][i] = waiters[s][k] => i = k
    BY <1>1 DEF InLineOnce
  <2>3. InLineOnce(s)'
    <3>1. SUFFICES ASSUME NEW i \in 1 .. Len(waiters[s]) - 1,
                          NEW k \in 1 .. Len(waiters[s]) - 1,
                          waiters'[s][i] = waiters'[s][k]
                   PROVE  i = k
      BY <2>2 DEF InLineOnce
    <3>2. /\ i + 1 \in 1 .. Len(waiters[s]) /\ k + 1 \in 1 .. Len(waiters[s])
          /\ waiters[s][i + 1] = waiters[s][k + 1]
      BY <1>1, <2>2, <3>1
    <3>3. i + 1 = k + 1
      BY <3>2
    <3>4. QED
      BY <3>3
  <2>4. ASSUME NEW q, InLine(s, q)' PROVE InLine(s, q) /\ q # Head(waiters[s])
    <3>1. PICK i \in 1 .. Len(waiters[s]) - 1 : waiters[s][i + 1] = q
      BY <2>2, <2>4 DEF InLine
    <3>2. i + 1 \in 1 .. Len(waiters[s]) /\ i + 1 # 1 /\ 1 \in 1 .. Len(waiters[s])
      BY <1>1
    <3>3. QED
      BY <1>1, <3>1, <3>2 DEF InLine
  <2>5. ASSUME NEW q, InLine(s, q), q # Head(waiters[s]) PROVE InLine(s, q)'
    <3>1. PICK i \in 2 .. Len(waiters[s]) : waiters[s][i] = q
      BY <1>1, <2>5 DEF InLine
    <3>2. i - 1 \in 1 .. Len(waiters[s]) - 1 /\ waiters'[s][i - 1] = q
      BY <1>1, <2>2, <3>1
    <3>3. QED
      BY <2>2, <3>2 DEF InLine
  <2>6. QED
    BY <2>3, <2>4, <2>5
<1>5. QED
  BY <1>2, <1>3, <1>4
=============================================================================
