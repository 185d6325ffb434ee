------------------------------ MODULE KeepProofs ------------------------------
(***************************************************************************)
(* What is kept is kept, for every number of processes, names, events and  *)
(* calls: the login that processes share (CodexAuth), the chats of the     *)
(* daemon's sessions (SessionStore), the one daemon (DaemonControl), the   *)
(* words and snapshots on their way to a client (EventFeed), the tool      *)
(* calls of a run (ToolLog), the candles and lists of the websocket        *)
(* clients (MarketBridge), the memory and skill files (Knowledge), and the *)
(* books of the paper portfolio (Portfolio).                               *)
(***************************************************************************)
EXTENDS CodexAuth, SessionStore, DaemonControl, EventFeed, ToolLog, MarketBridge, Knowledge,
        Portfolio, FiniteSetTheorems, SequenceTheorems, TLAPS

-----------------------------------------------------------------------------
\* The login. Tokens are numbered as they are issued, and the issuer accepts the last;
\* while it is on its way to the file no one else holds it.
AuthTyped ==
  /\ issued \in Nat /\ accepted = issued /\ authFile \in Nat /\ authFile <= issued
  /\ build \in [Builders -> [at : {"idle", "refresh", "save"}, token : Nat]]
  /\ \A b \in Builders : build[b].token <= issued

Settled == authFile = accepted /\ \A b \in Builders : build[b].at # "save"
OnItsWay ==
  \E b \in Builders :
    /\ build[b].at = "save" /\ build[b].token = accepted /\ authFile < accepted
    /\ \A c \in Builders \ {b} : build[c].at # "save" /\ (build[c].at = "refresh" => build[c].token < accepted)
AuthInv == AuthTyped /\ (~lost => Settled \/ OnItsWay)

LEMMA AuthStart == AuthInit => AuthInv
  BY DEF AuthInit, AuthInv, AuthTyped, Settled

LEMMA AuthStep == AuthInv /\ [AuthNext]_authvars => AuthInv'
<1> SUFFICES ASSUME AuthInv, [AuthNext]_authvars PROVE AuthInv'
  OBVIOUS
<1> USE DEF AuthTyped, Settled, OnItsWay, Moves, Ends0
<1>1. ASSUME NEW b \in Builders, Load(b) PROVE AuthInv'
  BY <1>1 DEF AuthInv, Load
<1>2. ASSUME NEW b \in Builders, Refresh(b) PROVE AuthInv'
  BY <1>2 DEF AuthInv, Refresh, Issued0
<1>3. ASSUME NEW b \in Builders, Save(b) PROVE AuthInv'
  BY <1>3 DEF AuthInv, Save
<1>4. ASSUME NEW b \in Builders, Killed(b) PROVE AuthInv'
  <2>1. AuthTyped'
    BY <1>4 DEF AuthInv, Killed
  <2>2. ~lost' => ~lost /\ build[b].at # "save"
    BY <1>4, Zenon DEF Killed
  <2>3. Settled /\ build[b].at # "save" => Settled'
    BY <1>4 DEF AuthInv, Killed
  <2>4. OnItsWay /\ build[b].at # "save" => OnItsWay'
    BY <1>4 DEF AuthInv, Killed
  <2>5. QED
    BY <2>1, <2>2, <2>3, <2>4, Zenon DEF AuthInv
<1>5. ASSUME Login PROVE AuthInv'
  BY <1>5 DEF AuthInv, Login, Issued0
<1>6. ASSUME Expires PROVE AuthInv'
  BY <1>6 DEF AuthInv, Expires
<1>7. CASE UNCHANGED authvars
  BY <1>7 DEF AuthInv, authvars
<1>8. QED
  BY <1>1, <1>2, <1>3, <1>4, <1>5, <1>6, <1>7 DEF AuthNext

\* The shared login survives any number of processes that refresh it at once, unless an
\* answer was lost or a builder killed (agent/codex_auth.py:189).
THEOREM LoginIsKept == AuthSpec => []LoginSurvives
<1>1. AuthInv => LoginSurvives
  BY DEF AuthInv, AuthTyped, Settled, OnItsWay, LoginSurvives, Saving
<1>2. QED
  BY <1>1, AuthStart, AuthStep, PTL DEF AuthSpec

-----------------------------------------------------------------------------
\* The chats. Of a name that no two objects in use have shared, at most one object is
\* live: the one in the table, or the one that clients and turns still hold.
Chats == [name : SessionNames, chat : SUBSET Nat]
StoreTyped ==
  /\ objects \in Seq(Chats) /\ begun \in Nat
  /\ table \in [SessionNames -> 0 .. Len(objects)] /\ holds \in [Holders -> 0 .. Len(objects)]
  /\ files \in [SessionNames -> [here : BOOLEAN, chat : SUBSET Nat]]
  /\ kept \in [SessionNames -> SUBSET Nat] /\ deletes \subseteq SessionNames
  /\ turns \subseteq [obj : 1 .. Len(objects), turn : Nat, runs : BOOLEAN]

Live(n, o) == objects[o].name = n /\ (InUse(o) \/ table[n] = o)
TableNamed == \A n \in SessionNames : table[n] # 0 => objects[table[n]].name = n
OneLive ==
  \A n \in SessionNames \ shared : \A o, p \in DOMAIN objects : Live(n, o) /\ Live(n, p) => o = p
FileIsIn ==
  \A n \in SessionNames \ shared : \A o \in DOMAIN objects :
    Live(n, o) => files[n].chat \subseteq objects[o].chat
TurnIsIn == \A t \in turns : t.runs => t.turn \in objects[t.obj].chat
KeptIsThere ==
  \A n \in SessionNames \ shared :
    kept[n] # {} => files[n].here /\ n \in index /\ kept[n] \subseteq files[n].chat
StoreInv == StoreTyped /\ TableNamed /\ OneLive /\ FileIsIn /\ TurnIsIn /\ KeptIsThere

LEMMA StoreStart == StoreInit => StoreInv
  BY StoreAssumption DEF StoreInit, StoreInv, StoreTyped, TableNamed, OneLive, FileIsIn, TurnIsIn,
     KeptIsThere, Live, InUse, NoFile, Chats

LEMMA NamesAreNames == \A raw \in SessionNames \cup Spellings : NameOf(raw) \in SessionNames
  BY StoreAssumption DEF NameOf

\* get_or_create_session, with what its callers leave alone.
LEMMA Got ==
  ASSUME StoreInv, NEW raw \in SessionNames \cup Spellings, NEW create \in BOOLEAN,
         GetOrCreate(raw, create)
  PROVE  /\ objects' \in Seq(Chats) /\ Len(objects) <= Len(objects')
         /\ \A o \in DOMAIN objects : o \in DOMAIN objects' /\ objects'[o] = objects[o]
         /\ table' \in [SessionNames -> 0 .. Len(objects')]
         /\ Object(raw) \in DOMAIN objects' /\ objects'[Object(raw)].name = NameOf(raw)
         /\ table'[NameOf(raw)] = Object(raw)
         /\ \A n \in SessionNames \ {NameOf(raw)} : table'[n] = table[n]
         /\ shared \subseteq shared'
         /\ TableNamed'
<1>1. CASE IsOpen(raw)
  <2>1. UNCHANGED <<objects, table, shared>>
    BY <1>1 DEF GetOrCreate
  <2>2. raw \in SessionNames /\ NameOf(raw) = raw /\ Object(raw) = table[raw] /\ table[raw] # 0
    BY <1>1 DEF IsOpen, NameOf, Object
  <2>3. QED
    BY <2>1, <2>2 DEF StoreInv, StoreTyped, TableNamed
<1>2. CASE ~IsOpen(raw)
  <2> DEFINE n == NameOf(raw)
  <2>1. n \in SessionNames /\ Object(raw) = Len(objects) + 1
    BY <1>2, NamesAreNames DEF Object
  <2>2. /\ objects' = Append(objects, [name |-> n, chat |-> files[n].chat])
        /\ table' = [table EXCEPT ![n] = Len(objects) + 1]
        /\ shared \subseteq shared'
    BY <1>2 DEF GetOrCreate, Loaded
  <2>3. [name |-> n, chat |-> files[n].chat] \in Chats
    BY <2>1 DEF StoreInv, StoreTyped, Chats
  <2>4. QED
    BY <2>1, <2>2, <2>3 DEF StoreInv, StoreTyped, TableNamed
<1>3. QED
  BY <1>1, <1>2

LEMMA GotOne ==
  ASSUME StoreInv, NEW raw \in SessionNames \cup Spellings, NEW create \in BOOLEAN,
         GetOrCreate(raw, create), NameOf(raw) \notin shared'
  PROVE  /\ \A o \in DOMAIN objects :
              objects[o].name = NameOf(raw) /\ InUse(o) => o = Object(raw)
         /\ files[NameOf(raw)].chat \subseteq objects'[Object(raw)].chat
<1> DEFINE n == NameOf(raw)
<1>1. n \in SessionNames
  BY NamesAreNames
<1>2. CASE IsOpen(raw)
  <2>1. UNCHANGED <<objects, table, shared>>
    BY <1>2 DEF GetOrCreate
  <2>2. raw \in SessionNames /\ n = raw /\ Object(raw) = table[raw] /\ table[raw] # 0
    BY <1>2 DEF IsOpen, NameOf, Object
  <2>3. Live(n, table[n]) /\ table[n] \in DOMAIN objects /\ n \notin shared
    BY <1>1, <2>1, <2>2 DEF Live, StoreInv, StoreTyped, TableNamed
  <2>4. QED
    BY <1>1, <2>1, <2>2, <2>3 DEF StoreInv, OneLive, FileIsIn, Live
<1>3. CASE ~IsOpen(raw)
  <2>1. Object(raw) = Len(objects) + 1
    BY <1>3 DEF Object
  <2>2. /\ objects' = Append(objects, [name |-> n, chat |-> files[n].chat])
        /\ shared' = shared \cup {m \in {n} : \E o \in DOMAIN objects : objects[o].name = m /\ InUse(o)}
    BY <1>3 DEF GetOrCreate, Loaded
  <2>3. objects'[Object(raw)].chat = files[n].chat
    BY <2>1, <2>2 DEF StoreInv, StoreTyped
  <2>4. QED
    BY <2>2, <2>3
<1>4. QED
  BY <1>2, <1>3

LEMMA GotLive ==
  ASSUME StoreInv, NEW raw \in SessionNames \cup Spellings, NEW create \in BOOLEAN,
         GetOrCreate(raw, create),
         \A o \in DOMAIN objects' : InUse(o)' => (o \in DOMAIN objects /\ InUse(o)) \/ o = Object(raw)
  PROVE  /\ OneLive'
         /\ \A n \in SessionNames \ shared' : \A o \in DOMAIN objects' :
              Live(n, o)' => files[n].chat \subseteq objects'[o].chat
<1> DEFINE m == NameOf(raw)
<1>1. m \in SessionNames
  BY NamesAreNames
<1>2. ASSUME NEW n \in SessionNames \ shared', NEW o \in DOMAIN objects', Live(n, o)'
      PROVE  IF n = m THEN o = Object(raw) ELSE o \in DOMAIN objects /\ Live(n, o)
  <2>1. objects'[o].name = n /\ (InUse(o)' \/ table'[n] = o)
    BY <1>2 DEF Live
  <2>2. CASE n = m
    BY <2>1, <2>2, Got, GotOne
  <2>3. CASE n # m
    <3>1. o # Object(raw)
      BY <2>1, <2>3, Got
    <3>2. CASE InUse(o)'
      BY <2>1, <3>1, <3>2, <2>3, Got DEF Live
    <3>3. CASE table'[n] = o
      <4>1. table[n] = o /\ o # 0
        BY <2>3, <3>3, Got DEF StoreInv, StoreTyped
      <4>2. QED
        BY <2>3, <4>1 DEF StoreInv, StoreTyped, TableNamed, Live
    <3>4. QED
      BY <2>1, <3>2, <3>3
  <2>4. QED
    BY <2>2, <2>3
<1>3. OneLive'
  BY <1>2, Got DEF StoreInv, OneLive
<1>4. ASSUME NEW n \in SessionNames \ shared', NEW o \in DOMAIN objects', Live(n, o)'
      PROVE  files[n].chat \subseteq objects'[o].chat
  <2>1. CASE n = m
    BY <1>2, <1>4, <2>1, GotOne
  <2>2. CASE n # m
    <3>1. o \in DOMAIN objects /\ Live(n, o) /\ n \notin shared
      BY <1>2, <1>4, <2>2, Got
    <3>2. QED
      BY <3>1, Got DEF StoreInv, FileIsIn
  <2>3. QED
    BY <2>1, <2>2
<1>5. QED
  BY <1>3, <1>4

\* Sessions that turns and clients use are objects; what uses them changes in few ways.
LEMMA OpenedKeeps ==
  ASSUME StoreInv, NEW raw \in SessionNames \cup Spellings, NEW create \in BOOLEAN,
         GetOrCreate(raw, create), UNCHANGED <<turns, begun, deletes, kept>>,
         holds' \in [Holders -> 0 .. Len(objects')],
         \A c \in Holders : holds'[c] = holds[c] \/ holds'[c] = Object(raw),
         index \subseteq index',
         \/ files' = files
         \/ Saves(objects'[Object(raw)])
  PROVE  StoreInv'
<1> DEFINE m == NameOf(raw) s == objects'[Object(raw)]
<1>1. m \in SessionNames
  BY NamesAreNames
<1>2. ASSUME NEW o \in DOMAIN objects', InUse(o)'
      PROVE  (o \in DOMAIN objects /\ InUse(o)) \/ o = Object(raw)
  <2>1. o \in Nat \ {0}
    BY Got DEF StoreInv, StoreTyped
  <2>2. CASE \E c \in Holders : holds'[c] = o
    BY <2>1, <2>2 DEF StoreInv, StoreTyped, InUse
  <2>3. CASE \E t \in turns : t.obj = o
    BY <2>3 DEF StoreInv, StoreTyped, InUse
  <2>4. QED
    BY <1>2, <2>2, <2>3 DEF InUse
<1>3. /\ OneLive'
      /\ \A n \in SessionNames \ shared' : \A o \in DOMAIN objects' :
           Live(n, o)' => files[n].chat \subseteq objects'[o].chat
  BY <1>2, GotLive
<1>4. s \in Chats /\ s.name = m
  BY Got
<1>5. \/ files' = files
      \/ files' = [files EXCEPT ![m] = [here |-> TRUE, chat |-> s.chat]] /\ m \in index'
  BY <1>4 DEF Saves, Writes
<1>6. StoreTyped'
  <2>1. files' \in [SessionNames -> [here : BOOLEAN, chat : SUBSET Nat]]
    <3>1. s.chat \in SUBSET Nat
      BY <1>4 DEF Chats
    <3>2. CASE files' = files
      BY <3>2 DEF StoreInv, StoreTyped
    <3>3. CASE files' = [files EXCEPT ![m] = [here |-> TRUE, chat |-> s.chat]]
      <4> HIDE DEF m, s
      <4>1. QED
        BY <1>1, <3>1, <3>3 DEF StoreInv, StoreTyped
    <3>4. QED
      BY <1>5, <3>2, <3>3
  <2>2. turns' \subseteq [obj : 1 .. Len(objects'), turn : Nat, runs : BOOLEAN]
    BY Got DEF StoreInv, StoreTyped
  <2>3. QED
    BY <2>1, <2>2, Got DEF StoreInv, StoreTyped
<1>7. FileIsIn'
  <2> SUFFICES ASSUME NEW n \in SessionNames \ shared', NEW o \in DOMAIN objects', Live(n, o)'
               PROVE  files'[n].chat \subseteq objects'[o].chat
    BY DEF FileIsIn
  <2>1. CASE files'[n] = files[n]
    BY <2>1, <1>3
  <2>2. CASE n = m /\ files'[n] = [here |-> TRUE, chat |-> s.chat]
    <3>1. PICK k \in DOMAIN objects' : k = Object(raw)
      BY Got
    <3>2. Live(n, k)'
      BY <2>2, <3>1, Got DEF Live
    <3>3. QED
      BY <2>2, <3>1, <3>2, <1>3 DEF OneLive
  <2>3. QED
    BY <1>1, <1>5, <2>1, <2>2 DEF StoreInv, StoreTyped
<1>8. TurnIsIn'
  <2> SUFFICES ASSUME NEW t \in turns, t.runs PROVE t.turn \in objects'[t.obj].chat
    BY DEF TurnIsIn
  <2>1. t.obj \in DOMAIN objects
    BY DEF StoreInv, StoreTyped
  <2>2. t.turn \in objects[t.obj].chat
    BY DEF StoreInv, TurnIsIn
  <2>3. QED
    BY <2>1, <2>2, Got
<1>9. KeptIsThere'
  <2> SUFFICES ASSUME NEW n \in SessionNames \ shared', kept[n] # {}
               PROVE  files'[n].here /\ n \in index' /\ kept[n] \subseteq files'[n].chat
    BY DEF KeptIsThere
  <2>1. files[n].here /\ n \in index /\ kept[n] \subseteq files[n].chat
    BY Got DEF StoreInv, KeptIsThere
  <2>2. CASE files'[n] = files[n]
    BY <2>1, <2>2
  <2>3. CASE n = m /\ files'[n] = [here |-> TRUE, chat |-> s.chat]
    BY <2>1, <2>3, GotOne
  <2>4. QED
    BY <1>1, <1>5, <2>2, <2>3 DEF StoreInv, StoreTyped
<1>10. QED
  BY <1>3, <1>6, <1>7, <1>8, <1>9, Got DEF StoreInv

LEMMA TurnOf ==
  ASSUME StoreInv, NEW t \in turns
  PROVE  /\ t.obj \in DOMAIN objects /\ t.turn \in Nat /\ InUse(t.obj)
         /\ objects[t.obj].name \in SessionNames /\ objects[t.obj].chat \in SUBSET Nat
<1>1. t.obj \in 1 .. Len(objects) /\ t.turn \in Nat /\ objects \in Seq(Chats)
  BY DEF StoreInv, StoreTyped
<1>2. t.obj \in DOMAIN objects /\ objects[t.obj] \in Chats
  BY <1>1
<1>3. QED
  BY <1>1, <1>2 DEF Chats, InUse

\* What only lets go of objects, saves a turn that runs, or removes a file.
LEMMA LetGoKeeps ==
  ASSUME StoreInv, UNCHANGED <<objects, shared, begun>>, turns' \subseteq turns,
         deletes' \subseteq SessionNames,
         table' \in [SessionNames -> 0 .. Len(objects)], holds' \in [Holders -> 0 .. Len(objects)],
         \A n \in SessionNames : table'[n] = 0 \/ table'[n] = table[n],
         \A c \in Holders : holds'[c] = 0 \/ holds'[c] = holds[c],
         files' \in [SessionNames -> [here : BOOLEAN, chat : SUBSET Nat]],
         kept' \in [SessionNames -> SUBSET Nat],
         \A n \in SessionNames :
           \/ files'[n] = files[n] /\ kept'[n] = kept[n] /\ (n \in index => n \in index')
           \/ kept'[n] = {} /\ files'[n] = NoFile
           \/ \E t \in turns :
                /\ t.runs /\ objects[t.obj].name = n
                /\ files'[n] = [here |-> TRUE, chat |-> objects[t.obj].chat]
                /\ \/ kept'[n] = kept[n] /\ (n \in index => n \in index')
                   \/ kept'[n] = kept[n] \cup {t.turn} /\ n \in index'
  PROVE  StoreInv'
<1>1. StoreTyped'
  BY DEF StoreInv, StoreTyped
<1>2. \A o \in DOMAIN objects : InUse(o)' => InUse(o)
  BY DEF InUse, StoreInv, StoreTyped
<1>3. \A n \in SessionNames, o \in DOMAIN objects : Live(n, o)' => Live(n, o)
  BY <1>2 DEF Live, StoreInv, StoreTyped
<1>4. TableNamed' /\ OneLive' /\ TurnIsIn'
  BY <1>3 DEF StoreInv, TableNamed, OneLive, TurnIsIn
<1>5. ASSUME NEW n \in SessionNames \ shared, NEW t \in turns, objects[t.obj].name = n
      PROVE  /\ t.obj \in DOMAIN objects /\ Live(n, t.obj)
             /\ files[n].chat \subseteq objects[t.obj].chat
  BY <1>5, TurnOf DEF StoreInv, FileIsIn, Live
<1>6. FileIsIn'
  <2> SUFFICES ASSUME NEW n \in SessionNames \ shared, NEW o \in DOMAIN objects, Live(n, o)'
               PROVE  files'[n].chat \subseteq objects[o].chat
    BY DEF FileIsIn
  <2>1. Live(n, o) /\ files[n].chat \subseteq objects[o].chat
    BY <1>3 DEF StoreInv, FileIsIn
  <2>2. ASSUME NEW t \in turns, objects[t.obj].name = n PROVE t.obj = o
    BY <1>5, <2>1, <2>2 DEF StoreInv, OneLive
  <2>3. QED
    BY <2>1, <2>2 DEF NoFile
<1>7. KeptIsThere'
  <2> SUFFICES ASSUME NEW n \in SessionNames \ shared, kept'[n] # {}
               PROVE  files'[n].here /\ n \in index' /\ kept'[n] \subseteq files'[n].chat
    BY DEF KeptIsThere
  <2>1. kept[n] # {} => files[n].here /\ n \in index /\ kept[n] \subseteq files[n].chat
    BY DEF StoreInv, KeptIsThere
  <2>2. CASE files'[n] = files[n] /\ kept'[n] = kept[n] /\ (n \in index => n \in index')
    BY <2>1, <2>2
  <2>3. ASSUME NEW t \in turns, t.runs, objects[t.obj].name = n,
               files'[n] = [here |-> TRUE, chat |-> objects[t.obj].chat],
               \/ kept'[n] = kept[n] /\ (n \in index => n \in index')
               \/ kept'[n] = kept[n] \cup {t.turn} /\ n \in index'
        PROVE  files'[n].here /\ n \in index' /\ kept'[n] \subseteq files'[n].chat
    <3>1. files[n].chat \subseteq objects[t.obj].chat /\ t.turn \in objects[t.obj].chat
      BY <1>5, <2>3 DEF StoreInv, TurnIsIn
    <3>2. QED
      BY <2>1, <2>3, <3>1
  <2>4. QED
    BY <2>2, <2>3
<1>8. QED
  BY <1>1, <1>4, <1>6, <1>7 DEF StoreInv

LEMMA StoreStep == StoreInv /\ [StoreNext]_storevars => StoreInv'
<1> SUFFICES ASSUME StoreInv, [StoreNext]_storevars PROVE StoreInv'
  OBVIOUS
<1>1. ASSUME NEW raw \in SessionNames \cup Spellings, NEW c \in Holders, NEW create \in BOOLEAN,
             Attach(c, raw, create)
      PROVE  StoreInv'
  <2>1. /\ GetOrCreate(raw, create) /\ UNCHANGED <<turns, begun, deletes, kept, files>>
        /\ index \subseteq index' /\ holds' = [holds EXCEPT ![c] = Object(raw)]
    BY <1>1 DEF Attach, Touched
  <2>2. holds' \in [Holders -> 0 .. Len(objects')]
    BY <2>1, Got DEF StoreInv, StoreTyped
  <2>3. \A d \in Holders : holds'[d] = holds[d] \/ holds'[d] = Object(raw)
    BY <2>1 DEF StoreInv, StoreTyped
  <2>4. QED
    BY <2>1, <2>2, <2>3, OpenedKeeps
<1>2. ASSUME NEW raw \in SessionNames \cup Spellings, View(raw) \/ Update(raw) \/ Create(raw)
      PROVE  StoreInv'
  <2>1. PICK name \in SessionNames \cup Spellings, create \in BOOLEAN :
          /\ GetOrCreate(name, create) /\ UNCHANGED <<turns, begun, deletes, kept, holds>>
          /\ index \subseteq index' /\ (files' = files \/ Saves(objects'[Object(name)]))
    <3>1. CASE View(raw) \/ Update(raw)
      BY <3>1 DEF View, Update, Touched, Saves
    <3>2. CASE Create(raw)
      BY <3>2, NamesAreNames DEF Create, Saves
    <3>3. QED
      BY <1>2, <3>1, <3>2
  <2>2. holds' \in [Holders -> 0 .. Len(objects')]
    BY <2>1, Got DEF StoreInv, StoreTyped
  <2>3. QED
    BY <2>1, <2>2, OpenedKeeps
<1>3. ASSUME NEW c \in Holders, Detach(c) PROVE StoreInv'
  BY <1>3, LetGoKeeps DEF Detach, StoreInv, StoreTyped
<1>4. ASSUME NEW c \in Holders, RunInput(c) PROVE StoreInv'
  <2> DEFINE new == [obj |-> holds[c], turn |-> begun + 1, runs |-> FALSE]
  <2>1. /\ holds[c] # 0 /\ begun' = begun + 1 /\ turns' = turns \cup {new}
        /\ UNCHANGED <<objects, table, files, index, holds, deletes, kept, shared>>
    BY <1>4 DEF RunInput
  <2>2. new \in [obj : 1 .. Len(objects), turn : Nat, runs : BOOLEAN]
    BY <2>1 DEF StoreInv, StoreTyped
  <2>3. StoreTyped'
    BY <2>1, <2>2 DEF StoreInv, StoreTyped
  <2>4. \A o : InUse(o)' => InUse(o)
    BY <2>1 DEF InUse
  <2>5. \A n \in SessionNames, o \in DOMAIN objects : Live(n, o)' => Live(n, o)
    BY <2>1, <2>4 DEF Live
  <2>6. TurnIsIn'
    BY <2>1 DEF StoreInv, TurnIsIn
  <2>7. QED
    BY <2>1, <2>3, <2>5, <2>6 DEF StoreInv, TableNamed, OneLive, FileIsIn, KeptIsThere
<1>5. ASSUME NEW t \in turns, TurnStarts(t) PROVE StoreInv'
  <2> DEFINE started == [t EXCEPT !.runs = TRUE]
  <2>1. /\ turns' = (turns \ {t}) \cup {started}
        /\ objects' = [objects EXCEPT ![t.obj].chat = @ \cup {t.turn}]
        /\ UNCHANGED <<table, files, index, holds, begun, deletes, kept, shared>>
    BY <1>5 DEF TurnStarts
  <2>2. t.obj \in DOMAIN objects /\ t.turn \in Nat /\ started.obj = t.obj /\ started.turn = t.turn
    BY DEF StoreInv, StoreTyped
  <2>3. /\ objects' \in Seq(Chats) /\ Len(objects') = Len(objects)
        /\ DOMAIN objects' = DOMAIN objects
        /\ \A o \in DOMAIN objects :
             objects'[o].name = objects[o].name /\ objects[o].chat \subseteq objects'[o].chat
        /\ t.turn \in objects'[t.obj].chat
    <3> DEFINE said == [objects[t.obj] EXCEPT !.chat = @ \cup {t.turn}]
    <3>1. objects' = [objects EXCEPT ![t.obj] = said] /\ objects \in Seq(Chats)
      BY <2>1 DEF StoreInv, StoreTyped
    <3>2. /\ objects[t.obj] \in Chats /\ said \in Chats /\ said.name = objects[t.obj].name
          /\ said.chat = objects[t.obj].chat \cup {t.turn}
      <4>1. objects[t.obj] \in Chats
        BY <2>2, <3>1
      <4>2. t.turn \in Nat
        BY <2>2
      <4>3. QED
        BY <4>1, <4>2 DEF Chats
    <3> HIDE DEF said
    <3>3. objects' \in Seq(Chats) /\ Len(objects') = Len(objects) /\ DOMAIN objects' = DOMAIN objects
      BY <2>2, <3>1, <3>2
    <3>4. QED
      BY <2>2, <3>1, <3>2, <3>3
  <2>4. StoreTyped'
    BY <2>1, <2>2, <2>3 DEF StoreInv, StoreTyped
  <2>5. \A o : InUse(o)' <=> InUse(o)
    BY <2>1, <2>2 DEF InUse
  <2>6. \A n \in SessionNames, o \in DOMAIN objects : Live(n, o)' <=> Live(n, o)
    BY <2>1, <2>3, <2>5 DEF Live
  <2>7. TurnIsIn'
    BY <2>1, <2>2, <2>3 DEF StoreInv, StoreTyped, TurnIsIn
  <2>8. TableNamed' /\ OneLive' /\ KeptIsThere'
    BY <2>1, <2>3, <2>6 DEF StoreInv, StoreTyped, TableNamed, OneLive, KeptIsThere
  <2>9. FileIsIn'
    BY <2>1, <2>3, <2>6 DEF StoreInv, FileIsIn
  <2>10. QED
    BY <2>4, <2>7, <2>8, <2>9 DEF StoreInv
<1>6. ASSUME NEW t \in turns, TurnEnds(t) PROVE StoreInv'
  <2> DEFINE o == t.obj
             m == objects[o].name
  <2>1. /\ o \in DOMAIN objects /\ m \in SessionNames
        /\ objects[o].chat \in SUBSET Nat /\ t.turn \in Nat
    BY TurnOf
  <2>2. /\ t.runs /\ turns' \subseteq turns
        /\ UNCHANGED <<objects, table, holds, begun, deletes, shared>>
    BY <1>6 DEF TurnEnds
  <2>3. CASE UNCHANGED <<files, index, kept>>
    BY <2>2, <2>3, LetGoKeeps DEF StoreInv, StoreTyped
  <2>4. CASE Saves(objects[o]) /\ kept' = [kept EXCEPT ![m] = @ \cup {t.turn}]
    <3>1. /\ files' = [files EXCEPT ![m] = [here |-> TRUE, chat |-> objects[o].chat]]
          /\ index' = index \cup {m}
      BY <2>4 DEF Saves, Writes
    <3>2. /\ files' \in [SessionNames -> [here : BOOLEAN, chat : SUBSET Nat]]
          /\ kept' \in [SessionNames -> SUBSET Nat]
          /\ files'[m] = [here |-> TRUE, chat |-> objects[o].chat] /\ kept'[m] = kept[m] \cup {t.turn}
          /\ \A n \in SessionNames \ {m} : files'[n] = files[n] /\ kept'[n] = kept[n]
      <4> HIDE DEF m, o
      <4>1. QED
        BY <2>1, <2>4, <3>1 DEF StoreInv, StoreTyped
    <3>3. QED
      BY <2>1, <2>2, <3>1, <3>2, LetGoKeeps DEF StoreInv, StoreTyped
  <2>5. QED
    BY <1>6, <2>3, <2>4 DEF TurnEnds
<1>7. ASSUME NEW n \in SessionNames, Removed(n),
             UNCHANGED <<objects, holds, turns, begun, shared>>, deletes' \subseteq SessionNames,
             table' = [table EXCEPT ![n] = 0] \/ table' = table
      PROVE  StoreInv'
  <2>1. /\ files' = [files EXCEPT ![n] = NoFile] /\ index' = index \ {n}
        /\ kept' = [kept EXCEPT ![n] = {}]
    BY <1>7 DEF Removed
  <2>2. /\ files' \in [SessionNames -> [here : BOOLEAN, chat : SUBSET Nat]]
        /\ kept' \in [SessionNames -> SUBSET Nat] /\ kept'[n] = {} /\ files'[n] = NoFile
        /\ \A m \in SessionNames \ {n} : files'[m] = files[m] /\ kept'[m] = kept[m]
    BY <2>1 DEF StoreInv, StoreTyped, NoFile
  <2>3. /\ table' \in [SessionNames -> 0 .. Len(objects)] /\ holds' \in [Holders -> 0 .. Len(objects)]
        /\ \A m \in SessionNames : table'[m] = 0 \/ table'[m] = table[m]
    BY <1>7 DEF StoreInv, StoreTyped
  <2>4. QED
    BY <1>7, <2>1, <2>2, <2>3, LetGoKeeps
<1>8. ASSUME NEW raw \in SessionNames \cup Spellings, Delete(raw) PROVE StoreInv'
  <2> DEFINE n == NameOf(raw)
  <2>1. n \in SessionNames
    BY NamesAreNames
  <2>2. /\ table' = [table EXCEPT ![n] = 0] /\ UNCHANGED <<objects, holds, turns, begun, shared>>
        /\ UNCHANGED <<files, index, kept>> \/ Removed(n)
        /\ deletes' \subseteq SessionNames
    BY <1>8, <2>1 DEF Delete, StoreInv, StoreTyped
  <2>3. CASE UNCHANGED <<files, index, kept>>
    BY <2>1, <2>2, <2>3, LetGoKeeps DEF StoreInv, StoreTyped
  <2>4. QED
    BY <1>7, <2>1, <2>2, <2>3
<1>9. ASSUME NEW n \in SessionNames, DeleteEnds(n) PROVE StoreInv'
  BY <1>7, <1>9 DEF DeleteEnds, StoreInv, StoreTyped
<1>10. ASSUME Kill PROVE StoreInv'
  <2>1. /\ table' = [n \in SessionNames |-> 0] /\ holds' = [c \in Holders |-> 0] /\ turns' = {} /\ deletes' = {}
        /\ UNCHANGED <<objects, index, begun, shared>>
        /\ \/ UNCHANGED <<files, kept>>
           \/ \E t \in turns : t.runs /\ Writes(objects[t.obj]) /\ UNCHANGED kept
           \/ \E n \in SessionNames :
                files' = [files EXCEPT ![n] = NoFile] /\ kept' = [kept EXCEPT ![n] = {}]
    BY <1>10 DEF Kill, StoreInv, StoreTyped
  <2>2. /\ table' \in [SessionNames -> 0 .. Len(objects)] /\ holds' \in [Holders -> 0 .. Len(objects)]
        /\ \A n \in SessionNames : table'[n] = 0
        /\ \A c \in Holders : holds'[c] = 0
    BY <2>1 DEF StoreInv, StoreTyped
  <2>3. CASE UNCHANGED <<files, kept>>
    BY <2>1, <2>2, <2>3, LetGoKeeps DEF StoreInv, StoreTyped
  <2>4. ASSUME NEW t \in turns, t.runs, Writes(objects[t.obj]), UNCHANGED kept PROVE StoreInv'
    <3> DEFINE o == t.obj
               m == objects[o].name
    <3>1. o \in DOMAIN objects /\ m \in SessionNames /\ objects[o].chat \in SUBSET Nat
      BY TurnOf
    <3>2. files' = [files EXCEPT ![m] = [here |-> TRUE, chat |-> objects[o].chat]]
      BY <2>4 DEF Writes
    <3>3. /\ files' \in [SessionNames -> [here : BOOLEAN, chat : SUBSET Nat]]
          /\ files'[m] = [here |-> TRUE, chat |-> objects[o].chat]
          /\ \A n \in SessionNames \ {m} : files'[n] = files[n]
      <4> HIDE DEF m, o
      <4>1. QED
        BY <3>1, <3>2 DEF StoreInv, StoreTyped
    <3>4. QED
      BY <2>1, <2>2, <2>4, <3>1, <3>3, LetGoKeeps DEF StoreInv, StoreTyped
  <2>5. ASSUME NEW n \in SessionNames,
               files' = [files EXCEPT ![n] = NoFile], kept' = [kept EXCEPT ![n] = {}]
        PROVE  StoreInv'
    BY <2>1, <2>2, <2>5, LetGoKeeps DEF NoFile, StoreInv, StoreTyped
  <2>6. QED
    BY <2>1, <2>3, <2>4, <2>5
<1>11. CASE UNCHANGED storevars
  BY <1>11, LetGoKeeps DEF storevars, StoreInv, StoreTyped
<1>12. QED
  BY <1>1, <1>2, <1>3, <1>4, <1>5, <1>6, <1>8, <1>9, <1>10, <1>11 DEF StoreNext

\* What has been said is kept, for any clients, jobs, names and spellings: the file of a
\* session that was never used through two objects at once holds every turn that ended
\* and was saved since the last delete (daemon/server.py:653, :1278).
THEOREM ChatsStay == StoreSpec => []ChatsAreKept
<1>1. StoreInv => ChatsAreKept
  <2> SUFFICES ASSUME StoreInv, NEW n \in SessionNames \ shared
               PROVE  /\ kept[n] # {} => files[n].here /\ n \in index /\ kept[n] \subseteq files[n].chat
                      /\ table[n] # 0 => files[n].chat \subseteq objects[table[n]].chat
    BY DEF ChatsAreKept
  <2>1. kept[n] # {} => files[n].here /\ n \in index /\ kept[n] \subseteq files[n].chat
    BY DEF StoreInv, KeptIsThere
  <2>2. ASSUME table[n] # 0 PROVE files[n].chat \subseteq objects[table[n]].chat
    <3>1. table[n] \in DOMAIN objects /\ Live(n, table[n])
      BY <2>2 DEF StoreInv, StoreTyped, TableNamed, Live
    <3>2. QED
      BY <3>1 DEF StoreInv, FileIsIn
  <2>3. QED
    BY <2>1, <2>2
<1>2. QED
  BY <1>1, StoreStart, StoreStep, PTL DEF StoreSpec

-----------------------------------------------------------------------------
\* The daemon. With one command at a time, each point of a command says which daemons
\* can be alive there: the one that the pid file names, the one it has started, or none.
Ats == {"idle", "start", "look", "clear", "spawn", "wait", "write", "stop", "stale",
        "term", "kill", "forget"}
Process == [st : States, parent : Callers \cup {"init"}]
ControlTyped ==
  /\ daemons \in Seq(Process) /\ pidFile \in 0 .. Len(daemons)
  /\ command \in [Callers -> [at : Ats, pid : Nat]]

OneCommand == \A c, d \in Busy : c = d
NoneLives == \A p \in DOMAIN daemons : ~Alive(p)
OnlyLives(q, S) == \A p \in DOMAIN daemons : Alive(p) => p = q /\ daemons[p].st \in S
Known(at, p) ==
  /\ at \in {"idle", "start", "look", "stop"} => OnlyLives(pidFile, {"serving"})
  /\ at \in {"spawn", "clear", "stale", "forget", "kill"} => NoneLives
  /\ at = "wait" => OnlyLives(p, {"starting", "serving"})
  /\ at = "write" => OnlyLives(p, {"serving"})
  /\ at = "term" => OnlyLives(p, {"stopping"})
  /\ at \in {"wait", "write", "term", "kill"} => p \in DOMAIN daemons
  /\ at \in {"term", "kill", "forget"} => p = pidFile
ControlInv ==
  /\ ControlTyped /\ OneCommand
  /\ Busy = {} => Known("idle", 0)
  /\ \A c \in Busy : Known(command[c].at, command[c].pid)

LEMMA ControlStart == ControlInit => ControlInv
<1> SUFFICES ASSUME ControlInit PROVE ControlInv
  OBVIOUS
<1>1. Busy = {}
  BY DEF ControlInit, Busy
<1>2. daemons = << >> /\ pidFile = 0 /\ command = [c \in Callers |-> [at |-> "idle", pid |-> 0]]
  BY DEF ControlInit
<1>3. daemons \in Seq(Process) /\ Len(daemons) = 0 /\ DOMAIN daemons = {}
  BY <1>2
<1>4. ControlTyped
  BY <1>2, <1>3 DEF ControlTyped, Ats
<1>5. QED
  BY <1>1, <1>3, <1>4 DEF ControlInv, OneCommand, Known, OnlyLives

LEMMA NobodyElse ==
  ASSUME AtOnce = 1, IsFiniteSet(Callers), Cardinality(Busy) < AtOnce
  PROVE  Busy = {}
<1>1. IsFiniteSet(Busy)
  BY FS_Subset DEF Busy
<1>2. Cardinality(Busy) \in Nat
  BY <1>1, FS_CardinalityType
<1>3. QED
  BY <1>1, <1>2, FS_EmptySet

\* A caller that is busy is the only one, and knows who lives.
LEMMA Alone ==
  ASSUME ControlInv, NEW c \in Callers, command[c].at # "idle"
  PROVE  Busy = {c} /\ Known(command[c].at, command[c].pid)
  BY DEF ControlInv, OneCommand, Busy

\* It goes on, or is idle again, and what it knows then holds.
LEMMA Onward ==
  ASSUME ControlTyped, NEW c \in Callers, Busy \subseteq {c}, NEW at \in Ats, NEW p \in Nat,
         command' = [command EXCEPT ![c] = [at |-> at, pid |-> p]],
         daemons' \in Seq(Process), pidFile' \in 0 .. Len(daemons'),
         Known(at, p)'
  PROVE  ControlInv'
<1>1. /\ command' \in [Callers -> [at : Ats, pid : Nat]]
      /\ command'[c].at = at /\ command'[c].pid = p
      /\ \A d \in Callers \ {c} : command'[d].at = "idle"
  BY DEF ControlTyped, Busy
<1>2. ControlTyped'
  BY <1>1 DEF ControlTyped
<1>3. Busy' = IF at = "idle" THEN {} ELSE {c}
  BY <1>1 DEF Busy
<1>4. Busy' = {} => Known("idle", 0)'
  BY <1>3 DEF Known
<1>5. QED
  BY <1>1, <1>2, <1>3, <1>4 DEF ControlInv, OneCommand

\* A process changes its state and nothing else.
LEMMA WithIs ==
  ASSUME daemons \in Seq(Process), NEW p \in DOMAIN daemons, NEW st \in States,
         daemons' = With(p, st)
  PROVE  /\ daemons' \in Seq(Process) /\ Len(daemons') = Len(daemons)
         /\ DOMAIN daemons' = DOMAIN daemons
         /\ \A q \in DOMAIN daemons : daemons'[q].st = IF q = p THEN st ELSE daemons[q].st
<1>1. daemons[p] \in Process
  OBVIOUS
<1>2. [daemons[p] EXCEPT !.st = st] \in Process /\ [daemons[p] EXCEPT !.st = st].st = st
  BY <1>1 DEF Process
<1>3. QED
  BY <1>2 DEF With

LEMMA EndsAsState == ASSUME NEW p PROVE EndOf(p) \in States
  BY DEF EndOf, States

LEMMA CommandStep ==
  ASSUME ControlInv, NEW c \in Callers,
         \/ CheckHealth(c) \/ LookAtPid(c) \/ ClearStale(c) \/ Spawn(c) \/ WaitForHealth(c)
         \/ StartTimeout(c) \/ WritePid(c) \/ ReadPid(c) \/ RemoveStale(c) \/ SeesItEnd(c)
         \/ ForgetPid(c) \/ StopTimeout(c)
  PROVE  ControlInv'
<1> USE DEF Alive, PidIsRunning, Goes, Says
<1>0. /\ daemons \in Seq(Process) /\ DOMAIN daemons = 1 .. Len(daemons) /\ Len(daemons) \in Nat
      /\ pidFile \in 0 .. Len(daemons) /\ pidFile \in Nat /\ command[c].pid \in Nat
      /\ 0 \in 0 .. Len(daemons) /\ Len(daemons) + 1 \in Nat
      /\ ControlTyped
      /\ \A p \in DOMAIN daemons : daemons[p].st \in States
  <2>1. ControlTyped
    BY DEF ControlInv
  <2>2. \A p \in DOMAIN daemons : daemons[p] \in Process
    BY <2>1 DEF ControlTyped
  <2>3. QED
    BY <2>1, <2>2 DEF ControlTyped, Process
<1>1. CASE CheckHealth(c)
  <2>1. Busy = {c} /\ Known(command[c].at, command[c].pid)
    BY <1>1, Alone DEF CheckHealth
  <2>2. CASE Healthy
    <3>1. UNCHANGED daemons /\ Len(daemons') = Len(daemons)
      BY <1>0, <1>1, <2>1, <2>2 DEF CheckHealth
    <3>2. command' = [command EXCEPT ![c] = [at |-> "look", pid |-> 0]]
      BY <1>0, <1>1, <2>1, <2>2 DEF CheckHealth
    <3>3. daemons' \in Seq(Process) /\ pidFile' \in 0 .. Len(daemons')
      BY <1>0, <1>1, <2>1, <2>2, <3>1 DEF CheckHealth, Known
    <3>4. \A a, p : a = "look" /\ p = 0 => Known(a, p)'
      BY <1>0, <1>1, <2>1, <2>2, <3>1 DEF CheckHealth, Known, OnlyLives, NoneLives, Healthy
    <3>5. QED
      BY <1>0, <2>1, <3>2, <3>3, <3>4, Onward DEF Ats, Known
  <2>3. CASE ~Healthy
    <3>1. UNCHANGED daemons /\ Len(daemons') = Len(daemons)
      BY <1>0, <1>1, <2>1, <2>3 DEF CheckHealth
    <3>2. command' = [command EXCEPT ![c] = [at |-> "spawn", pid |-> 0]]
      BY <1>0, <1>1, <2>1, <2>3 DEF CheckHealth
    <3>3. daemons' \in Seq(Process) /\ pidFile' \in 0 .. Len(daemons')
      BY <1>0, <1>1, <2>1, <2>3, <3>1 DEF CheckHealth, Known
    <3>4. \A a, p : a = "spawn" /\ p = 0 => Known(a, p)'
      BY <1>0, <1>1, <2>1, <2>3, <3>1 DEF CheckHealth, Known, OnlyLives, NoneLives, Healthy
    <3>5. QED
      BY <1>0, <2>1, <3>2, <3>3, <3>4, Onward DEF Ats, Known
  <2>4. QED
    BY <1>1, <2>2, <2>3 DEF CheckHealth
<1>2. CASE LookAtPid(c)
  <2>1. Busy = {c} /\ Known(command[c].at, command[c].pid)
    BY <1>2, Alone DEF LookAtPid
  <2>2. CASE pidFile # 0 /\ ~PidIsRunning(pidFile)
    <3>1. UNCHANGED daemons /\ Len(daemons') = Len(daemons)
      BY <1>0, <1>2, <2>1, <2>2 DEF LookAtPid
    <3>2. command' = [command EXCEPT ![c] = [at |-> "clear", pid |-> pidFile]]
      BY <1>0, <1>2, <2>1, <2>2 DEF LookAtPid
    <3>3. daemons' \in Seq(Process) /\ pidFile' \in 0 .. Len(daemons')
      BY <1>0, <1>2, <2>1, <2>2, <3>1 DEF LookAtPid, Known
    <3>4. \A a, p : a = "clear" /\ p = pidFile => Known(a, p)'
      BY <1>0, <1>2, <2>1, <2>2, <3>1 DEF LookAtPid, Known, OnlyLives, NoneLives
    <3>5. QED
      BY <1>0, <2>1, <3>2, <3>3, <3>4, Onward DEF Ats, Known
  <2>3. CASE ~(pidFile # 0 /\ ~PidIsRunning(pidFile))
    <3>1. UNCHANGED daemons /\ Len(daemons') = Len(daemons)
      BY <1>0, <1>2, <2>1, <2>3 DEF LookAtPid
    <3>2. command' = [command EXCEPT ![c] = [at |-> "idle", pid |-> 0]]
      BY <1>0, <1>2, <2>1, <2>3 DEF LookAtPid
    <3>3. daemons' \in Seq(Process) /\ pidFile' \in 0 .. Len(daemons')
      BY <1>0, <1>2, <2>1, <2>3, <3>1 DEF LookAtPid, Known
    <3>4. \A a, p : a = "idle" /\ p = 0 => Known(a, p)'
      BY <1>0, <1>2, <2>1, <2>3, <3>1 DEF LookAtPid, Known, OnlyLives, NoneLives
    <3>5. QED
      BY <1>0, <2>1, <3>2, <3>3, <3>4, Onward DEF Ats, Known
  <2>4. QED
    BY <1>2, <2>2, <2>3 DEF LookAtPid
<1>3. CASE ClearStale(c)
  <2>1. Busy = {c} /\ Known(command[c].at, command[c].pid)
    BY <1>3, Alone DEF ClearStale
  <2>2. UNCHANGED daemons /\ Len(daemons') = Len(daemons)
    BY <1>0, <1>3, <2>1 DEF ClearStale
  <2>3. command' = [command EXCEPT ![c] = [at |-> "idle", pid |-> 0]]
    BY <1>0, <1>3, <2>1 DEF ClearStale
  <2>4. daemons' \in Seq(Process) /\ pidFile' \in 0 .. Len(daemons')
    BY <1>0, <1>3, <2>1, <2>2 DEF ClearStale, Known
  <2>5. \A a, p : a = "idle" /\ p = 0 => Known(a, p)'
    BY <1>0, <1>3, <2>1, <2>2 DEF ClearStale, Known, OnlyLives, NoneLives
  <2>6. QED
    BY <1>0, <2>1, <2>3, <2>4, <2>5, Onward DEF Ats, Known
<1>4. CASE Spawn(c)
  <2>1. Busy = {c} /\ Known(command[c].at, command[c].pid)
    BY <1>4, Alone DEF Spawn
  <2>2. /\ daemons' \in Seq(Process) /\ Len(daemons') = Len(daemons) + 1
        /\ \A q \in DOMAIN daemons : daemons'[q] = daemons[q]
    BY <1>0, <1>4, <2>1 DEF Spawn, Process, States
  <2>3. command' = [command EXCEPT ![c] = [at |-> "wait", pid |-> Len(daemons) + 1]]
    BY <1>0, <1>4, <2>1 DEF Spawn
  <2>4. daemons' \in Seq(Process) /\ pidFile' \in 0 .. Len(daemons')
    BY <1>0, <1>4, <2>1, <2>2 DEF Spawn, Known
  <2>5. \A a, p : a = "wait" /\ p = Len(daemons) + 1 => Known(a, p)'
    BY <1>0, <1>4, <2>1, <2>2 DEF Spawn, Known, OnlyLives, NoneLives
  <2>6. QED
    BY <1>0, <2>1, <2>3, <2>4, <2>5, Onward DEF Ats, Known
<1>5. CASE WaitForHealth(c)
  <2>1. Busy = {c} /\ Known(command[c].at, command[c].pid)
    BY <1>5, Alone DEF WaitForHealth
  <2>2. CASE Healthy
    <3>1. UNCHANGED daemons /\ Len(daemons') = Len(daemons)
      BY <1>0, <1>5, <2>1, <2>2 DEF WaitForHealth
    <3>2. command' = [command EXCEPT ![c] = [at |-> "write", pid |-> command[c].pid]]
      BY <1>0, <1>5, <2>1, <2>2 DEF WaitForHealth
    <3>3. daemons' \in Seq(Process) /\ pidFile' \in 0 .. Len(daemons')
      BY <1>0, <1>5, <2>1, <2>2, <3>1 DEF WaitForHealth, Known
    <3>4. \A a, p : a = "write" /\ p = command[c].pid => Known(a, p)'
      BY <1>0, <1>5, <2>1, <2>2, <3>1 DEF WaitForHealth, Known, OnlyLives, NoneLives, Healthy
    <3>5. QED
      BY <1>0, <2>1, <3>2, <3>3, <3>4, Onward DEF Ats, Known
  <2>3. CASE ~Healthy
    <3>1. command[c].pid \in DOMAIN daemons
      BY <1>0, <1>5, <2>1, <2>3 DEF WaitForHealth, Known
    <3>2. ("gone") \in States
      BY <1>0, <1>5, <2>1, <2>3, <3>1 DEF States
    <3>3. daemons' = With(command[c].pid, "gone")
      BY <1>0, <1>5, <2>1, <2>3 DEF WaitForHealth
    <3>4. /\ daemons' \in Seq(Process) /\ Len(daemons') = Len(daemons)
          /\ DOMAIN daemons' = DOMAIN daemons
          /\ \A r \in DOMAIN daemons :
               daemons'[r].st = IF r = command[c].pid THEN "gone"
                                ELSE daemons[r].st
      BY <1>0, <3>1, <3>2, <3>3, WithIs
    <3>5. command' = [command EXCEPT ![c] = [at |-> "idle", pid |-> 0]]
      BY <1>0, <1>5, <2>1, <2>3 DEF WaitForHealth
    <3>6. daemons' \in Seq(Process) /\ pidFile' \in 0 .. Len(daemons')
      BY <1>0, <1>5, <2>1, <2>3, <3>1, <3>4 DEF WaitForHealth, Known
    <3>7. \A a, p : a = "idle" /\ p = 0 => Known(a, p)'
      BY <1>0, <1>5, <2>1, <2>3, <3>1, <3>4 DEF WaitForHealth, Known, OnlyLives, NoneLives, Healthy
    <3>8. QED
      BY <1>0, <2>1, <3>5, <3>6, <3>7, Onward DEF Ats, Known
  <2>4. QED
    BY <1>5, <2>2, <2>3 DEF WaitForHealth
<1>6. CASE StartTimeout(c)
  <2>1. Busy = {c} /\ Known(command[c].at, command[c].pid)
    BY <1>6, Alone DEF StartTimeout
  <2>2. command[c].pid \in DOMAIN daemons
    BY <1>0, <1>6, <2>1 DEF StartTimeout, Known
  <2>3. ("gone") \in States
    BY <1>0, <1>6, <2>1, <2>2 DEF States
  <2>4. daemons' = With(command[c].pid, "gone")
    BY <1>0, <1>6, <2>1 DEF StartTimeout
  <2>5. /\ daemons' \in Seq(Process) /\ Len(daemons') = Len(daemons)
        /\ DOMAIN daemons' = DOMAIN daemons
        /\ \A r \in DOMAIN daemons :
             daemons'[r].st = IF r = command[c].pid THEN "gone"
                              ELSE daemons[r].st
    BY <1>0, <2>2, <2>3, <2>4, WithIs
  <2>6. command' = [command EXCEPT ![c] = [at |-> "idle", pid |-> 0]]
    BY <1>0, <1>6, <2>1 DEF StartTimeout
  <2>7. daemons' \in Seq(Process) /\ pidFile' \in 0 .. Len(daemons')
    BY <1>0, <1>6, <2>1, <2>2, <2>5 DEF StartTimeout, Known
  <2>8. \A a, p : a = "idle" /\ p = 0 => Known(a, p)'
    BY <1>0, <1>6, <2>1, <2>2, <2>5 DEF StartTimeout, Known, OnlyLives, NoneLives
  <2>9. QED
    BY <1>0, <2>1, <2>6, <2>7, <2>8, Onward DEF Ats, Known
<1>7. CASE WritePid(c)
  <2>1. Busy = {c} /\ Known(command[c].at, command[c].pid)
    BY <1>7, Alone DEF WritePid
  <2>2. UNCHANGED daemons /\ Len(daemons') = Len(daemons)
    BY <1>0, <1>7, <2>1 DEF WritePid
  <2>3. command' = [command EXCEPT ![c] = [at |-> "idle", pid |-> 0]]
    BY <1>0, <1>7, <2>1 DEF WritePid
  <2>4. daemons' \in Seq(Process) /\ pidFile' \in 0 .. Len(daemons')
    BY <1>0, <1>7, <2>1, <2>2 DEF WritePid, Known
  <2>5. \A a, p : a = "idle" /\ p = 0 => Known(a, p)'
    BY <1>0, <1>7, <2>1, <2>2 DEF WritePid, Known, OnlyLives, NoneLives
  <2>6. QED
    BY <1>0, <2>1, <2>3, <2>4, <2>5, Onward DEF Ats, Known
<1>8. CASE ReadPid(c)
  <2>1. Busy = {c} /\ Known(command[c].at, command[c].pid)
    BY <1>8, Alone DEF ReadPid
  <2>2. CASE pidFile = 0
    <3>1. UNCHANGED daemons /\ Len(daemons') = Len(daemons)
      BY <1>0, <1>8, <2>1, <2>2 DEF ReadPid
    <3>2. command' = [command EXCEPT ![c] = [at |-> "idle", pid |-> 0]]
      BY <1>0, <1>8, <2>1, <2>2 DEF ReadPid
    <3>3. daemons' \in Seq(Process) /\ pidFile' \in 0 .. Len(daemons')
      BY <1>0, <1>8, <2>1, <2>2, <3>1 DEF ReadPid, Known
    <3>4. \A a, p : a = "idle" /\ p = 0 => Known(a, p)'
      BY <1>0, <1>8, <2>1, <2>2, <3>1 DEF ReadPid, Known, OnlyLives, NoneLives
    <3>5. QED
      BY <1>0, <2>1, <3>2, <3>3, <3>4, Onward DEF Ats, Known
  <2>3. CASE pidFile # 0 /\ PidIsRunning(pidFile)
    <3>1. pidFile \in DOMAIN daemons
      BY <1>0, <1>8, <2>1, <2>3 DEF ReadPid, Known
    <3>2. (IF Alive(pidFile) THEN "stopping" ELSE daemons[pidFile].st) \in States
      BY <1>0, <1>8, <2>1, <2>3, <3>1 DEF States
    <3>3. daemons' = With(pidFile, IF Alive(pidFile) THEN "stopping" ELSE daemons[pidFile].st)
      BY <1>0, <1>8, <2>1, <2>3 DEF ReadPid
    <3>4. /\ daemons' \in Seq(Process) /\ Len(daemons') = Len(daemons)
          /\ DOMAIN daemons' = DOMAIN daemons
          /\ \A r \in DOMAIN daemons :
               daemons'[r].st = IF r = pidFile THEN IF Alive(pidFile) THEN "stopping" ELSE daemons[pidFile].st
                                ELSE daemons[r].st
      BY <1>0, <3>1, <3>2, <3>3, WithIs
    <3>5. command' = [command EXCEPT ![c] = [at |-> "term", pid |-> pidFile]]
      BY <1>0, <1>8, <2>1, <2>3 DEF ReadPid
    <3>6. daemons' \in Seq(Process) /\ pidFile' \in 0 .. Len(daemons')
      BY <1>0, <1>8, <2>1, <2>3, <3>1, <3>4 DEF ReadPid, Known
    <3>7. \A a, p : a = "term" /\ p = pidFile => Known(a, p)'
      BY <1>0, <1>8, <2>1, <2>3, <3>1, <3>4 DEF ReadPid, Known, OnlyLives, NoneLives
    <3>8. QED
      BY <1>0, <2>1, <3>5, <3>6, <3>7, Onward DEF Ats, Known
  <2>4. CASE pidFile # 0 /\ ~PidIsRunning(pidFile)
    <3>1. UNCHANGED daemons /\ Len(daemons') = Len(daemons)
      BY <1>0, <1>8, <2>1, <2>4 DEF ReadPid
    <3>2. command' = [command EXCEPT ![c] = [at |-> "stale", pid |-> pidFile]]
      BY <1>0, <1>8, <2>1, <2>4 DEF ReadPid
    <3>3. daemons' \in Seq(Process) /\ pidFile' \in 0 .. Len(daemons')
      BY <1>0, <1>8, <2>1, <2>4, <3>1 DEF ReadPid, Known
    <3>4. \A a, p : a = "stale" /\ p = pidFile => Known(a, p)'
      BY <1>0, <1>8, <2>1, <2>4, <3>1 DEF ReadPid, Known, OnlyLives, NoneLives
    <3>5. QED
      BY <1>0, <2>1, <3>2, <3>3, <3>4, Onward DEF Ats, Known
  <2>5. QED
    BY <1>8, <2>2, <2>3, <2>4 DEF ReadPid
<1>9. CASE RemoveStale(c)
  <2>1. Busy = {c} /\ Known(command[c].at, command[c].pid)
    BY <1>9, Alone DEF RemoveStale
  <2>2. UNCHANGED daemons /\ Len(daemons') = Len(daemons)
    BY <1>0, <1>9, <2>1 DEF RemoveStale
  <2>3. command' = [command EXCEPT ![c] = [at |-> "idle", pid |-> 0]]
    BY <1>0, <1>9, <2>1 DEF RemoveStale
  <2>4. daemons' \in Seq(Process) /\ pidFile' \in 0 .. Len(daemons')
    BY <1>0, <1>9, <2>1, <2>2 DEF RemoveStale, Known
  <2>5. \A a, p : a = "idle" /\ p = 0 => Known(a, p)'
    BY <1>0, <1>9, <2>1, <2>2 DEF RemoveStale, Known, OnlyLives, NoneLives
  <2>6. QED
    BY <1>0, <2>1, <2>3, <2>4, <2>5, Onward DEF Ats, Known
<1>10. CASE SeesItEnd(c)
  <2>1. Busy = {c} /\ Known(command[c].at, command[c].pid)
    BY <1>10, Alone DEF SeesItEnd
  <2>2. UNCHANGED daemons /\ Len(daemons') = Len(daemons)
    BY <1>0, <1>10, <2>1 DEF SeesItEnd
  <2>3. command' = [command EXCEPT ![c] = [at |-> "forget", pid |-> command[c].pid]]
    BY <1>0, <1>10, <2>1 DEF SeesItEnd
  <2>4. daemons' \in Seq(Process) /\ pidFile' \in 0 .. Len(daemons')
    BY <1>0, <1>10, <2>1, <2>2 DEF SeesItEnd, Known
  <2>5. \A a, p : a = "forget" /\ p = command[c].pid => Known(a, p)'
    BY <1>0, <1>10, <2>1, <2>2 DEF SeesItEnd, Known, OnlyLives, NoneLives
  <2>6. QED
    BY <1>0, <2>1, <2>3, <2>4, <2>5, Onward DEF Ats, Known
<1>11. CASE ForgetPid(c)
  <2>1. Busy = {c} /\ Known(command[c].at, command[c].pid)
    BY <1>11, Alone DEF ForgetPid
  <2>2. UNCHANGED daemons /\ Len(daemons') = Len(daemons)
    BY <1>0, <1>11, <2>1 DEF ForgetPid
  <2>3. command' = [command EXCEPT ![c] = [at |-> "idle", pid |-> 0]]
    BY <1>0, <1>11, <2>1 DEF ForgetPid
  <2>4. daemons' \in Seq(Process) /\ pidFile' \in 0 .. Len(daemons')
    BY <1>0, <1>11, <2>1, <2>2 DEF ForgetPid, Known
  <2>5. \A a, p : a = "idle" /\ p = 0 => Known(a, p)'
    BY <1>0, <1>11, <2>1, <2>2 DEF ForgetPid, Known, OnlyLives, NoneLives
  <2>6. QED
    BY <1>0, <2>1, <2>3, <2>4, <2>5, Onward DEF Ats, Known
<1>12. CASE StopTimeout(c)
  <2>1. Busy = {c} /\ Known(command[c].at, command[c].pid)
    BY <1>12, Alone DEF StopTimeout
  <2>2. CASE command[c].at = "term"
    <3>1. command[c].pid \in DOMAIN daemons
      BY <1>0, <1>12, <2>1, <2>2 DEF StopTimeout, Known
    <3>2. (IF Alive(command[c].pid) THEN EndOf(command[c].pid) ELSE daemons[command[c].pid].st) \in States
      BY <1>0, <1>12, <2>1, <2>2, <3>1, EndsAsState DEF States
    <3>3. daemons' = With(command[c].pid, IF Alive(command[c].pid) THEN EndOf(command[c].pid) ELSE daemons[command[c].pid].st)
      BY <1>0, <1>12, <2>1, <2>2 DEF StopTimeout
    <3>4. /\ daemons' \in Seq(Process) /\ Len(daemons') = Len(daemons)
          /\ DOMAIN daemons' = DOMAIN daemons
          /\ \A r \in DOMAIN daemons :
               daemons'[r].st = IF r = command[c].pid THEN IF Alive(command[c].pid) THEN EndOf(command[c].pid) ELSE daemons[command[c].pid].st
                                ELSE daemons[r].st
      BY <1>0, <3>1, <3>2, <3>3, WithIs
    <3>5. command' = [command EXCEPT ![c] = [at |-> "kill", pid |-> command[c].pid]]
      BY <1>0, <1>12, <2>1, <2>2 DEF StopTimeout
    <3>6. daemons' \in Seq(Process) /\ pidFile' \in 0 .. Len(daemons')
      BY <1>0, <1>12, <2>1, <2>2, <3>1, <3>4 DEF StopTimeout, Known
    <3>7. \A a, p : a = "kill" /\ p = command[c].pid => Known(a, p)'
      BY <1>0, <1>12, <2>1, <2>2, <3>1, <3>4 DEF StopTimeout, Known, OnlyLives, NoneLives, EndOf
    <3>8. QED
      BY <1>0, <2>1, <3>5, <3>6, <3>7, Onward DEF Ats, Known
  <2>3. CASE command[c].at = "kill"
    <3>1. UNCHANGED daemons /\ Len(daemons') = Len(daemons)
      BY <1>0, <1>12, <2>1, <2>3 DEF StopTimeout
    <3>2. command' = [command EXCEPT ![c] = [at |-> "idle", pid |-> 0]]
      BY <1>0, <1>12, <2>1, <2>3 DEF StopTimeout
    <3>3. daemons' \in Seq(Process) /\ pidFile' \in 0 .. Len(daemons')
      BY <1>0, <1>12, <2>1, <2>3, <3>1 DEF StopTimeout, Known
    <3>4. \A a, p : a = "idle" /\ p = 0 => Known(a, p)'
      BY <1>0, <1>12, <2>1, <2>3, <3>1 DEF StopTimeout, Known, OnlyLives, NoneLives
    <3>5. QED
      BY <1>0, <2>1, <3>2, <3>3, <3>4, Onward DEF Ats, Known
  <2>4. QED
    BY <1>12, <2>2, <2>3 DEF StopTimeout
<1>13. QED
  BY <1>1, <1>2, <1>3, <1>4, <1>5, <1>6, <1>7, <1>8, <1>9, <1>10, <1>11, <1>12

LEMMA ControlStep ==
  ASSUME AtOnce = 1, IsFiniteSet(Callers), ControlInv, [ControlNext]_controlvars
  PROVE  ControlInv'
<1>1. ASSUME NEW c \in Callers, NEW at \in {"start", "stop", "look"}, Asks(c, at) PROVE ControlInv'
  <2>1. Busy = {}
    BY <1>1, NobodyElse DEF Asks
  <2>2. ControlTyped /\ Known("idle", 0)
    BY <2>1 DEF ControlInv
  <2>3. Known(at, 0)'
    BY <1>1, <2>2 DEF Asks, Known, OnlyLives, NoneLives, Alive
  <2>4. QED
    BY <1>1, <2>1, <2>2, <2>3, Onward DEF Asks, ControlTyped, Ats
\* A daemon binds the port, dies, or is left by its parent: whatever a command knows
\* still holds, for fewer daemons live than before or the one it waits for serves.
<1>2. ASSUME NEW p \in DOMAIN daemons, Binds(p) \/ Dies(p) PROVE ControlInv'
  <2>1. PICK st \in States :
          /\ daemons' = With(p, st) /\ Alive(p)
          /\ st = "serving" => daemons[p].st = "starting"
          /\ st \in {"starting", "stopping"} => FALSE
    BY <1>2, EndsAsState DEF Binds, Dies, Alive, States, EndOf
  <2>2. /\ daemons' \in Seq(Process) /\ Len(daemons') = Len(daemons)
        /\ DOMAIN daemons' = DOMAIN daemons
        /\ \A q \in DOMAIN daemons : daemons'[q].st = IF q = p THEN st ELSE daemons[q].st
    BY <2>1, WithIs DEF ControlInv, ControlTyped
  <2>3. ASSUME NEW at \in Ats, NEW q \in Nat, Known(at, q) PROVE Known(at, q)'
    BY <1>2, <2>1, <2>2, <2>3 DEF Binds, Dies, Known, OnlyLives, NoneLives, Alive, Ats, States
  <2>4. UNCHANGED <<pidFile, command>> /\ Busy' = Busy
    BY <1>2 DEF Binds, Dies, Busy
  <2>5. ControlTyped' /\ OneCommand'
    BY <2>2, <2>4 DEF ControlInv, ControlTyped, OneCommand
  <2>6. Busy' = {} => Known("idle", 0)'
    BY <2>3, <2>4 DEF ControlInv, Ats
  <2>7. \A d \in Busy : command[d].at \in Ats /\ command[d].pid \in Nat
    BY DEF ControlInv, ControlTyped, Busy
  <2>8. QED
    BY <2>3, <2>4, <2>5, <2>6, <2>7 DEF ControlInv
<1>3. ASSUME NEW c \in Callers, TerminalEnds(c) PROVE ControlInv'
  <2>1. /\ daemons' \in Seq(Process) /\ Len(daemons') = Len(daemons)
        /\ DOMAIN daemons' = DOMAIN daemons
        /\ \A q \in DOMAIN daemons : Alive(q)' = Alive(q) /\ (Alive(q) => daemons'[q].st = daemons[q].st)
    BY <1>3 DEF TerminalEnds, ControlInv, ControlTyped, Process, States, Alive
  <2>2. ASSUME NEW at \in Ats, NEW q \in Nat, Known(at, q) PROVE Known(at, q)'
    BY <1>3, <2>1, <2>2 DEF TerminalEnds, Known, OnlyLives, NoneLives
  <2>3. UNCHANGED <<pidFile, command>> /\ Busy' = Busy
    BY <1>3 DEF TerminalEnds, Busy
  <2>4. ControlTyped' /\ OneCommand'
    BY <2>1, <2>3 DEF ControlInv, ControlTyped, OneCommand
  <2>5. Busy' = {} => Known("idle", 0)'
    BY <2>2, <2>3 DEF ControlInv, Ats
  <2>6. \A d \in Busy : command[d].at \in Ats /\ command[d].pid \in Nat
    BY DEF ControlInv, ControlTyped, Busy
  <2>7. QED
    BY <2>2, <2>3, <2>4, <2>5, <2>6 DEF ControlInv
<1>4. CASE UNCHANGED controlvars
  BY <1>4 DEF controlvars, ControlInv, ControlTyped, OneCommand, Busy, Known, OnlyLives, NoneLives, Alive
<1>5. QED
  BY <1>1, <1>2, <1>3, <1>4, CommandStep DEF ControlNext

\* With one command at a time at most one daemon lives, which the pid file names, and
\* who says that it is stopped says the truth, for every number of callers, commands and
\* daemons (start_local_daemon, stop_local_daemon).
THEOREM DaemonIsManaged == ControlSpec => []OneDaemonManaged
<1>0. IsFiniteSet(Callers)
  BY ControlAssumption
<1>1. CASE AtOnce = 1
  <2>1. ControlInv => OneDaemonManaged
    BY DEF ControlInv, OneDaemonManaged, Known, OnlyLives, NoneLives, Busy
  <2>2. ControlInv /\ [ControlNext]_controlvars => ControlInv'
    BY <1>0, <1>1, ControlStep
  <2>3. QED
    BY <2>1, <2>2, ControlStart, PTL DEF ControlSpec
<1>2. CASE AtOnce # 1
  <2>1. OneDaemonManaged
    BY <1>2 DEF OneDaemonManaged
  <2>2. QED
    BY <2>1, PTL
<1>3. QED
  BY <1>1, <1>2

-----------------------------------------------------------------------------
(* What a client hears. Messages are read one after the other: what one who  *)
(* was told v of a part knows of it after some messages, and which words     *)
(* they are.                                                                 *)

Content == Seq(Nat) \cup {"busy", "idle"} \cup BOOLEAN \cup {0, 1}
Full == [Parts -> Content]
Seen == [status : {"busy", "idle"}, auto : BOOLEAN, view : {0, 1}, watch : {0, 1}]
Msg ==
  [is : TextKinds, of : Seq(Nat) \ {<< >>}] \cup [is : Parts \cup {"answer"}, of : Content]
    \cup [is : {"attached"}, of : Full]

\* Who was told b of part p is told v by the end of q.
Tells(q, p, b, v) ==
  \/ b = v /\ \A k \in DOMAIN q : q[k].is # p
  \/ \E k \in DOMAIN q : /\ q[k].is = p /\ q[k].of = v
                         /\ \A j \in DOMAIN q : j > k => q[j].is # p
TellsAll(w, h, q, p, b, v) == \E x, y : Tells(w, p, b, x) /\ Tells(h, p, x, y) /\ Tells(q, p, y, v)

\* The texts of q are the words after a up to b; c says how far each message gets.
Run(a, b) == [k \in 1 .. b - a |-> a + k]
Greets(q, a, b) ==
  \E c \in [0 .. Len(q) -> a .. b] :
    /\ c[0] = a /\ c[Len(q)] = b
    /\ \A j, k \in 0 .. Len(q) : j <= k => c[j] <= c[k]
    /\ \A k \in DOMAIN q : IF q[k].is \in TextKinds
                           THEN c[k - 1] < c[k] /\ q[k].of = Run(c[k - 1], c[k])
                           ELSE c[k] = c[k - 1]
SaysAll(w, t, h, q, a, b) ==
  \E b1, b2, b3 \in Nat : /\ Greets(w, a, b1) /\ b1 <= b2 /\ t = Run(b1, b2)
                          /\ Greets(h, b2, b3) /\ Greets(q, b3, b)

\* The snapshot is the first message, and what it says counts as shown.
Base(p) == IF viewer = "connecting" THEN wire[1].of[p] ELSE shown[p]
FeedShape ==
  /\ held = << >> \/ (buffer = << >> /\ \E e \in Msg : held = <<e>>)
  /\ conn # "up" => wire = << >>
  /\ conn = "up" => handler \in {"greeting", "answering", "serving"} /\ viewer \notin {"away", "gone"}
  /\ conn = "up" /\ viewer = "connecting" => wire # << >> /\ wire[1].is = "attached"
FeedTyped ==
  /\ state \in Seen /\ shown \in Full /\ words \in Nat /\ heard \in Nat /\ buffer \in Seq(Nat)
  /\ wire \in Seq(Msg) /\ held \in Seq(Msg) /\ queue \in Seq(Msg)
FeedTrue ==
  /\ SaysAll(wire, buffer, held, queue, heard, words)
  /\ \A p \in Followed : TellsAll(wire, held, queue, p, Base(p), state[p])
FeedInv == FeedTyped /\ FeedShape /\ (Listening => FeedTrue)

-----------------------------------------------------------------------------
\* Messages at the end and at the front of a sequence.
LEMMA LongerMsgs ==
  ASSUME NEW q \in Seq(Msg), NEW m \in Msg
  PROVE  /\ Append(q, m) \in Seq(Msg) /\ Len(q) \in Nat /\ Len(Append(q, m)) = Len(q) + 1
         /\ DOMAIN q = 1 .. Len(q) /\ DOMAIN Append(q, m) = 1 .. Len(q) + 1
         /\ Append(q, m)[Len(q) + 1] = m /\ \A k \in 1 .. Len(q) : Append(q, m)[k] = q[k]
  OBVIOUS

LEMMA ShorterMsgs ==
  ASSUME NEW q \in Seq(Msg), q # << >>
  PROVE  /\ Tail(q) \in Seq(Msg) /\ Len(q) \in Nat \ {0} /\ Len(Tail(q)) = Len(q) - 1
         /\ DOMAIN q = 1 .. Len(q) /\ DOMAIN Tail(q) = 1 .. Len(q) - 1
         /\ Head(q) = q[1] /\ q[1] \in Msg /\ \A k \in 1 .. Len(q) - 1 : Tail(q)[k] = q[k + 1]
  OBVIOUS

LEMMA TellsAdded ==
  ASSUME NEW q \in Seq(Msg), NEW m \in Msg, NEW p, NEW b, NEW v, Tells(q, p, b, v)
  PROVE  Tells(Append(q, m), p, b, IF m.is = p THEN m.of ELSE v)
<1> DEFINE z == Append(q, m)
<1>1. /\ Len(q) \in Nat /\ DOMAIN q = 1 .. Len(q) /\ DOMAIN z = 1 .. Len(q) + 1
      /\ z[Len(q) + 1] = m /\ \A k \in 1 .. Len(q) : z[k] = q[k]
  BY LongerMsgs
<1> HIDE DEF z
<1>2. CASE m.is = p
  <2>1. /\ Len(q) + 1 \in DOMAIN z /\ z[Len(q) + 1] = m
        /\ \A j \in DOMAIN z : ~(j > Len(q) + 1)
    BY <1>1
  <2>2. QED
    BY <1>2, <2>1 DEF Tells, z
<1>3. CASE m.is # p
  <2>1. CASE b = v /\ \A k \in DOMAIN q : q[k].is # p
    <3>1. \A k \in DOMAIN z : z[k].is # p
      BY <1>1, <1>3, <2>1
    <3>2. QED
      BY <1>3, <2>1, <3>1 DEF Tells, z
  <2>2. ASSUME NEW k \in DOMAIN q, q[k].is = p, q[k].of = v,
               \A j \in DOMAIN q : j > k => q[j].is # p
        PROVE  Tells(Append(q, m), p, b, v)
    <3>1. k \in DOMAIN z /\ z[k].is = p /\ z[k].of = v
      BY <1>1, <2>2
    <3>2. \A j \in DOMAIN z : j > k => z[j].is # p
      BY <1>1, <1>3, <2>2
    <3>3. QED
      BY <3>1, <3>2 DEF Tells, z
  <2>3. QED
    BY <1>3, <2>1, <2>2 DEF Tells
<1>4. QED
  BY <1>2, <1>3

LEMMA TellsOn ==
  ASSUME NEW q \in Seq(Msg), q # << >>, NEW p, NEW b, NEW v, Tells(q, p, b, v)
  PROVE  Tells(Tail(q), p, IF Head(q).is = p THEN Head(q).of ELSE b, v)
<1> DEFINE z == Tail(q)
<1>1. /\ Len(q) \in Nat \ {0} /\ DOMAIN q = 1 .. Len(q) /\ DOMAIN z = 1 .. Len(q) - 1
      /\ Head(q) = q[1] /\ \A k \in 1 .. Len(q) - 1 : z[k] = q[k + 1]
  BY ShorterMsgs
<1> HIDE DEF z
<1>2. CASE b = v /\ \A k \in DOMAIN q : q[k].is # p
  <2>1. Head(q).is # p /\ \A k \in DOMAIN z : z[k].is # p
    BY <1>1, <1>2
  <2>2. QED
    BY <1>2, <2>1 DEF Tells, z
<1>3. ASSUME NEW k \in DOMAIN q, q[k].is = p, q[k].of = v,
             \A j \in DOMAIN q : j > k => q[j].is # p
      PROVE  Tells(z, p, IF Head(q).is = p THEN Head(q).of ELSE b, v)
  <2>1. CASE k = 1
    <3>1. Head(q).is = p /\ Head(q).of = v /\ \A j \in DOMAIN z : z[j].is # p
      BY <1>1, <1>3, <2>1
    <3>2. QED
      BY <3>1 DEF Tells
  <2>2. CASE k # 1
    <3>1. k - 1 \in DOMAIN z /\ z[k - 1].is = p /\ z[k - 1].of = v
      BY <1>1, <1>3, <2>2
    <3>2. ASSUME NEW j \in DOMAIN z, j > k - 1 PROVE z[j].is # p
      <4>1. j + 1 \in DOMAIN q /\ j + 1 > k /\ z[j] = q[j + 1]
        BY <1>1, <3>2
      <4>2. QED
        BY <1>3, <4>1
    <3>3. QED
      BY <3>1, <3>2 DEF Tells
  <2>3. QED
    BY <2>1, <2>2
<1>4. QED
  BY <1>2, <1>3 DEF Tells, z

\* Who knows already what the messages end with, or anything else.
LEMMA TellsSame ==
  ASSUME NEW q, NEW p, NEW b, NEW v, Tells(q, p, b, v)
  PROVE  Tells(q, p, v, v)
  BY DEF Tells

LEMMA TellsAny ==
  ASSUME NEW q, NEW p, NEW b, NEW v, Tells(q, p, b, v), NEW c
  PROVE  Tells(q, p, c, v) \/ Tells(q, p, c, c)
  BY DEF Tells

LEMMA TellsNothing ==
  ASSUME NEW p, NEW b, NEW v
  PROVE  Tells(<< >>, p, b, v) <=> b = v
  BY DEF Tells

\* The account of a part.
LEMMA PartAdded ==
  ASSUME NEW w, NEW h, NEW q \in Seq(Msg), NEW p, NEW b, NEW v, TellsAll(w, h, q, p, b, v),
         NEW m \in Msg
  PROVE  TellsAll(w, h, Append(q, m), p, b, IF m.is = p THEN m.of ELSE v)
  BY TellsAdded DEF TellsAll

LEMMA PartSent ==
  ASSUME NEW w \in Seq(Msg), NEW h, NEW q, NEW p, NEW b, NEW v, TellsAll(w, h, q, p, b, v),
         NEW m \in Msg, m.is = p => m.of = v
  PROVE  TellsAll(Append(w, m), h, q, p, b, v)
<1>1. PICK x, y : Tells(w, p, b, x) /\ Tells(h, p, x, y) /\ Tells(q, p, y, v)
  BY DEF TellsAll
<1>2. CASE m.is = p
  <2>1. Tells(Append(w, m), p, b, v)
    BY <1>1, <1>2, TellsAdded
  <2>2. Tells(h, p, v, y) \/ Tells(h, p, v, v)
    BY <1>1, TellsAny
  <2>3. Tells(q, p, v, v)
    BY <1>1, TellsSame
  <2>4. QED
    BY <1>1, <2>1, <2>2, <2>3 DEF TellsAll
<1>3. CASE m.is # p
  <2>1. Tells(Append(w, m), p, b, x)
    BY <1>1, <1>3, TellsAdded
  <2>2. QED
    BY <1>1, <2>1 DEF TellsAll
<1>4. QED
  BY <1>2, <1>3

LEMMA PartRead ==
  ASSUME NEW w \in Seq(Msg), w # << >>, NEW h, NEW q, NEW p, NEW b, NEW v, TellsAll(w, h, q, p, b, v)
  PROVE  TellsAll(Tail(w), h, q, p, IF Head(w).is = p THEN Head(w).of ELSE b, v)
  BY TellsOn DEF TellsAll

\* A message leaves the queue, as it is or as what is true by then.
LEMMA PartTaken ==
  ASSUME NEW w \in Seq(Msg), NEW q \in Seq(Msg), q # << >>, NEW p, NEW b, NEW v,
         TellsAll(w, << >>, q, p, b, v), NEW m \in Msg, m.is = Head(q).is,
         m.of = Head(q).of \/ (m.is = p => m.of = v)
  PROVE  /\ TellsAll(Append(w, m), << >>, Tail(q), p, b, v)
         /\ TellsAll(w, <<m>>, Tail(q), p, b, v)
         /\ m.is # p => TellsAll(w, << >>, Tail(q), p, b, v)
<1>1. PICK x : Tells(w, p, b, x) /\ Tells(q, p, x, v)
  BY TellsNothing DEF TellsAll
<1>2. Tells(Tail(q), p, IF m.is = p THEN Head(q).of ELSE x, v)
  BY <1>1, TellsOn
<1>3. Tells(Tail(q), p, v, v)
  BY <1>2, TellsSame
<1> DEFINE y == IF m.is = p THEN m.of ELSE x
<1>4. Tells(Tail(q), p, y, v)
  BY <1>2, <1>3
<1>5. Tells(Append(w, m), p, b, y)
  BY <1>1, TellsAdded
<1>6. Tells(<<m>>, p, x, y)
  <2>1. DOMAIN <<m>> = {1} /\ <<m>>[1] = m
    OBVIOUS
  <2>2. QED
    BY <2>1 DEF Tells
<1>7. m.is # p => y = x
  OBVIOUS
<1> HIDE DEF y
<1>8. Tells(<< >>, p, y, y)
  BY TellsNothing
<1>9. QED
  BY <1>1, <1>4, <1>5, <1>6, <1>7, <1>8 DEF TellsAll

\* What was held is sent.
LEMMA PartFlushed ==
  ASSUME NEW w \in Seq(Msg), NEW m \in Msg, NEW q, NEW p, NEW b, NEW v, TellsAll(w, <<m>>, q, p, b, v)
  PROVE  TellsAll(Append(w, m), << >>, q, p, b, v)
<1>1. PICK x, y : Tells(w, p, b, x) /\ Tells(<<m>>, p, x, y) /\ Tells(q, p, y, v)
  BY DEF TellsAll
<1>2. DOMAIN <<m>> = {1} /\ <<m>>[1] = m
  OBVIOUS
<1>3. y = IF m.is = p THEN m.of ELSE x
  BY <1>1, <1>2 DEF Tells
<1>4. Tells(Append(w, m), p, b, y)
  BY <1>1, <1>3, TellsAdded
<1>5. Tells(<< >>, p, y, y)
  BY TellsNothing
<1>6. QED
  BY <1>1, <1>4, <1>5 DEF TellsAll

-----------------------------------------------------------------------------
\* The words.
LEMMA SaysNothing ==
  ASSUME NEW a \in Nat, NEW b \in Nat
  PROVE  Greets(<< >>, a, b) <=> a = b
<1>1. Greets(<< >>, a, b) => a = b
  BY DEF Greets
<1>2. ASSUME a = b PROVE Greets(<< >>, a, b)
  <2> DEFINE c == [k \in 0 .. 0 |-> a]
  <2>1. c \in [0 .. Len(<< >>) -> a .. b] /\ c[0] = a
    BY <1>2
  <2>2. \A j, k \in 0 .. 0 : c[j] <= c[k]
    OBVIOUS
  <2>3. Len(<< >>) = 0 /\ DOMAIN << >> = {}
    OBVIOUS
  <2> HIDE DEF c
  <2>4. QED
    BY <1>2, <2>1, <2>2, <2>3 DEF Greets
<1>3. QED
  BY <1>1, <1>2

\* Messages are added that take the words from b to d.
LEMMA SaysAdded ==
  ASSUME NEW q \in Seq(Msg), NEW m \in Msg, NEW a \in Nat, NEW b \in Nat, NEW d \in Nat,
         Greets(q, a, b),
         IF m.is \in TextKinds THEN b < d /\ m.of = Run(b, d) ELSE b = d
  PROVE  Greets(Append(q, m), a, d)
<1> DEFINE z == Append(q, m)  n == Len(q)
<1>1. /\ n \in Nat /\ DOMAIN q = 1 .. n /\ DOMAIN z = 1 .. n + 1 /\ Len(z) = n + 1
      /\ z[n + 1] = m /\ \A k \in 1 .. n : z[k] = q[k]
  BY LongerMsgs
<1>2. PICK c \in [0 .. n -> a .. b] :
        /\ c[0] = a /\ c[n] = b
        /\ \A j, k \in 0 .. n : j <= k => c[j] <= c[k]
        /\ \A k \in DOMAIN q : IF q[k].is \in TextKinds
                               THEN c[k - 1] < c[k] /\ q[k].of = Run(c[k - 1], c[k])
                               ELSE c[k] = c[k - 1]
  BY DEF Greets
<1> HIDE DEF z, n
<1> DEFINE e == [k \in 0 .. n + 1 |-> IF k = n + 1 THEN d ELSE c[k]]
<1>3. a <= b /\ b <= d
  <2>1. c[0] \in a .. b /\ a \in Nat /\ b \in Nat
    BY <1>1
  <2>2. QED
    BY <1>2, <2>1
<1>4. \A k \in 0 .. n : k \in 0 .. n + 1 /\ k # n + 1 /\ c[k] \in a .. b
  BY <1>1
<1>5. e[n + 1] = d /\ \A k \in 0 .. n : e[k] = c[k]
  BY <1>1, <1>4
<1>6. e \in [0 .. n + 1 -> a .. d]
  <2>1. ASSUME NEW k \in 0 .. n + 1 PROVE e[k] \in a .. d
    BY <1>1, <1>3, <1>4
  <2>2. QED
    BY <2>1
<1> HIDE DEF e
<1>7. e[0] = a
  BY <1>1, <1>2, <1>5
<1>8. ASSUME NEW j \in 0 .. n + 1, NEW k \in 0 .. n + 1, j <= k PROVE e[j] <= e[k]
  <2>1. CASE k = n + 1
    BY <1>3, <1>5, <1>6, <2>1
  <2>2. CASE k # n + 1
    <3>1. j \in 0 .. n /\ k \in 0 .. n
      BY <1>1, <1>8, <2>2
    <3>2. c[j] <= c[k]
      BY <1>2, <1>8, <3>1
    <3>3. QED
      BY <1>5, <3>1, <3>2
  <2>3. QED
    BY <2>1, <2>2
<1>9. ASSUME NEW k \in DOMAIN z
      PROVE  IF z[k].is \in TextKinds THEN e[k - 1] < e[k] /\ z[k].of = Run(e[k - 1], e[k])
             ELSE e[k] = e[k - 1]
  <2>1. CASE k = n + 1
    <3>1. k - 1 = n /\ n \in 0 .. n /\ e[k - 1] = b /\ e[k] = d /\ z[k] = m
      BY <1>1, <1>2, <1>5, <2>1
    <3>2. QED
      BY <3>1
  <2>2. CASE k # n + 1
    <3>1. k \in DOMAIN q /\ k \in 0 .. n /\ k - 1 \in 0 .. n /\ z[k] = q[k]
      BY <1>1, <2>2
    <3>2. e[k] = c[k] /\ e[k - 1] = c[k - 1]
      BY <1>5, <3>1
    <3>3. QED
      BY <1>2, <3>1, <3>2
  <2>3. QED
    BY <2>1, <2>2
<1>10. QED
  <2>1. Greets(z, a, d)
    BY <1>1, <1>5, <1>6, <1>7, <1>8, <1>9 DEF Greets
  <2>2. QED
    BY <2>1 DEF z

LEMMA SaysOn ==
  ASSUME NEW q \in Seq(Msg), q # << >>, NEW a \in Nat, NEW b \in Nat, Greets(q, a, b)
  PROVE  \E d \in Nat : /\ IF Head(q).is \in TextKinds THEN a < d /\ Head(q).of = Run(a, d) ELSE a = d
                        /\ Greets(Tail(q), d, b)
<1> DEFINE z == Tail(q)  n == Len(q)
<1>1. /\ n \in Nat \ {0} /\ DOMAIN q = 1 .. n /\ DOMAIN z = 1 .. n - 1 /\ Len(z) = n - 1
      /\ Head(q) = q[1] /\ \A k \in 1 .. n - 1 : z[k] = q[k + 1]
  BY ShorterMsgs
<1>2. PICK c \in [0 .. n -> a .. b] :
        /\ c[0] = a /\ c[n] = b
        /\ \A j, k \in 0 .. n : j <= k => c[j] <= c[k]
        /\ \A k \in DOMAIN q : IF q[k].is \in TextKinds
                               THEN c[k - 1] < c[k] /\ q[k].of = Run(c[k - 1], c[k])
                               ELSE c[k] = c[k - 1]
  BY DEF Greets
<1> HIDE DEF z, n
<1> DEFINE d == c[1]  e == [k \in 0 .. n - 1 |-> c[k + 1]]
<1>3. d \in a .. b /\ d \in Nat
  <2>1. 1 \in 0 .. n
    BY <1>1
  <2>2. QED
    BY <2>1
<1>4. IF Head(q).is \in TextKinds THEN a < d /\ Head(q).of = Run(a, d) ELSE a = d
  <2>1. 1 \in DOMAIN q /\ 1 - 1 = 0
    BY <1>1
  <2>2. QED
    BY <1>1, <1>2, <2>1
<1>5. ASSUME NEW k \in 0 .. n - 1 PROVE k + 1 \in 0 .. n /\ e[k] = c[k + 1] /\ c[k + 1] \in d .. b
  <2>1. k + 1 \in 0 .. n /\ 1 \in 0 .. n /\ 1 <= k + 1
    BY <1>1
  <2>2. c[1] <= c[k + 1] /\ c[k + 1] \in a .. b
    BY <1>2, <2>1
  <2>3. QED
    BY <1>3, <2>1, <2>2
<1>6. e \in [0 .. n - 1 -> d .. b]
  BY <1>5
<1>7. e[0] = d /\ e[n - 1] = b
  <2>1. 0 \in 0 .. n - 1 /\ n - 1 \in 0 .. n - 1 /\ 0 + 1 = 1 /\ n - 1 + 1 = n
    BY <1>1
  <2>2. e[0] = c[0 + 1] /\ e[n - 1] = c[n - 1 + 1]
    BY <1>5, <2>1
  <2>3. QED
    BY <1>2, <2>1, <2>2
<1>8. ASSUME NEW j \in 0 .. n - 1, NEW k \in 0 .. n - 1, j <= k PROVE e[j] <= e[k]
  <2>1. j + 1 \in 0 .. n /\ k + 1 \in 0 .. n /\ j + 1 <= k + 1
    BY <1>1, <1>8
  <2>2. c[j + 1] <= c[k + 1]
    BY <1>2, <2>1
  <2>3. QED
    BY <1>5, <2>2
<1>9. ASSUME NEW k \in DOMAIN z
      PROVE  IF z[k].is \in TextKinds THEN e[k - 1] < e[k] /\ z[k].of = Run(e[k - 1], e[k])
             ELSE e[k] = e[k - 1]
  <2>1. /\ k \in 0 .. n - 1 /\ k - 1 \in 0 .. n - 1 /\ k + 1 \in DOMAIN q /\ z[k] = q[k + 1]
        /\ k + 1 - 1 = k /\ k - 1 + 1 = k
    BY <1>1
  <2>2. e[k] = c[k + 1] /\ e[k - 1] = c[k]
    BY <1>5, <2>1
  <2>3. IF q[k + 1].is \in TextKinds THEN c[k] < c[k + 1] /\ q[k + 1].of = Run(c[k], c[k + 1])
        ELSE c[k + 1] = c[k]
    <3>1. ASSUME NEW i \in DOMAIN q, NEW j, j = i - 1
          PROVE  IF q[i].is \in TextKinds THEN c[j] < c[i] /\ q[i].of = Run(c[j], c[i])
                 ELSE c[i] = c[j]
      BY <1>2, <3>1
    <3>2. QED
      BY <2>1, <3>1
  <2>4. QED
    BY <2>1, <2>2, <2>3
<1> HIDE DEF e, d
<1>10. Greets(z, d, b)
  BY <1>1, <1>6, <1>7, <1>8, <1>9 DEF Greets
<1>11. QED
  BY <1>3, <1>4, <1>10 DEF z

LEMMA SaysBounds ==
  ASSUME NEW q \in Seq(Msg), NEW a \in Nat, NEW b \in Nat, Greets(q, a, b)
  PROVE  a <= b
<1>1. PICK c \in [0 .. Len(q) -> a .. b] : c[0] = a
  BY DEF Greets
<1>2. 0 \in 0 .. Len(q)
  BY LongerMsgs
<1>3. QED
  BY <1>1, <1>2

\* One message.
LEMMA SaysOne ==
  ASSUME NEW m \in Msg, NEW a \in Nat, NEW b \in Nat
  PROVE  Greets(<<m>>, a, b) <=>
           IF m.is \in TextKinds THEN a < b /\ m.of = Run(a, b) ELSE a = b
<1> DEFINE q == <<m>>
<1>1. q = Append(<< >>, m) /\ << >> \in Seq(Msg) /\ q \in Seq(Msg) /\ q # << >>
      /\ Head(q) = m /\ Tail(q) = << >>
  OBVIOUS
<1> HIDE DEF q
<1>2. ASSUME IF m.is \in TextKinds THEN a < b /\ m.of = Run(a, b) ELSE a = b
      PROVE  Greets(q, a, b)
  <2>1. Greets(<< >>, a, a)
    BY SaysNothing
  <2>2. QED
    BY <1>1, <1>2, <2>1, SaysAdded
<1>3. ASSUME Greets(q, a, b)
      PROVE  IF m.is \in TextKinds THEN a < b /\ m.of = Run(a, b) ELSE a = b
  <2>1. PICK d \in Nat : /\ IF Head(q).is \in TextKinds THEN a < d /\ Head(q).of = Run(a, d) ELSE a = d
                         /\ Greets(Tail(q), d, b)
    BY <1>1, <1>3, SaysOn
  <2>2. d = b
    BY <1>1, <2>1, SaysNothing
  <2>3. QED
    BY <1>1, <2>1, <2>2
<1>4. QED
  BY <1>2, <1>3 DEF q

LEMMA Runs ==
  ASSUME NEW a \in Nat, NEW b \in Nat, a <= b
  PROVE  /\ Run(a, b) \in Seq(Nat) /\ Len(Run(a, b)) = b - a /\ DOMAIN Run(a, b) = 1 .. b - a
         /\ \A k \in 1 .. b - a : Run(a, b)[k] = a + k
         /\ (Run(a, b) = << >>) <=> (a = b)
<1>1. b - a \in Nat
  OBVIOUS
<1>2. /\ Run(a, b) \in Seq(Nat) /\ Len(Run(a, b)) = b - a /\ DOMAIN Run(a, b) = 1 .. b - a
      /\ \A k \in 1 .. b - a : Run(a, b)[k] = a + k
  BY <1>1 DEF Run
<1>3. (Run(a, b) = << >>) <=> (Len(Run(a, b)) = 0)
  BY <1>2
<1>4. QED
  BY <1>2, <1>3

LEMMA Behind ==
  ASSUME NEW S, NEW x \in Seq(S), NEW y \in Seq(S)
  PROVE  /\ x \o y \in Seq(S) /\ Len(x \o y) = Len(x) + Len(y)
         /\ \A k \in 1 .. Len(x) : (x \o y)[k] = x[k]
         /\ \A k \in 1 .. Len(y) : (x \o y)[Len(x) + k] = y[k]
  OBVIOUS

LEMMA RunJoined ==
  ASSUME NEW a \in Nat, NEW b \in Nat, NEW c \in Nat, a <= b, b <= c
  PROVE  Run(a, b) \o Run(b, c) = Run(a, c)
<1> DEFINE x == Run(a, b)  y == Run(b, c)  z == x \o y
<1>1. /\ x \in Seq(Nat) /\ y \in Seq(Nat) /\ Len(x) = b - a /\ Len(y) = c - b
      /\ \A k \in 1 .. b - a : x[k] = a + k
      /\ \A k \in 1 .. c - b : y[k] = b + k
  BY Runs
<1> HIDE DEF x, y
<1>2. z \in Seq(Nat) /\ Len(z) = c - a
  BY <1>1
<1>3. ASSUME NEW k \in 1 .. c - a PROVE z[k] = a + k
  <2>1. CASE k <= b - a
    BY <1>1, <2>1
  <2>2. CASE k > b - a
    <3> DEFINE i == k - (b - a)
    <3>1. i \in 1 .. Len(y) /\ k = Len(x) + i /\ b + i = a + k
      BY <1>1, <2>2
    <3>a. \A j \in 1 .. Len(y) : z[Len(x) + j] = y[j]
      <4> HIDE DEF i
      <4> QED
        BY <1>1, SMT
    <3>2. z[Len(x) + i] = y[i]
      BY <3>1, <3>a
    <3>3. y[i] = b + i
      BY <1>1, <3>1
    <3> HIDE DEF i, z
    <3>4. QED
      BY <3>1, <3>2, <3>3
  <2>3. k <= b - a \/ k > b - a
    OBVIOUS
  <2>4. QED
    BY <2>1, <2>2, <2>3, Zenon
<1>4. z = [k \in 1 .. c - a |-> a + k]
  <2> HIDE DEF z
  <2>1. z = [k \in 1 .. Len(z) |-> z[k]]
    BY <1>2
  <2>2. QED
    BY <1>2, <1>3, <2>1
<1>5. QED
  BY <1>4 DEF Run, x, y

\* The account of the words.
LEMMA TokenOf ==
  ASSUME NEW t \in Seq(Nat), t # << >>
  PROVE  /\ Message("token", t) \in Msg /\ Message("token", t).is = "token"
         /\ Message("token", t).of = t /\ "token" \in TextKinds /\ "token" \notin Parts
  BY DEF Message, Msg, Content, TextKinds, Parts

LEMMA RunNothing ==
  ASSUME NEW e \in Nat
  PROVE  Greets(<< >>, e, e) /\ (<< >> = Run(e, e)) /\ e <= e
<1>1. e <= e
  OBVIOUS
<1>2. Run(e, e) = << >>
  BY <1>1, Runs
<1>3. Greets(<< >>, e, e)
  BY SaysNothing
<1>4. QED
  BY <1>1, <1>2, <1>3, Zenon

LEMMA WordsAdded ==
  ASSUME NEW w, NEW t, NEW h, NEW q \in Seq(Msg), NEW a \in Nat, NEW b \in Nat, NEW d \in Nat,
         SaysAll(w, t, h, q, a, b), NEW m \in Msg,
         IF m.is \in TextKinds THEN b < d /\ m.of = Run(b, d) ELSE b = d
  PROVE  SaysAll(w, t, h, Append(q, m), a, d)
<1>1. PICK b1, b2, b3 \in Nat : /\ Greets(w, a, b1) /\ b1 <= b2 /\ t = Run(b1, b2)
                                /\ Greets(h, b2, b3) /\ Greets(q, b3, b)
  BY DEF SaysAll
<1>2. Greets(Append(q, m), b3, d)
  BY <1>1, SaysAdded
<1>3. QED
  BY <1>1, <1>2 DEF SaysAll

LEMMA WordsSent ==
  ASSUME NEW w \in Seq(Msg), NEW t, NEW h, NEW q, NEW a \in Nat, NEW b \in Nat,
         SaysAll(w, t, h, q, a, b), NEW m \in Msg, m.is \notin TextKinds
  PROVE  SaysAll(Append(w, m), t, h, q, a, b)
<1>1. PICK b1, b2, b3 \in Nat : /\ Greets(w, a, b1) /\ b1 <= b2 /\ t = Run(b1, b2)
                                /\ Greets(h, b2, b3) /\ Greets(q, b3, b)
  BY DEF SaysAll
<1>2. Greets(Append(w, m), a, b1)
  BY <1>1, SaysAdded
<1>3. QED
  BY <1>1, <1>2 DEF SaysAll

LEMMA WordsRead ==
  ASSUME NEW w \in Seq(Msg), w # << >>, NEW t, NEW h, NEW q, NEW a \in Nat, NEW b \in Nat,
         SaysAll(w, t, h, q, a, b)
  PROVE  \E d \in Nat : /\ IF Head(w).is \in TextKinds THEN a < d /\ Head(w).of = Run(a, d) ELSE a = d
                        /\ SaysAll(Tail(w), t, h, q, d, b)
<1>1. PICK b1, b2, b3 \in Nat : /\ Greets(w, a, b1) /\ b1 <= b2 /\ t = Run(b1, b2)
                                /\ Greets(h, b2, b3) /\ Greets(q, b3, b)
  BY DEF SaysAll
<1>2. PICK d \in Nat : /\ IF Head(w).is \in TextKinds THEN a < d /\ Head(w).of = Run(a, d) ELSE a = d
                       /\ Greets(Tail(w), d, b1)
  BY <1>1, SaysOn
<1>3. SaysAll(Tail(w), t, h, q, d, b)
  BY <1>1, <1>2 DEF SaysAll
<1>4. QED
  BY <1>2, <1>3

LEMMA WordsTaken ==
  ASSUME NEW w \in Seq(Msg), NEW t \in Seq(Nat), NEW q \in Seq(Msg), q # << >>,
         NEW a \in Nat, NEW b \in Nat, SaysAll(w, t, << >>, q, a, b),
         NEW m \in Msg, m.is = Head(q).is, m.is \in TextKinds => m.of = Head(q).of
  PROVE  /\ m.is \in TextKinds => SaysAll(w, t \o m.of, << >>, Tail(q), a, b)
         /\ t = << >> => SaysAll(Append(w, m), << >>, << >>, Tail(q), a, b)
         /\ t # << >> => SaysAll(Append(w, Message("token", t)), << >>, <<m>>, Tail(q), a, b)
<1>1. PICK b1, b2, b3 \in Nat : /\ Greets(w, a, b1) /\ b1 <= b2 /\ t = Run(b1, b2)
                                /\ Greets(<< >>, b2, b3) /\ Greets(q, b3, b)
  BY DEF SaysAll
<1>2. b2 = b3
  BY <1>1, SaysNothing
<1>3. PICK d \in Nat : /\ IF m.is \in TextKinds THEN b2 < d /\ m.of = Run(b2, d) ELSE b2 = d
                       /\ Greets(Tail(q), d, b)
  BY <1>1, <1>2, SaysOn
<1>4. ASSUME NEW e \in Nat PROVE Greets(<< >>, e, e) /\ (<< >> = Run(e, e)) /\ e <= e
  BY RunNothing
<1>5. ASSUME m.is \in TextKinds PROVE SaysAll(w, t \o m.of, << >>, Tail(q), a, b)
  <2>a. b2 <= d /\ b1 <= d /\ m.of = Run(b2, d)
    BY <1>1, <1>3, <1>5
  <2>b. Run(b1, b2) \o Run(b2, d) = Run(b1, d)
    BY <1>1, <2>a, RunJoined
  <2>1. t \o m.of = Run(b1, d) /\ b1 <= d
    BY <1>1, <2>a, <2>b, Zenon
  <2>2. QED
    BY <1>1, <1>3, <1>4, <2>1 DEF SaysAll
<1>6. ASSUME t = << >> PROVE SaysAll(Append(w, m), << >>, << >>, Tail(q), a, b)
  <2>1. b1 = b2
    BY <1>1, <1>6, Runs
  <2>2. Greets(Append(w, m), a, d)
    BY <1>1, <1>3, <2>1, SaysAdded
  <2>3. QED
    BY <1>3, <1>4, <2>2 DEF SaysAll
<1>7. ASSUME t # << >>
      PROVE  SaysAll(Append(w, Message("token", t)), << >>, <<m>>, Tail(q), a, b)
  <2>1. b1 < b2
    <3>1. b1 <= b2 /\ t = Run(b1, b2)
      BY <1>1
    <3>2. b1 # b2
      BY <1>7, <3>1, Runs, Zenon
    <3> QED
      BY <3>1, <3>2
  <2>2. Greets(Append(w, Message("token", t)), a, b2)
    BY <1>1, <1>7, <2>1, TokenOf, SaysAdded
  <2>3. Greets(<<m>>, b2, d)
    BY <1>3, SaysOne
  <2>4. QED
    BY <1>3, <1>4, <2>2, <2>3 DEF SaysAll
<1>8. QED
  BY <1>5, <1>6, <1>7

LEMMA WordsFlushed ==
  ASSUME NEW w \in Seq(Msg), NEW t \in Seq(Nat), NEW h, NEW q, NEW a \in Nat, NEW b \in Nat,
         SaysAll(w, t, h, q, a, b)
  PROVE  /\ h = << >> /\ t # << >> => SaysAll(Append(w, Message("token", t)), << >>, << >>, q, a, b)
         /\ \A m \in Msg : h = <<m>> /\ t = << >> => SaysAll(Append(w, m), << >>, << >>, q, a, b)
<1>1. PICK b1, b2, b3 \in Nat : /\ Greets(w, a, b1) /\ b1 <= b2 /\ t = Run(b1, b2)
                                /\ Greets(h, b2, b3) /\ Greets(q, b3, b)
  BY DEF SaysAll
<1>2. ASSUME NEW e \in Nat PROVE Greets(<< >>, e, e) /\ (<< >> = Run(e, e)) /\ e <= e
  BY RunNothing
<1>3. ASSUME h = << >>, t # << >>
      PROVE  SaysAll(Append(w, Message("token", t)), << >>, << >>, q, a, b)
  <2>1. b1 < b2 /\ b2 = b3
    BY <1>1, <1>3, Runs, SaysNothing
  <2>2. Greets(Append(w, Message("token", t)), a, b2)
    BY <1>1, <1>3, <2>1, TokenOf, SaysAdded
  <2>3. QED
    BY <1>1, <1>2, <2>1, <2>2 DEF SaysAll
<1>4. ASSUME NEW m \in Msg, h = <<m>>, t = << >>
      PROVE  SaysAll(Append(w, m), << >>, << >>, q, a, b)
  <2>1. b1 = b2
    BY <1>1, <1>4, Runs
  <2>2. IF m.is \in TextKinds THEN b2 < b3 /\ m.of = Run(b2, b3) ELSE b2 = b3
    BY <1>1, <1>4, SaysOne
  <2>3. Greets(Append(w, m), a, b3)
    BY <1>1, <2>1, <2>2, SaysAdded
  <2>4. QED
    BY <1>1, <1>2, <2>3 DEF SaysAll
<1>5. QED
  BY <1>3, <1>4

-----------------------------------------------------------------------------
\* What the account says of the texts, one after the other.
LEMMA SaysInOrder ==
  ASSUME NEW q \in Seq(Msg), NEW a \in Nat, NEW b \in Nat, Greets(q, a, b)
  PROVE  InOrder(q, a, b)
<1> DEFINE n == Len(q)
<1>1. n \in Nat /\ DOMAIN q = 1 .. n
  BY LongerMsgs
<1>2. PICK c \in [0 .. n -> a .. b] :
        /\ c[0] = a /\ c[n] = b
        /\ \A j, k \in 0 .. n : j <= k => c[j] <= c[k]
        /\ \A k \in DOMAIN q : IF q[k].is \in TextKinds
                               THEN c[k - 1] < c[k] /\ q[k].of = Run(c[k - 1], c[k])
                               ELSE c[k] = c[k - 1]
  BY DEF Greets
<1> HIDE DEF n
<1>3. ASSUME NEW k \in TextsIn(q)
      PROVE  /\ k \in 1 .. n /\ k \in 0 .. n /\ k - 1 \in 0 .. n /\ c[k] \in a .. b /\ c[k - 1] \in a .. b
             /\ DOMAIN q[k].of = 1 .. c[k] - c[k - 1]
             /\ \A i \in 1 .. c[k] - c[k - 1] : q[k].of[i] = c[k - 1] + i
             /\ WordsOf(q[k]) = c[k - 1] + 1 .. c[k]
  <2>1. k \in 1 .. n /\ k \in 0 .. n /\ k - 1 \in 0 .. n /\ q[k].is \in TextKinds
    BY <1>1 DEF TextsIn
  <2>2. c[k] \in a .. b /\ c[k - 1] \in a .. b /\ c[k - 1] < c[k] /\ q[k].of = Run(c[k - 1], c[k])
    BY <1>1, <1>2, <2>1
  <2> DEFINE x == c[k - 1]  y == c[k]
  <2>3. x \in Nat /\ y \in Nat /\ x < y /\ q[k].of = Run(x, y)
    BY <2>2
  <2> HIDE DEF x, y
  <2>a. x <= y
    BY <2>3
  <2>b. DOMAIN Run(x, y) = 1 .. y - x /\ \A i \in 1 .. y - x : Run(x, y)[i] = x + i
    BY <2>3, <2>a, Runs
  <2>4. DOMAIN q[k].of = 1 .. y - x /\ \A i \in 1 .. y - x : q[k].of[i] = x + i
    BY <2>3, <2>b, Zenon
  <2>5. WordsOf(q[k]) = x + 1 .. y
    <3>1. ASSUME NEW i \in 1 .. y - x PROVE x + i \in x + 1 .. y
      BY <2>3
    <3>2. ASSUME NEW w \in x + 1 .. y PROVE w - x \in 1 .. y - x /\ x + (w - x) = w
      BY <2>3
    <3>3. WordsOf(q[k]) = {x + i : i \in 1 .. y - x}
      BY <2>4 DEF WordsOf
    <3>4. QED
      BY <3>1, <3>2, <3>3
  <2>6. QED
    BY <2>1, <2>2, <2>4, <2>5 DEF x, y
<1>4. ASSUME NEW k \in TextsIn(q), NEW i \in DOMAIN q[k].of, NEW j \in DOMAIN q[k].of
      PROVE  q[k].of[j] - q[k].of[i] = j - i
  <2> DEFINE x == c[k - 1]  y == c[k]
  <2>1. /\ x \in Int /\ y \in Int /\ DOMAIN q[k].of = 1 .. y - x
        /\ \A e \in 1 .. y - x : q[k].of[e] = x + e
    BY <1>3
  <2> HIDE DEF x, y
  <2>2. q[k].of[j] = x + j /\ q[k].of[i] = x + i /\ i \in Int /\ j \in Int
    BY <2>1
  <2>3. QED
    BY <2>1, <2>2
<1>5. ASSUME NEW j \in TextsIn(q), NEW k \in TextsIn(q), j < k, NEW v \in WordsOf(q[j]), NEW w \in WordsOf(q[k])
      PROVE  v < w
  <2>1. j \in 0 .. n /\ k - 1 \in 0 .. n /\ j <= k - 1
    BY <1>3, <1>5
  <2>2. c[j] <= c[k - 1]
    BY <1>2, <2>1
  <2>a. c[j] \in a .. b /\ c[j - 1] \in a .. b /\ WordsOf(q[j]) = c[j - 1] + 1 .. c[j]
    BY <1>3
  <2>b. c[k] \in a .. b /\ c[k - 1] \in a .. b /\ WordsOf(q[k]) = c[k - 1] + 1 .. c[k]
    BY <1>3
  <2> DEFINE x == c[j]  y == c[k - 1]
  <2>3. x \in Int /\ y \in Int /\ x <= y /\ v \in c[j - 1] + 1 .. x /\ w \in y + 1 .. c[k]
        /\ c[j - 1] \in Int /\ c[k] \in Int
    BY <1>5, <2>2, <2>a, <2>b
  <2> HIDE DEF x, y
  <2>4. QED
    BY <2>3
<1>6. ASSUME NEW k \in TextsIn(q) PROVE WordsOf(q[k]) \subseteq a + 1 .. b
  BY <1>3
<1>7. ASSUME NEW w \in a + 1 .. b PROVE \E k \in TextsIn(q) : w \in WordsOf(q[k])
  <2> DEFINE K == {k \in 0 .. n : c[k] >= w}
  <2>1. K \subseteq Nat /\ n \in K
    BY <1>1, <1>2
  <2>2. PICK k \in K : \A j \in K : <<j, k>> \notin OpToRel(<, Nat)
    BY <2>1, NatLessThanWellFounded, WFMin, Zenon
  <2>3. \A j \in K : ~(j < k)
    BY <2>1, <2>2, Zenon DEF OpToRel
  <2>4. k \in 0 .. n /\ c[k] >= w /\ c[k] \in a .. b
    BY <1>2
  <2>5. k # 0
    BY <1>2, <2>4
  <2>6. k \in DOMAIN q /\ k - 1 \in 0 .. n /\ k - 1 < k
    BY <1>1, <2>4, <2>5
  <2>7. ~(c[k - 1] >= w) /\ c[k - 1] \in a .. b
    BY <1>2, <2>3, <2>6
  <2>8. c[k] # c[k - 1]
    BY <2>4, <2>7
  <2>9. k \in TextsIn(q)
    BY <1>2, <2>6, <2>8 DEF TextsIn
  <2>10. w \in WordsOf(q[k])
    BY <1>3, <2>4, <2>7, <2>9
  <2>11. QED
    BY <2>9, <2>10
<1>8. UNION {WordsOf(q[k]) : k \in TextsIn(q)} = a + 1 .. b
  BY <1>6, <1>7
<1>9. QED
  BY <1>4, <1>5, <1>8 DEF InOrder

LEMMA TokenInOrder ==
  ASSUME NEW a \in Nat, NEW b \in Nat, a <= b, NEW t, t = Run(a, b)
  PROVE  InOrder(<<Message("token", t)>>, a, b)
<1> DEFINE m == Message("token", t)  q == <<m>>
<1>1. t \in Seq(Nat) /\ DOMAIN t = 1 .. b - a /\ \A k \in 1 .. b - a : t[k] = a + k
  BY Runs
<1>2. m.is \in TextKinds /\ m.of = t
  BY DEF Message, TextKinds
<1>3. q[1] = m /\ DOMAIN q = {1}
  OBVIOUS
<1>4. TextsIn(q) = {1}
  BY <1>2, <1>3 DEF TextsIn
<1> HIDE DEF q, m
<1>5. WordsOf(m) = a + 1 .. b
  <2>1. WordsOf(m) = {a + i : i \in 1 .. b - a}
    BY <1>1, <1>2 DEF WordsOf
  <2>2. ASSUME NEW w \in a + 1 .. b PROVE w - a \in 1 .. b - a /\ a + (w - a) = w
    OBVIOUS
  <2>3. ASSUME NEW i \in 1 .. b - a PROVE a + i \in a + 1 .. b
    OBVIOUS
  <2>4. QED
    BY <2>1, <2>2, <2>3
<1>6. UNION {WordsOf(q[k]) : k \in TextsIn(q)} = a + 1 .. b
  BY <1>3, <1>4, <1>5
<1>7. \A k \in TextsIn(q) : \A i, j \in DOMAIN q[k].of : q[k].of[j] - q[k].of[i] = j - i
  BY <1>1, <1>2, <1>3, <1>4
<1>8. \A j, k \in TextsIn(q) : ~(j < k)
  BY <1>4
<1>9. QED
  BY <1>6, <1>7, <1>8 DEF InOrder, q, m

LEMMA InOrderJoined ==
  ASSUME NEW S, NEW q \in Seq(S), NEW r \in Seq(S), NEW a \in Nat, NEW b \in Nat, NEW c \in Nat,
         a <= b, b <= c, InOrder(q, a, b), InOrder(r, b, c)
  PROVE  InOrder(q \o r, a, c)
<1> DEFINE z == q \o r  n == Len(q)
<1>1. /\ z \in Seq(S) /\ Len(z) = n + Len(r) /\ n \in Nat /\ Len(r) \in Nat
      /\ \A k \in 1 .. n : z[k] = q[k]
      /\ \A k \in 1 .. Len(r) : z[n + k] = r[k]
      /\ DOMAIN z = 1 .. n + Len(r) /\ DOMAIN q = 1 .. n /\ DOMAIN r = 1 .. Len(r)
  BY Behind
<1> HIDE DEF z, n
<1>2. ASSUME NEW k \in TextsIn(z)
      PROVE  \/ k <= n /\ k \in TextsIn(q) /\ z[k] = q[k]
             \/ k > n /\ k - n \in TextsIn(r) /\ z[k] = r[k - n]
  <2>1. k \in 1 .. n + Len(r) /\ z[k].is \in TextKinds
    BY <1>1 DEF TextsIn
  <2>2. CASE k <= n
    BY <1>1, <2>1, <2>2 DEF TextsIn
  <2>3. CASE k > n
    <3>1. k - n \in 1 .. Len(r) /\ n + (k - n) = k
      BY <1>1, <2>1, <2>3
    <3>2. z[k] = r[k - n]
      BY <1>1, <3>1
    <3>3. QED
      BY <1>1, <2>1, <2>3, <3>1, <3>2 DEF TextsIn
  <2>4. k <= n \/ k > n
    BY <1>1, <2>1
  <2>5. QED
    BY <2>2, <2>3, <2>4
<1>3. ASSUME NEW k \in TextsIn(q) PROVE k \in TextsIn(z) /\ z[k] = q[k]
  BY <1>1 DEF TextsIn
<1>4. ASSUME NEW k \in TextsIn(r) PROVE n + k \in TextsIn(z) /\ z[n + k] = r[k]
  BY <1>1 DEF TextsIn
<1>5. /\ UNION {WordsOf(q[k]) : k \in TextsIn(q)} = a + 1 .. b
      /\ UNION {WordsOf(r[k]) : k \in TextsIn(r)} = b + 1 .. c
  BY DEF InOrder
<1>6. \A k \in TextsIn(z) : \A i, j \in DOMAIN z[k].of : z[k].of[j] - z[k].of[i] = j - i
  BY <1>2 DEF InOrder
<1>7. ASSUME NEW j \in TextsIn(z), NEW k \in TextsIn(z), j < k, NEW v \in WordsOf(z[j]), NEW w \in WordsOf(z[k])
      PROVE  v < w
  <2>0. j \in Int /\ k \in Int
    BY <1>1 DEF TextsIn
  <2>1. CASE k <= n
    <3>1. k \in TextsIn(q) /\ z[k] = q[k] /\ j \in TextsIn(q) /\ z[j] = q[j]
      BY <1>1, <1>2, <1>7, <2>0, <2>1
    <3>2. QED
      BY <1>7, <3>1 DEF InOrder
  <2>2. CASE j > n
    <3>1. k - n \in TextsIn(r) /\ z[k] = r[k - n] /\ j - n \in TextsIn(r) /\ z[j] = r[j - n] /\ j - n < k - n
      BY <1>1, <1>2, <1>7, <2>0, <2>2
    <3>2. QED
      BY <1>7, <3>1 DEF InOrder
  <2>3. CASE j <= n /\ k > n
    <3>1. k - n \in TextsIn(r) /\ z[k] = r[k - n] /\ j \in TextsIn(q) /\ z[j] = q[j]
      BY <1>1, <1>2, <2>0, <2>3
    <3>2. v \in a + 1 .. b /\ w \in b + 1 .. c
      BY <1>5, <1>7, <3>1
    <3>3. QED
      BY <3>2
  <2>4. k <= n \/ j > n \/ (j <= n /\ k > n)
    BY <1>1, <2>0
  <2>5. QED
    BY <2>1, <2>2, <2>3, <2>4
<1>8. UNION {WordsOf(z[k]) : k \in TextsIn(z)} = a + 1 .. c
  <2>1. ASSUME NEW k \in TextsIn(z), NEW w \in WordsOf(z[k]) PROVE w \in a + 1 .. b \/ w \in b + 1 .. c
    BY <1>2, <1>5, <2>1
  <2>2. ASSUME NEW w \in a + 1 .. c PROVE \E k \in TextsIn(z) : w \in WordsOf(z[k])
    <3>1. w \in a + 1 .. b \/ w \in b + 1 .. c
      OBVIOUS
    <3>2. \/ \E k \in TextsIn(q) : w \in WordsOf(q[k])
          \/ \E k \in TextsIn(r) : w \in WordsOf(r[k])
      BY <1>5, <3>1
    <3>3. QED
      BY <1>3, <1>4, <3>2
  <2>3. a + 1 .. b \subseteq a + 1 .. c /\ b + 1 .. c \subseteq a + 1 .. c
    OBVIOUS
  <2>4. QED
    BY <2>1, <2>2, <2>3
<1>9. QED
  BY <1>6, <1>7, <1>8 DEF InOrder, z

-----------------------------------------------------------------------------
\* The session publishes.
Pub(q, st, n) ==
  /\ SaysAll(wire, buffer, held, q, heard, n)
  /\ \A p \in Followed : TellsAll(wire, held, q, p, Base(p), st[p])

LEMMA SeenFull ==
  ASSUME NEW s \in Seen
  PROVE  s \in Full
<1>1. \A p \in Parts : s[p] \in Content
  BY DEF Seen, Parts, Content
<1>2. s = [p \in Parts |-> s[p]]
  BY DEF Seen, Parts
<1>3. QED
  BY <1>1, <1>2 DEF Full

LEMMA FollowedParts == Followed \subseteq Parts
  BY DEF Followed, Parts

LEMMA PartMsg ==
  ASSUME NEW p \in Parts, NEW x \in Content
  PROVE  /\ Message(p, x) \in Msg /\ Message(p, x).is = p /\ Message(p, x).of = x
         /\ Message(p, x).is \notin TextKinds
  BY DEF Message, Msg, Parts, TextKinds

LEMMA WordMsg ==
  ASSUME NEW t \in TextKinds, NEW n \in Nat
  PROVE  /\ Message(t, <<n + 1>>) \in Msg /\ Message(t, <<n + 1>>).is = t
         /\ Message(t, <<n + 1>>).of = Run(n, n + 1) /\ n < n + 1 /\ n + 1 \in Nat
         /\ t \notin Parts
<1>1. n + 1 \in Nat /\ n < n + 1 /\ n + 1 - n = 1
  OBVIOUS
<1>2. <<n + 1>> \in Seq(Nat) \ {<< >>}
  BY <1>1
<1>3. Run(n, n + 1) = <<n + 1>>
  BY <1>1 DEF Run
<1>4. /\ Message(t, <<n + 1>>) \in Msg /\ Message(t, <<n + 1>>).is = t
      /\ Message(t, <<n + 1>>).of = <<n + 1>>
  BY <1>2 DEF Message, Msg, Parts, TextKinds
<1>5. QED
  BY <1>1, <1>3, <1>4 DEF Parts, TextKinds

LEMMA PubPart ==
  ASSUME FeedTyped, NEW q \in Seq(Msg), NEW st, NEW n \in Nat, Pub(q, st, n),
         NEW p \in Parts, NEW x \in Content, NEW s2,
         \A r \in Parts : s2[r] = IF r = p THEN x ELSE st[r]
  PROVE  Pub(Append(q, Message(p, x)), s2, n)
<1> DEFINE m == Message(p, x)
<1>1. m \in Msg /\ m.is = p /\ m.of = x /\ m.is \notin TextKinds
  BY PartMsg
<1> HIDE DEF m
<1>2. SaysAll(wire, buffer, held, Append(q, m), heard, n)
  BY <1>1, WordsAdded DEF Pub, FeedTyped
<1>3. ASSUME NEW r \in Followed
      PROVE  TellsAll(wire, held, Append(q, m), r, Base(r), s2[r])
  <2>1. s2[r] = IF m.is = r THEN m.of ELSE st[r]
    BY <1>1, FollowedParts
  <2>2. TellsAll(wire, held, q, r, Base(r), st[r])
    BY DEF Pub
  <2>3. TellsAll(wire, held, Append(q, m), r, Base(r), IF m.is = r THEN m.of ELSE st[r])
    BY <1>1, <2>2, PartAdded
  <2>4. QED
    BY <2>1, <2>3
<1>4. QED
  BY <1>2, <1>3 DEF Pub, m

LEMMA PubWord ==
  ASSUME FeedTyped, NEW q \in Seq(Msg), NEW st, NEW n \in Nat, Pub(q, st, n), NEW t \in TextKinds
  PROVE  Pub(Append(q, Message(t, <<n + 1>>)), st, n + 1)
<1> DEFINE m == Message(t, <<n + 1>>)
<1>1. m \in Msg /\ m.is = t /\ m.of = Run(n, n + 1) /\ n < n + 1 /\ n + 1 \in Nat /\ t \notin Parts
  BY WordMsg
<1> HIDE DEF m
<1>2. SaysAll(wire, buffer, held, Append(q, m), heard, n + 1)
  BY <1>1, WordsAdded DEF Pub, FeedTyped
<1>3. ASSUME NEW r \in Followed
      PROVE  TellsAll(wire, held, Append(q, m), r, Base(r), st[r])
  <2>1. m.is # r
    BY <1>1, FollowedParts
  <2>2. TellsAll(wire, held, q, r, Base(r), st[r])
    BY DEF Pub
  <2>3. TellsAll(wire, held, Append(q, m), r, Base(r), IF m.is = r THEN m.of ELSE st[r])
    BY <1>1, <2>2, PartAdded
  <2>4. QED
    BY <2>1, <2>3
<1>4. QED
  BY <1>2, <1>3 DEF Pub, m

\* What there is to show of a step of the session.
LEMMA SessionSays ==
  ASSUME FeedInv, UNCHANGED <<daemonside, clientside>>, state' \in Seen, words' \in Nat,
         NEW es, Publish(es), queue \o es \in Seq(Msg),
         Pub(queue, state, words) => Pub(queue \o es, state', words')
  PROVE  FeedInv'
<1>1. UNCHANGED <<handler, conn, buffer, held, wire, kind, viewer, shown, heard, dropped>>
  BY DEF daemonside, clientside
<1>2. queue' \in Seq(Msg)
  BY DEF Publish, FeedInv, FeedTyped
<1>3. FeedTyped' /\ FeedShape'
  BY <1>1, <1>2 DEF FeedInv, FeedTyped, FeedShape
<1>4. Listening' => Listening
  BY <1>1 DEF Listening
<1>5. ASSUME Listening PROVE FeedTrue'
  <2>1. handler # "away"
    BY <1>5 DEF FeedInv, FeedShape, Listening
  <2>2. queue' = queue \o es
    BY <2>1 DEF Publish
  <2>3. Pub(queue \o es, state', words')
    BY <1>5 DEF FeedInv, FeedTrue, Pub
  <2>4. /\ SaysAll(wire, buffer, held, queue \o es, heard, words')
        /\ \A p \in Followed : TellsAll(wire, held, queue \o es, p, Base(p), state'[p])
    BY <2>3, Zenon DEF Pub
  <2>5. Followed' = Followed /\ \A p : Base(p)' = Base(p)
    BY <1>1 DEF Followed, Base
  <2>6. QED
    BY <1>1, <2>2, <2>4, <2>5 DEF FeedTrue
<1>6. QED
  BY <1>3, <1>4, <1>5 DEF FeedInv

LEMMA OneMore ==
  ASSUME NEW q \in Seq(Msg), NEW m \in Msg
  PROVE  q \o <<m>> = Append(q, m) /\ Append(q, m) \in Seq(Msg)
  OBVIOUS

\* One part of the session's state changes, or is said again.
LEMMA PartSays ==
  ASSUME FeedInv, NEW p \in Parts, NEW x \in Content, state' \in Seen,
         \A r \in Parts : state'[r] = IF r = p THEN x ELSE state[r],
         Happens(<<Message(p, x)>>), UNCHANGED <<words, daemonside, clientside>>
  PROVE  FeedInv'
<1>1. FeedTyped /\ queue \in Seq(Msg) /\ words \in Nat /\ words' = words
  BY DEF FeedInv, FeedTyped
<1>2. Message(p, x) \in Msg
  BY PartMsg
<1>3. queue \o <<Message(p, x)>> = Append(queue, Message(p, x)) /\ Append(queue, Message(p, x)) \in Seq(Msg)
  BY <1>1, <1>2, OneMore
<1>4. Pub(queue, state, words) => Pub(Append(queue, Message(p, x)), state', words)
  BY <1>1, PubPart
<1>5. QED
  BY <1>1, <1>3, <1>4, SessionSays DEF Happens

LEMMA SessionKeeps ==
  ASSUME FeedInv, TurnBegins \/ TurnIsOver \/ AgentSays \/ TurnsAuto \/ SetsChartView \/ SetsWatchlist
  PROVE  FeedInv'
<1>1. FeedTyped /\ queue \in Seq(Msg) /\ words \in Nat /\ state \in Seen
  BY DEF FeedInv, FeedTyped
<1>2. state.auto \in BOOLEAN /\ state.view \in {0, 1} /\ state.watch \in {0, 1}
  BY <1>1 DEF Seen
<1>3. {"status", "auto", "view", "watch"} = Parts
  BY DEF Parts
<1>4. {"busy", "idle", FALSE, TRUE, 0, 1} \subseteq Content
  BY DEF Content
<1>5. CASE TurnBegins
  <2>1. state' \in Seen /\ \A r \in Parts : state'[r] = IF r = "status" THEN "busy" ELSE state[r]
    BY <1>1, <1>5 DEF TurnBegins, Seen, Parts
  <2>2. QED
    BY <1>3, <1>4, <1>5, <2>1, PartSays DEF TurnBegins
<1>6. CASE TurnsAuto
  <2> DEFINE x == ~state.auto
  <2>1. x = TRUE \/ x = FALSE
    BY <1>2, Zenon
  <2>2. state' = [state EXCEPT !.auto = x] /\ Happens(<<Message("auto", x)>>)
        /\ UNCHANGED <<words, daemonside, clientside>>
    BY <1>6, Zenon DEF TurnsAuto
  <2> HIDE DEF x
  <2>3. x \in Content /\ x \in BOOLEAN
    BY <1>4, <2>1
  <2>4. state' \in Seen /\ \A r \in Parts : state'[r] = IF r = "auto" THEN x ELSE state[r]
    BY <1>1, <2>2, <2>3 DEF Seen, Parts
  <2>5. QED
    BY <1>3, <2>2, <2>3, <2>4, PartSays
<1>7. CASE SetsChartView
  <2>1. 1 - state.view \in Content
    BY <1>2, <1>4
  <2>2. state' \in Seen /\ \A r \in Parts : state'[r] = IF r = "view" THEN 1 - state.view ELSE state[r]
    BY <1>1, <1>2, <1>7 DEF SetsChartView, Seen, Parts
  <2>3. QED
    BY <1>3, <1>7, <2>1, <2>2, PartSays DEF SetsChartView
<1>8. CASE SetsWatchlist
  <2>1. 1 - state.watch \in Content
    BY <1>2, <1>4
  <2>2. state' \in Seen /\ \A r \in Parts : state'[r] = IF r = "watch" THEN 1 - state.watch ELSE state[r]
    BY <1>1, <1>2, <1>8 DEF SetsWatchlist, Seen, Parts
  <2>3. QED
    BY <1>3, <1>8, <2>1, <2>2, PartSays DEF SetsWatchlist
<1>9. CASE AgentSays
  <2>1. state' = state /\ UNCHANGED <<daemonside, clientside>>
    BY <1>9 DEF AgentSays
  <2>2. ASSUME NEW t \in {"token", "final"}, words' = words + 1, Happens(<<Message(t, <<words + 1>>)>>)
        PROVE  FeedInv'
    <3> DEFINE m == Message(t, <<words + 1>>)
    <3>1. t \in TextKinds
      BY DEF TextKinds
    <3>2. m \in Msg /\ words + 1 \in Nat
      BY <1>1, <3>1, WordMsg
    <3>3. Pub(queue, state, words) => Pub(Append(queue, m), state, words + 1)
      BY <1>1, <3>1, PubWord
    <3> HIDE DEF m
    <3>4. queue \o <<m>> = Append(queue, m) /\ Append(queue, m) \in Seq(Msg)
      BY <1>1, <3>2, OneMore
    <3>5. Publish(<<m>>)
      BY <2>2 DEF Happens, m
    <3>6. QED
      BY <1>1, <2>1, <2>2, <3>2, <3>3, <3>4, <3>5, SessionSays
  <2>3. ASSUME Happens(<<Message("status", "busy")>>), UNCHANGED words PROVE FeedInv'
    <3>1. state.status = "busy"
      BY <1>9 DEF AgentSays
    <3>2. \A r \in Parts : state'[r] = IF r = "status" THEN "busy" ELSE state[r]
      BY <2>1, <3>1
    <3>3. QED
      BY <1>1, <1>3, <1>4, <2>1, <2>3, <3>2, PartSays
  <2>4. QED
    BY <1>9, <2>2, <2>3 DEF AgentSays
<1>10. CASE TurnIsOver
  <2>1. ASSUME state' = [state EXCEPT !.status = "idle"], Happens(<<Message("status", "idle")>>),
               UNCHANGED words
        PROVE  FeedInv'
    <3>1. state' \in Seen /\ \A r \in Parts : state'[r] = IF r = "status" THEN "idle" ELSE state[r]
      BY <1>1, <2>1 DEF Seen, Parts
    <3>2. QED
      BY <1>3, <1>4, <1>10, <2>1, <3>1, PartSays DEF TurnIsOver
  <2>2. ASSUME words' = words + 1, state' = [state EXCEPT !.status = "idle", !.auto = FALSE],
               Happens(<<Message("error", <<words + 1>>)>>
                       \o (IF state.auto THEN <<Message("auto", FALSE)>> ELSE << >>)
                       \o <<Message("status", "idle")>>)
        PROVE  FeedInv'
    <3> DEFINE e == Message("error", <<words + 1>>)  a == Message("auto", FALSE)  i == Message("status", "idle")
               s1 == [state EXCEPT !.auto = FALSE]
               es == <<e>> \o (IF state.auto THEN <<a>> ELSE << >>) \o <<i>>
    <3>1. s1 \in Seen /\ \A r \in Parts : s1[r] = IF r = "auto" THEN FALSE ELSE state[r]
      BY <1>1 DEF Seen, Parts
    <3>2. state' \in Seen /\ \A r \in Parts : state'[r] = IF r = "status" THEN "idle" ELSE s1[r]
      BY <1>1, <2>2 DEF Seen, Parts
    <3>3. e \in Msg /\ a \in Msg /\ i \in Msg /\ words + 1 \in Nat /\ "error" \in TextKinds
      BY <1>1, <1>3, <1>4, WordMsg, PartMsg DEF TextKinds
    <3>4. ~state.auto => s1 = state
      BY <1>1, <1>2 DEF Seen
    <3>5. Pub(queue, state, words) => Pub(Append(queue, e), state, words + 1)
      BY <1>1, <3>3, PubWord
    <3> DEFINE q1 == Append(queue, e)  q2 == Append(q1, a)
    <3>6. q1 \in Seq(Msg) /\ q2 \in Seq(Msg) /\ Append(q1, i) \in Seq(Msg) /\ Append(q2, i) \in Seq(Msg)
      BY <1>1, <3>3, OneMore
    <3>7. queue \o es = IF state.auto THEN Append(q2, i) ELSE Append(q1, i)
      <4>1. queue \o (<<e>> \o <<a>> \o <<i>>) = Append(Append(Append(queue, e), a), i)
        <5> HIDE DEF e, a, i
        <5>1. QED
          BY <1>1, <3>3
      <4>2. queue \o (<<e>> \o << >> \o <<i>>) = Append(Append(queue, e), i)
        <5> HIDE DEF e, a, i
        <5>1. QED
          BY <1>1, <3>3
      <4>3. QED
        BY <4>1, <4>2
    <3> HIDE DEF q1, q2, s1, e
    <3>8. ASSUME Pub(queue, state, words), state.auto PROVE Pub(Append(q2, i), state', words + 1)
      <4>1. Pub(q2, s1, words + 1)
        BY <1>1, <1>3, <1>4, <3>1, <3>3, <3>5, <3>6, <3>8, PubPart DEF q1, q2
      <4>2. QED
        BY <1>1, <1>3, <1>4, <3>2, <3>3, <3>6, <4>1, PubPart
    <3>9. ASSUME Pub(queue, state, words), ~state.auto PROVE Pub(Append(q1, i), state', words + 1)
      <4>1. Pub(q1, s1, words + 1)
        BY <3>4, <3>5, <3>9 DEF q1
      <4>2. QED
        BY <1>1, <1>3, <1>4, <3>2, <3>3, <3>6, <4>1, PubPart
    <3>10. Publish(es) /\ UNCHANGED <<daemonside, clientside>>
      BY <1>10, <2>2 DEF TurnIsOver, Happens, e
    <3> HIDE DEF es, a, i
    <3>11. queue \o es \in Seq(Msg) /\ (Pub(queue, state, words) => Pub(queue \o es, state', words + 1))
      BY <3>6, <3>7, <3>8, <3>9
    <3>12. QED
      BY <1>1, <2>2, <3>2, <3>3, <3>10, <3>11, SessionSays
  <2>3. QED
    BY <1>10, <2>1, <2>2 DEF TurnIsOver
<1>11. QED
  BY <1>5, <1>6, <1>7, <1>8, <1>9, <1>10

-----------------------------------------------------------------------------
\* The daemon's ends of the connection.
LEMMA FollowedSame ==
  ASSUME UNCHANGED kind
  PROVE  Followed' = Followed
  BY DEF Followed

LEMMA AcceptsKeeps ==
  ASSUME FeedInv, Accepts
  PROVE  FeedInv'
<1>1. /\ UNCHANGED <<state, words, kind, shown>> /\ handler' = "greeting" /\ conn' = "up" /\ viewer' = "connecting"
      /\ queue' = << >> /\ buffer' = << >> /\ held' = << >> /\ heard' = words /\ wire' = <<Snapshot>>
  BY DEF Accepts
<1>2. Snapshot \in Msg /\ Snapshot.is = "attached" /\ Snapshot.of = state
  BY SeenFull DEF Snapshot, Message, Msg, FeedInv, FeedTyped
<1>3. << >> \in Seq(Msg) /\ << >> \in Seq(Nat) /\ <<Snapshot>> \in Seq(Msg)
      /\ <<Snapshot>> # << >> /\ <<Snapshot>>[1] = Snapshot /\ DOMAIN <<Snapshot>> = {1}
  BY <1>2
<1>4. FeedTyped'
  BY <1>1, <1>3 DEF FeedInv, FeedTyped
<1>5. FeedShape'
  BY <1>1, <1>2, <1>3 DEF FeedShape
<1>6. words \in Nat
  BY DEF FeedInv, FeedTyped
<1>7. SaysAll(<<Snapshot>>, << >>, << >>, << >>, words, words)
  <2>1. Greets(<<Snapshot>>, words, words)
    BY <1>2, <1>6, SaysOne DEF TextKinds
  <2>2. Greets(<< >>, words, words) /\ (<< >> = Run(words, words)) /\ words <= words
    BY <1>6, RunNothing
  <2>3. QED
    BY <1>6, <2>1, <2>2 DEF SaysAll
<1>8. ASSUME NEW p \in Followed
      PROVE  TellsAll(<<Snapshot>>, << >>, << >>, p, state[p], state[p])
  <2>1. p \in Parts /\ "attached" \notin Parts
    BY FollowedParts DEF Parts
  <2>2. Tells(<<Snapshot>>, p, state[p], state[p])
    BY <1>2, <1>3, <2>1 DEF Tells
  <2>3. Tells(<< >>, p, state[p], state[p])
    BY TellsNothing
  <2>4. QED
    BY <2>2, <2>3 DEF TellsAll
<1>9. Followed' = Followed /\ \A p : Base(p)' = state[p]
  BY <1>1, <1>2, <1>3, FollowedSame DEF Base
<1>10. FeedTrue'
  BY <1>1, <1>7, <1>8, <1>9 DEF FeedTrue
<1>11. QED
  BY <1>4, <1>5, <1>10 DEF FeedInv

\* What there is to show of a step at the daemon's end of a connection that is up.
LEMMA EndSays ==
  ASSUME FeedInv, UNCHANGED <<state, words, conn, clientside>>, conn = "up",
         wire' \in Seq(Msg), held' \in Seq(Msg), queue' \in Seq(Msg), buffer' \in Seq(Nat),
         held' = << >> \/ (buffer' = << >> /\ \E e \in Msg : held' = <<e>>),
         handler' \in {"greeting", "answering", "serving"},
         viewer = "connecting" => wire' # << >> /\ wire'[1] = wire[1],
         Listening => /\ SaysAll(wire', buffer', held', queue', heard, words)
                      /\ \A p \in Followed : TellsAll(wire', held', queue', p, Base(p), state[p])
  PROVE  FeedInv'
<1>1. UNCHANGED <<state, words, conn, kind, viewer, shown, heard, dropped>>
  BY DEF clientside
<1>2. FeedTyped' /\ FeedShape'
  BY <1>1 DEF FeedInv, FeedTyped, FeedShape
<1>3. Listening' => Listening
  BY <1>1 DEF Listening
<1>4. Followed' = Followed
  BY <1>1, FollowedSame
<1>5. \A p : Base(p)' = Base(p)
  BY <1>1 DEF Base
<1>6. Listening => FeedTrue'
  BY <1>1, <1>4, <1>5 DEF FeedTrue
<1>7. QED
  BY <1>2, <1>3, <1>6 DEF FeedInv

\* A message at the end leaves the first in its place.
LEMMA FirstStays ==
  ASSUME FeedInv, conn = "up", NEW m \in Msg
  PROVE  /\ Append(wire, m) \in Seq(Msg)
         /\ viewer = "connecting" => Append(wire, m) # << >> /\ Append(wire, m)[1] = wire[1]
<1>1. wire \in Seq(Msg) /\ (viewer = "connecting" => wire # << >>)
  BY DEF FeedInv, FeedTyped, FeedShape
<1>2. QED
  BY <1>1

LEMMA StatusKeeps ==
  ASSUME FeedInv, SendsStatus \/ Replies
  PROVE  FeedInv'
<1> DEFINE m == IF SendsStatus THEN Message("status", state.status) ELSE Message("answer", << >>)
<1>1. /\ UNCHANGED <<state, words, conn, queue, buffer, held, clientside>> /\ conn = "up"
      /\ wire' = Append(wire, m) /\ handler' \in {"answering", "serving"}
  BY DEF SendsStatus, Replies
<1>2. /\ state \in Seen /\ words \in Nat /\ heard \in Nat /\ wire \in Seq(Msg) /\ held \in Seq(Msg)
      /\ queue \in Seq(Msg) /\ buffer \in Seq(Nat)
  BY DEF FeedInv, FeedTyped
<1>3. /\ m \in Msg /\ m.is \notin TextKinds
      /\ \A p \in Followed : m.is = p => m.of = state[p]
  <2>1. CASE SendsStatus
    <3>1. state.status \in Content /\ "status" \in Parts
      BY <1>2 DEF Seen, Content, Parts
    <3>2. QED
      BY <2>1, <3>1, PartMsg
  <2>2. CASE ~SendsStatus
    <3>1. << >> \in Content
      BY DEF Content
    <3>2. Message("answer", << >>) \in Msg /\ Message("answer", << >>).is = "answer"
      BY <3>1 DEF Message, Msg
    <3>3. QED
      BY <2>2, <3>2, FollowedParts DEF TextKinds, Parts
  <2>3. QED
    BY <2>1, <2>2
<1> HIDE DEF m
<1>4. ASSUME Listening
      PROVE  /\ SaysAll(wire', buffer', held', queue', heard, words)
             /\ \A p \in Followed : TellsAll(wire', held', queue', p, Base(p), state[p])
  BY <1>1, <1>2, <1>3, <1>4, WordsSent, PartSent DEF FeedInv, FeedTrue
<1>5. held' = << >> \/ (buffer' = << >> /\ \E e \in Msg : held' = <<e>>)
  BY <1>1 DEF FeedInv, FeedShape
<1>6. QED
  BY <1>1, <1>2, <1>3, <1>4, <1>5, FirstStays, EndSays

\* _event_to_message leaves the kind and the words of an event alone; what it replaces
\* is true.
LEMMA Enveloped ==
  ASSUME FeedTyped, NEW e \in Msg
  PROVE  /\ Envelope(e) \in Msg /\ Envelope(e).is = e.is
         /\ e.is \in TextKinds => Envelope(e).of = e.of
         /\ \A p : Envelope(e).of = e.of \/ (Envelope(e).is = p => Envelope(e).of = state[p])
<1>1. state.watch \in Content /\ "watch" \in Parts /\ "watch" \notin TextKinds
  BY DEF FeedTyped, Seen, Content, Parts, TextKinds
<1>2. CASE e.is = "watch" /\ e.of = 0
  <2>1. Envelope(e) = Message("watch", state.watch)
    BY <1>2 DEF Envelope
  <2>2. QED
    BY <1>1, <1>2, <2>1, PartMsg
<1>3. CASE ~(e.is = "watch" /\ e.of = 0)
  <2>1. Envelope(e) = e
    BY <1>3 DEF Envelope
  <2>2. QED
    BY <2>1
<1>4. QED
  BY <1>2, <1>3

LEMMA TakesKeeps ==
  ASSUME FeedInv, TakesEvent
  PROVE  FeedInv'
<1> DEFINE e == Envelope(Head(queue))
<1>1. /\ UNCHANGED <<state, words, handler, conn, clientside>> /\ conn = "up"
      /\ queue # << >> /\ held = << >> /\ queue' = Tail(queue)
      /\ \/ e.is = "token" /\ buffer' = buffer \o e.of /\ UNCHANGED <<held, wire>>
         \/ e.is # "token" /\ Forwards(e)
  BY DEF TakesEvent
<1>2. /\ FeedTyped /\ state \in Seen /\ words \in Nat /\ heard \in Nat /\ wire \in Seq(Msg)
      /\ queue \in Seq(Msg) /\ buffer \in Seq(Nat) /\ Tail(queue) \in Seq(Msg) /\ Head(queue) \in Msg
      /\ handler \in {"greeting", "answering", "serving"}
  BY <1>1 DEF FeedInv, FeedTyped, FeedShape
<1>3. /\ e \in Msg /\ e.is = Head(queue).is /\ (e.is \in TextKinds => e.of = Head(queue).of)
      /\ \A p : e.of = Head(queue).of \/ (e.is = p => e.of = state[p])
  BY <1>2, Enveloped
<1> HIDE DEF e
<1> DEFINE t == Message("token", buffer)
<1>4. t.is = "token" /\ "token" \in TextKinds /\ "token" \notin Parts
  BY DEF Message, TextKinds, Parts
<1>t. buffer # << >> => t \in Msg
  BY <1>2, TokenOf
<1> HIDE DEF t
<1>5. ASSUME Listening
      PROVE  /\ e.is \in TextKinds => SaysAll(wire, buffer \o e.of, << >>, Tail(queue), heard, words)
             /\ buffer = << >> => SaysAll(Append(wire, e), << >>, << >>, Tail(queue), heard, words)
             /\ buffer # << >> => SaysAll(Append(wire, t), << >>, <<e>>, Tail(queue), heard, words)
  <2>1. SaysAll(wire, buffer, << >>, queue, heard, words)
    BY <1>1, <1>5 DEF FeedInv, FeedTrue
  <2>2. QED
    BY <1>1, <1>2, <1>3, <2>1, WordsTaken DEF t
<1>6. ASSUME Listening, NEW p \in Followed
      PROVE  /\ TellsAll(Append(wire, e), << >>, Tail(queue), p, Base(p), state[p])
             /\ TellsAll(wire, <<e>>, Tail(queue), p, Base(p), state[p])
             /\ e.is # p => TellsAll(wire, << >>, Tail(queue), p, Base(p), state[p])
             /\ buffer # << >> => TellsAll(Append(wire, t), <<e>>, Tail(queue), p, Base(p), state[p])
  <2>1. TellsAll(wire, << >>, queue, p, Base(p), state[p])
    BY <1>1, <1>6 DEF FeedInv, FeedTrue
  <2>2. /\ TellsAll(Append(wire, e), << >>, Tail(queue), p, Base(p), state[p])
        /\ TellsAll(wire, <<e>>, Tail(queue), p, Base(p), state[p])
        /\ e.is # p => TellsAll(wire, << >>, Tail(queue), p, Base(p), state[p])
    BY <1>1, <1>2, <1>3, <2>1, PartTaken
  <2>3. t.is # p
    BY <1>4, FollowedParts
  <2>4. buffer # << >> => TellsAll(Append(wire, t), <<e>>, Tail(queue), p, Base(p), state[p])
    BY <1>2, <1>t, <2>2, <2>3, PartSent
  <2>5. QED
    BY <2>2, <2>4
<1>7. CASE e.is = "token" /\ buffer' = buffer \o e.of /\ UNCHANGED <<held, wire>>
  <2>1. \A p \in Followed : e.is # p
    BY <1>4, <1>7, FollowedParts
  <2>2. e.of \in Seq(Nat) /\ buffer \o e.of \in Seq(Nat)
    <3>1. e.of \in Seq(Nat)
      BY <1>3, <1>7 DEF Msg, Parts
    <3>2. QED
      BY <1>2, <3>1
  <2>3. viewer = "connecting" => wire' # << >> /\ wire'[1] = wire[1]
    BY <1>1, <1>7 DEF FeedInv, FeedShape
  <2>4. QED
    BY <1>1, <1>2, <1>4, <1>5, <1>6, <1>7, <2>1, <2>2, <2>3, EndSays
<1>8. CASE Forwards(e) /\ buffer = << >>
  <2>1. wire' = Append(wire, e) /\ buffer' = << >> /\ held' = << >>
    BY <1>1, <1>8 DEF Forwards
  <2>2. << >> \in Seq(Msg) /\ << >> \in Seq(Nat)
    OBVIOUS
  <2>3. QED
    BY <1>1, <1>2, <1>3, <1>5, <1>6, <1>8, <2>1, <2>2, FirstStays, EndSays
<1>9. CASE Forwards(e) /\ buffer # << >>
  <2>1. wire' = Append(wire, t) /\ buffer' = << >> /\ held' = <<e>>
    BY <1>9 DEF Forwards, t
  <2>2. <<e>> \in Seq(Msg) /\ << >> \in Seq(Nat)
    BY <1>3
  <2>3. QED
    BY <1>1, <1>2, <1>3, <1>t, <1>5, <1>6, <1>9, <2>1, <2>2, FirstStays, EndSays
<1>10. QED
  BY <1>1, <1>7, <1>8, <1>9

LEMMA FlushesKeeps ==
  ASSUME FeedInv, Flushes
  PROVE  FeedInv'
<1>1. UNCHANGED <<state, words, handler, conn, queue, clientside>> /\ conn = "up"
  BY DEF Flushes
<1>2. /\ words \in Nat /\ heard \in Nat /\ wire \in Seq(Msg)
      /\ queue \in Seq(Msg) /\ buffer \in Seq(Nat) /\ handler \in {"greeting", "answering", "serving"}
      /\ << >> \in Seq(Msg) /\ << >> \in Seq(Nat)
  BY <1>1 DEF FeedInv, FeedTyped, FeedShape
<1>3. ASSUME NEW m \in Msg, wire' = Append(wire, m), held' = << >>, buffer' = << >>,
             Listening => SaysAll(Append(wire, m), << >>, << >>, queue, heard, words),
             \A p \in Followed : Listening => TellsAll(Append(wire, m), << >>, queue, p, Base(p), state[p])
      PROVE  FeedInv'
  BY <1>1, <1>2, <1>3, FirstStays, EndSays
<1>4. CASE held = << >> /\ buffer # << >> /\ buffer' = << >> /\ UNCHANGED held
           /\ wire' = Append(wire, Message("token", buffer))
  <2> DEFINE m == Message("token", buffer)
  <2>1. m \in Msg /\ m.is = "token" /\ "token" \notin Parts
    BY <1>2, <1>4, TokenOf
  <2>2. Listening => SaysAll(Append(wire, m), << >>, << >>, queue, heard, words)
    BY <1>2, <1>4, WordsFlushed DEF FeedInv, FeedTrue
  <2> HIDE DEF m
  <2>3. ASSUME NEW p \in Followed, Listening
        PROVE  TellsAll(Append(wire, m), << >>, queue, p, Base(p), state[p])
    <3>1. TellsAll(wire, << >>, queue, p, Base(p), state[p])
      BY <1>4, <2>3 DEF FeedInv, FeedTrue
    <3>2. QED
      BY <1>2, <2>1, <3>1, FollowedParts, PartSent
  <2>4. QED
    BY <1>3, <1>4, <2>1, <2>2, <2>3 DEF m
<1>5. CASE held # << >> /\ wire' = wire \o held /\ held' = << >> /\ UNCHANGED buffer
  <2>1. PICK m \in Msg : held = <<m>>
    BY <1>5 DEF FeedInv, FeedShape
  <2>2. buffer = << >> /\ wire' = Append(wire, m)
    BY <1>2, <1>5, <2>1, OneMore DEF FeedInv, FeedShape
  <2>3. Listening => SaysAll(Append(wire, m), << >>, << >>, queue, heard, words)
    BY <1>2, <2>1, <2>2, WordsFlushed DEF FeedInv, FeedTrue
  <2>4. ASSUME NEW p \in Followed, Listening
        PROVE  TellsAll(Append(wire, m), << >>, queue, p, Base(p), state[p])
    BY <1>2, <2>1, <2>4, PartFlushed DEF FeedInv, FeedTrue
  <2>5. QED
    BY <1>3, <1>5, <2>2, <2>3, <2>4
<1>6. QED
  BY <1>4, <1>5 DEF Flushes

LEMMA GoesKeeps ==
  ASSUME FeedInv, Vanishes \/ Notices
  PROVE  FeedInv'
<1>1. CASE Vanishes
  BY <1>1 DEF Vanishes, FeedInv, FeedTyped, FeedShape, Listening
<1>2. CASE Notices
  <2>1. /\ conn = "down" /\ conn' = "down" /\ UNCHANGED <<words, buffer, held, wire, kind, viewer, shown, heard, dropped>>
        /\ queue' \in {queue, << >>} /\ (state' = state \/ state' = [state EXCEPT !.auto = FALSE])
    BY <1>2 DEF Notices, clientside
  <2>a. state \in Seen /\ queue \in Seq(Msg) /\ << >> \in Seq(Msg)
    BY DEF FeedInv, FeedTyped
  <2>b. [state EXCEPT !.auto = FALSE] \in Seen
    BY <2>a DEF Seen
  <2>2. state' \in Seen /\ queue' \in Seq(Msg)
    BY <2>1, <2>a, <2>b
  <2>3. FeedTyped'
    BY <2>1, <2>2 DEF FeedInv, FeedTyped
  <2>4. FeedShape'
    BY <2>1 DEF FeedInv, FeedShape
  <2>5. QED
    BY <2>1, <2>3, <2>4 DEF FeedInv, Listening
<1>3. QED
  BY <1>1, <1>2

-----------------------------------------------------------------------------
\* The client reads.
LEMMA ReceivesKeeps ==
  ASSUME FeedInv, Receives
  PROVE  FeedInv'
<1> DEFINE m == Head(wire)
<1>1. /\ UNCHANGED <<state, words, events, kind, handler, conn, queue, buffer, held>>
      /\ wire # << >> /\ wire' = Tail(wire) /\ viewer # "refused"
      /\ GetsSnapshot(m) \/ GetsStatus(m) \/ Listens(m)
  BY DEF Receives
<1>2. /\ words \in Nat /\ heard \in Nat /\ wire \in Seq(Msg) /\ held \in Seq(Msg) /\ queue \in Seq(Msg)
      /\ shown \in Full /\ buffer \in Seq(Nat) /\ Tail(wire) \in Seq(Msg) /\ m \in Msg /\ m = wire[1]
  BY <1>1 DEF FeedInv, FeedTyped
<1>3. viewer = "connecting" <=> GetsSnapshot(m)
  BY <1>1 DEF GetsSnapshot, GetsStatus, Listens
<1> HIDE DEF m
<1>4. /\ m.is \in TextKinds => m.is \notin Parts /\ m.of \in Seq(Nat) /\ m.of # << >>
      /\ m.is \in Parts => m.is \notin TextKinds /\ m.of \in Content
      /\ m.is = "attached" => m.is \notin TextKinds /\ m.is \notin Parts /\ m.of \in Full
  BY <1>2 DEF Msg, Parts, TextKinds
<1>5. ASSUME Listening
      PROVE  \E d \in Nat : /\ IF m.is \in TextKinds THEN heard < d /\ m.of = Run(heard, d) ELSE heard = d
                            /\ SaysAll(Tail(wire), buffer, held, queue, d, words)
  BY <1>1, <1>2, <1>5, WordsRead DEF FeedInv, FeedTrue, m
<1>6. ASSUME Listening, NEW p \in Followed
      PROVE  TellsAll(Tail(wire), held, queue, p, IF m.is = p THEN m.of ELSE Base(p), state[p])
  BY <1>1, <1>2, <1>6, PartRead DEF FeedInv, FeedTrue, m
<1>7. Followed' = Followed /\ Followed \subseteq Parts
  BY <1>1, FollowedSame, FollowedParts
\* What there is to show: the typing, and the accounts of what is shown and heard by then.
<1>8. ASSUME shown' \in Full, heard' \in Nat, viewer' \notin {"away", "gone", "connecting"},
             Listening' => Listening,
             Listening' => SaysAll(Tail(wire), buffer, held, queue, heard', words),
             \A p \in Followed : Listening' => shown'[p] = IF m.is = p THEN m.of ELSE Base(p)
      PROVE  FeedInv'
  <2>1. FeedTyped' /\ FeedShape'
    BY <1>1, <1>2, <1>8 DEF FeedInv, FeedTyped, FeedShape
  <2>2. \A p : Base(p)' = shown'[p]
    BY <1>8 DEF Base
  <2>3. ASSUME Listening' PROVE FeedTrue'
    <3>1. \A p \in Followed : TellsAll(Tail(wire), held, queue, p, shown'[p], state[p])
      BY <1>6, <1>8, <2>3
    <3>2. QED
      BY <1>1, <1>7, <1>8, <2>2, <2>3, <3>1 DEF FeedTrue
  <2>4. QED
    BY <2>1, <2>3 DEF FeedInv
<1>9. CASE conn # "up"
  BY <1>1, <1>9 DEF FeedInv, FeedShape
<1>10. CASE conn = "up"
  <2>1. CASE GetsSnapshot(m)
    <3>1. /\ viewer = "connecting" /\ viewer' = "checking" /\ shown' = m.of /\ UNCHANGED <<heard, dropped>>
      BY <2>1 DEF GetsSnapshot
    <3>2. m.is = "attached"
      BY <1>2, <1>10, <3>1 DEF FeedInv, FeedShape
    <3>3. \A p \in Followed : m.is # p /\ Base(p) = m.of[p]
      BY <1>2, <1>4, <1>7, <3>1, <3>2 DEF Base
    <3>4. Listening' => Listening
      BY <1>1, <3>1 DEF Listening
    <3>5. QED
      BY <1>2, <1>4, <1>5, <1>8, <3>1, <3>2, <3>3, <3>4
  <2>2. CASE GetsStatus(m)
    <3>1. /\ viewer = "checking" /\ viewer' \in {"listening", "refused"} /\ UNCHANGED heard
          /\ shown' = (IF m.is = "status" THEN [shown EXCEPT !.status = m.of] ELSE shown)
          /\ dropped' = (dropped \/ m.is # "status")
      BY <2>2 DEF GetsStatus
    <3>2. shown' \in Full
      BY <1>2, <1>4, <3>1 DEF Full, Parts
    <3>3. Listening' => Listening /\ m.is = "status"
      BY <1>1, <3>1 DEF Listening
    <3>4. ASSUME NEW p \in Followed, Listening'
          PROVE  shown'[p] = IF m.is = p THEN m.of ELSE Base(p)
      <4>1. Base(p) = shown[p]
        BY <3>1 DEF Base
      <4>2. QED
        BY <1>2, <1>7, <3>1, <3>3, <3>4, <4>1 DEF Full, Parts
    <3>5. "status" \in Parts
      BY DEF Parts
    <3>6. QED
      BY <1>2, <1>4, <1>5, <1>8, <3>1, <3>2, <3>3, <3>4, <3>5
  <2>3. CASE Listens(m)
    <3>1. /\ viewer = "listening" /\ viewer' = "listening" /\ UNCHANGED dropped
          /\ shown' = (IF m.is \in Followed THEN [shown EXCEPT ![m.is] = m.of] ELSE shown)
          /\ heard' = (IF m.is \in TextKinds THEN m.of[Len(m.of)] ELSE heard)
      BY <2>3 DEF Listens
    <3>2. shown' \in Full
      BY <1>2, <1>4, <1>7, <3>1 DEF Full
    <3>3. Listening' => Listening
      BY <1>1, <3>1 DEF Listening
    <3>4. ASSUME NEW p \in Followed
          PROVE  shown'[p] = IF m.is = p THEN m.of ELSE Base(p)
      <4>1. Base(p) = shown[p]
        BY <3>1 DEF Base
      <4>2. QED
        BY <1>2, <1>7, <3>1, <4>1 DEF Full
    <3>5. heard' \in Nat
      BY <1>2, <1>4, <3>1
    <3>6. ASSUME Listening PROVE SaysAll(Tail(wire), buffer, held, queue, heard', words)
      <4>1. PICK d \in Nat : /\ IF m.is \in TextKinds THEN heard < d /\ m.of = Run(heard, d) ELSE heard = d
                             /\ SaysAll(Tail(wire), buffer, held, queue, d, words)
        BY <1>5, <3>6
      <4>2. heard' = d
        <5>1. CASE m.is \in TextKinds
          <6>1. heard <= d /\ heard < d /\ m.of = Run(heard, d)
            BY <1>2, <4>1, <5>1
          <6>a. Len(Run(heard, d)) = d - heard /\ \A k \in 1 .. d - heard : Run(heard, d)[k] = heard + k
            BY <1>2, <6>1, Runs
          <6>2. Len(m.of) = d - heard /\ \A k \in 1 .. d - heard : m.of[k] = heard + k
            BY <6>1, <6>a, Zenon
          <6>3. d - heard \in 1 .. d - heard /\ heard + (d - heard) = d
            BY <1>2, <6>1
          <6>4. QED
            BY <3>1, <5>1, <6>2, <6>3
        <5>2. CASE m.is \notin TextKinds
          BY <3>1, <4>1, <5>2
        <5>3. QED
          BY <5>1, <5>2
      <4>3. QED
        BY <4>1, <4>2
    <3>7. QED
      BY <1>8, <3>1, <3>2, <3>3, <3>4, <3>5, <3>6
  <2>4. QED
    BY <1>1, <2>1, <2>2, <2>3
<1>11. QED
  BY <1>9, <1>10

LEMMA FeedStart ==
  ASSUME FeedInit
  PROVE  FeedInv
<1>1. /\ state = [status |-> "idle", auto |-> FALSE, view |-> 0, watch |-> 0] /\ shown = state
      /\ words = 0 /\ heard = 0 /\ conn = "down" /\ queue = << >> /\ buffer = << >> /\ held = << >>
      /\ wire = << >>
  BY DEF FeedInit
<1>2. state \in Seen /\ << >> \in Seq(Msg) /\ << >> \in Seq(Nat)
  BY <1>1 DEF Seen
<1>3. QED
  BY <1>1, <1>2, SeenFull DEF FeedInv, FeedTyped, FeedShape, Listening

LEMMA FeedStep ==
  ASSUME FeedInv, [FeedNext]_feedvars
  PROVE  FeedInv'
<1>1. CASE UNCHANGED feedvars
  BY <1>1 DEF feedvars, FeedInv, FeedTyped, FeedShape, FeedTrue, Listening, Followed, Base
<1>2. CASE FeedNext
  BY <1>2, SessionKeeps, AcceptsKeeps, StatusKeeps, TakesKeeps, FlushesKeeps, GoesKeeps, ReceivesKeeps
     DEF FeedNext, ToolSetsChartView, ToolSetsWatchlist
<1>3. QED
  BY <1>1, <1>2

\* The tokens of one turn, the tool calls and the finals of its agent, errors: whatever
\* was said since the client attached reaches it whole, in order and once, through the
\* queue of the session's bus, forward_session_events with its buffer, and the wire.
THEOREM WordsReachTheClient == FeedSpec => []WordsArriveInOrder
<1>1. ASSUME FeedInv, Listening
      PROVE  InOrder(wire \o <<Message("token", buffer)>> \o held \o queue, heard, words)
  <2> DEFINE m == Message("token", buffer)
  <2>1. /\ words \in Nat /\ heard \in Nat /\ wire \in Seq(Msg) /\ held \in Seq(Msg) /\ queue \in Seq(Msg)
        /\ buffer \in Seq(Nat)
    BY <1>1 DEF FeedInv, FeedTyped
  <2>2. PICK b1, b2, b3 \in Nat : /\ Greets(wire, heard, b1) /\ b1 <= b2 /\ buffer = Run(b1, b2)
                                  /\ Greets(held, b2, b3) /\ Greets(queue, b3, words)
    BY <1>1 DEF FeedInv, FeedTrue, SaysAll
  <2>3. InOrder(wire, heard, b1) /\ InOrder(held, b2, b3) /\ InOrder(queue, b3, words)
    BY <2>1, <2>2, SaysInOrder
  <2>4. heard <= b1 /\ b2 <= b3 /\ b3 <= words
    BY <2>1, <2>2, SaysBounds
  <2>5. InOrder(<<m>>, b1, b2)
    BY <2>2, TokenInOrder
  <2> DEFINE S == Msg \cup {m}
  <2> HIDE DEF m
  <2>6. <<m>> \in Seq(S) /\ wire \in Seq(S) /\ held \in Seq(S) /\ queue \in Seq(S)
    BY <2>1
  <2> HIDE DEF S
  <2>a. heard <= b2 /\ heard <= b3
    BY <2>1, <2>2, <2>4
  <2>7. InOrder(wire \o <<m>>, heard, b2) /\ wire \o <<m>> \in Seq(S)
    BY <2>1, <2>2, <2>3, <2>4, <2>5, <2>6, InOrderJoined, Behind
  <2>8. InOrder(wire \o <<m>> \o held, heard, b3) /\ wire \o <<m>> \o held \in Seq(S)
    BY <2>1, <2>2, <2>3, <2>4, <2>6, <2>7, <2>a, InOrderJoined, Behind
  <2>9. InOrder(wire \o <<m>> \o held \o queue, heard, words)
    BY <2>1, <2>2, <2>3, <2>4, <2>6, <2>8, <2>a, InOrderJoined
  <2>10. QED
    BY <2>9 DEF m
<1>2. FeedInv => WordsArriveInOrder
  BY <1>1 DEF WordsArriveInOrder
<1>3. FeedInit => FeedInv
  BY FeedStart
<1>4. FeedInv /\ [FeedNext]_feedvars => FeedInv'
  BY FeedStep
<1>5. QED
  BY <1>2, <1>3, <1>4, PTL DEF FeedSpec

\* A client to whom nothing is on its way any more shows the session as it is: for every
\* part it follows the last message about it, wherever it waits, says what is true.
THEOREM QuietClientsAreCurrent == FeedSpec => []QuietIsCurrent
<1>1. ASSUME FeedInv PROVE QuietIsCurrent
  <2> SUFFICES ASSUME Listening, viewer = "listening", wire = << >>, held = << >>, queue = << >>,
                      NEW p \in Followed
               PROVE  shown[p] = state[p]
    BY DEF QuietIsCurrent
  <2>1. TellsAll(<< >>, << >>, << >>, p, shown[p], state[p])
    BY <1>1 DEF FeedInv, FeedTrue, Base
  <2>2. QED
    BY <2>1, TellsNothing DEF TellsAll
<1>2. FeedInit => FeedInv
  BY FeedStart
<1>3. FeedInv /\ [FeedNext]_feedvars => FeedInv'
  BY FeedStep
<1>4. QED
  BY <1>1, <1>2, <1>3, PTL DEF FeedSpec

-----------------------------------------------------------------------------
(* The recorder. When the library names its runs, the calls that began have   *)
(* the first records, in their order; a call that runs knows its own.         *)

Record == [of : Tools \cup {0}, output : Tools \cup {0}, error : BOOLEAN]
Outcomes == {"new", "running", "done", "refused", "raised"}

\* What the record c of the call k says, when the call is where r says.
RecordsCall(c, k, r) ==
  /\ c.of = k \/ (c.of = 0 /\ c.output = k /\ r = "raised")
  /\ c.of = k => c.output = IF r = "running" THEN 0 ELSE k
  /\ c.error = (r = "raised")
LogTyped ==
  /\ records \in Seq(Record) /\ result \in [Tools -> Outcomes] /\ byRun \in [Tools -> Nat]
Recorded ==
  /\ \A t \in Tools : result[t] = "new" <=> t > Len(records)
  /\ Len(records) <= MaxTools
  /\ \A k \in 1 .. Len(records) : RecordsCall(records[k], k, result[k])
  /\ \A t \in Tools : result[t] = "running" => byRun[t] = t
LogInv == named => LogTyped /\ Recorded

\* The call that begins next is the one after those that have records.
LEMMA BeginsNext ==
  ASSUME LogTyped, Recorded, NEW t \in Tools, result[t] = "new", \A u \in Tools : u < t => result[u] # "new"
  PROVE  t = Len(records) + 1
<1>1. t > Len(records) /\ Len(records) \in Nat /\ t \in 1 .. MaxTools /\ MaxTools \in Nat
  BY ToolLogAssumption DEF LogTyped, Recorded, Tools
<1>2. CASE t > Len(records) + 1
  <2>1. Len(records) + 1 \in Tools /\ Len(records) + 1 < t
    BY <1>1, <1>2 DEF Tools
  <2>2. result[Len(records) + 1] = "new"
    BY <1>1, <2>1 DEF Recorded
  <2> QED
    BY <2>1, <2>2
<1> QED
  BY <1>1, <1>2

\* A call that begins, or fails before it does, adds its record.
LEMMA Records ==
  ASSUME LogTyped, Recorded, NEW t \in Tools, result[t] = "new", \A u \in Tools : u < t => result[u] # "new",
         NEW c \in Record, NEW r \in Outcomes \ {"new"}, RecordsCall(c, t, r),
         records' = Append(records, c), result' = [result EXCEPT ![t] = r],
         byRun' \in [Tools -> Nat], r = "running" => byRun'[t] = t, \A u \in Tools : u # t => byRun'[u] = byRun[u]
  PROVE  LogTyped' /\ Recorded'
<1>1. t = Len(records) + 1 /\ Len(records) \in Nat /\ MaxTools \in Nat /\ t \in 1 .. MaxTools
  BY BeginsNext, ToolLogAssumption DEF LogTyped, Tools
<1>2. /\ records' \in Seq(Record) /\ Len(records') = t /\ records'[t] = c
      /\ \A k \in 1 .. Len(records) : records'[k] = records[k]
  BY <1>1 DEF LogTyped
<1>3. result' \in [Tools -> Outcomes] /\ result'[t] = r /\ \A u \in Tools : u # t => result'[u] = result[u]
  BY DEF LogTyped
<1>4. LogTyped'
  BY <1>2, <1>3 DEF LogTyped
<1>5. \A u \in Tools : result'[u] = "new" <=> u > Len(records')
  BY <1>1, <1>2, <1>3 DEF Recorded, Tools
<1>6. ASSUME NEW k \in 1 .. Len(records') PROVE RecordsCall(records'[k], k, result'[k])
  <2>1. CASE k = t
    BY <1>2, <1>3, <2>1
  <2>2. CASE k # t
    <3>1. k \in 1 .. Len(records) /\ k \in Tools
      BY <1>1, <1>2, <1>6, <2>2 DEF Tools
    <3> QED
      BY <1>2, <1>3, <2>2, <3>1 DEF Recorded
  <2> QED
    BY <2>1, <2>2
<1>7. \A u \in Tools : result'[u] = "running" => byRun'[u] = u
  BY <1>3 DEF Recorded
<1> QED
  BY <1>1, <1>2, <1>4, <1>5, <1>6, <1>7 DEF Recorded

\* A call that ends fills in its own record.
LEMMA FillsIn ==
  ASSUME LogTyped, Recorded, named, NEW t \in Tools, NEW r \in {"done", "refused", "raised"}, Finishes(t, r)
  PROVE  LogTyped' /\ Recorded'
<1>1. /\ result[t] = "running" /\ result' = [result EXCEPT ![t] = r] /\ byRun' = [byRun EXCEPT ![t] = 0]
      /\ records' = [records EXCEPT ![byRun[t]].output = t, ![byRun[t]].error = (r = "raised")]
  BY DEF Finishes, Index
<1>2. byRun[t] = t /\ t \in Nat /\ t <= Len(records) /\ Len(records) \in Nat /\ t \in 1 .. Len(records)
  BY <1>1, ToolLogAssumption DEF LogTyped, Recorded, Tools
<1>3. PICK c \in Record : c = records[t]
  BY <1>2 DEF LogTyped
<1> DEFINE d == [c EXCEPT !.output = t, !.error = (r = "raised")]
<1>4. d \in Record /\ d.of = c.of /\ d.output = t /\ d.error = (r = "raised")
  BY DEF Record
<1>5. records' = [records EXCEPT ![t] = d]
  BY <1>1, <1>2, <1>3 DEF LogTyped
<1>6. RecordsCall(c, t, "running")
  BY <1>1, <1>2, <1>3 DEF Recorded
<1> HIDE DEF d
<1>7. RecordsCall(d, t, r)
  BY <1>4, <1>6 DEF RecordsCall
<1>8. /\ records' \in Seq(Record) /\ Len(records') = Len(records) /\ records'[t] = d
      /\ \A k \in 1 .. Len(records) : k # t => records'[k] = records[k]
  BY <1>2, <1>4, <1>5 DEF LogTyped
<1>9. result' \in [Tools -> Outcomes] /\ result'[t] = r /\ \A u \in Tools : u # t => result'[u] = result[u]
  BY <1>1 DEF LogTyped, Outcomes
<1>10. byRun' \in [Tools -> Nat] /\ \A u \in Tools : u # t => byRun'[u] = byRun[u]
  BY <1>1 DEF LogTyped
<1>11. LogTyped'
  BY <1>8, <1>9, <1>10 DEF LogTyped
<1>12. \A u \in Tools : result'[u] = "new" <=> u > Len(records')
  BY <1>1, <1>8, <1>9 DEF Recorded
<1>13. ASSUME NEW k \in 1 .. Len(records') PROVE RecordsCall(records'[k], k, result'[k])
  <2>1. CASE k = t
    BY <1>7, <1>8, <1>9, <2>1
  <2>2. CASE k # t
    <3>1. k \in 1 .. Len(records) /\ k \in Tools
      BY <1>2, <1>8, <1>13, ToolLogAssumption DEF Tools, Recorded
    <3> QED
      BY <1>8, <1>9, <2>2, <3>1 DEF Recorded
  <2> QED
    BY <2>1, <2>2
<1>14. \A u \in Tools : result'[u] = "running" => byRun'[u] = u
  BY <1>9, <1>10 DEF Recorded
<1> QED
  BY <1>8, <1>11, <1>12, <1>13, <1>14 DEF Recorded

LEMMA LogStarts == LogInit => LogInv
<1> SUFFICES ASSUME LogInit PROVE LogTyped /\ Recorded
  BY DEF LogInv
<1>1. records = << >> /\ Len(records) = 0 /\ result = [t \in Tools |-> "new"] /\ byRun = [t \in Tools |-> 0]
  BY DEF LogInit
<1>2. << >> \in Seq(Record)
  OBVIOUS
<1>3. LogTyped
  BY <1>1, <1>2 DEF LogTyped, Outcomes
<1> QED
  BY <1>1, <1>3, ToolLogAssumption DEF Recorded, Tools

LEMMA LogSteps == LogInv /\ [LogNext]_logvars => LogInv'
<1> SUFFICES ASSUME LogInv, [LogNext]_logvars, named' PROVE LogTyped' /\ Recorded'
  BY DEF LogInv
<1>1. named
  BY DEF LogNext, Starts0, Unstarted0, Finishes, logvars
<1>2. LogTyped /\ Recorded
  BY <1>1 DEF LogInv
<1>3. ASSUME NEW t \in Tools, Starts0(t) PROVE LogTyped' /\ Recorded'
  <2> DEFINE c == [of |-> t, output |-> 0, error |-> FALSE]
  <2>1. /\ result[t] = "new" /\ (\A u \in Tools : u < t => result[u] # "new")
        /\ result' = [result EXCEPT ![t] = "running"] /\ records' = Append(records, c)
        /\ byRun' = [byRun EXCEPT ![t] = Len(records')]
    BY <1>1, <1>3 DEF Starts0
  <2>2. t = Len(records) + 1
    BY <1>2, <2>1, BeginsNext
  <2>3. Len(records') = t /\ t \in Nat
    BY <1>2, <2>1, <2>2 DEF LogTyped
  <2>4. byRun' \in [Tools -> Nat] /\ byRun'[t] = t /\ \A u \in Tools : u # t => byRun'[u] = byRun[u]
    BY <1>2, <2>1, <2>3 DEF LogTyped
  <2>5. c \in Record /\ RecordsCall(c, t, "running")
    BY DEF Record, RecordsCall
  <2> HIDE DEF c
  <2>6. "running" \in Outcomes \ {"new"}
    BY DEF Outcomes
  <2> QED
    BY <1>2, <2>1, <2>4, <2>5, <2>6, Records
<1>4. ASSUME NEW t \in Tools, Unstarted0(t) PROVE LogTyped' /\ Recorded'
  <2> DEFINE c == [of |-> 0, output |-> t, error |-> TRUE]
  <2>1. /\ result[t] = "new" /\ (\A u \in Tools : u < t => result[u] # "new")
        /\ result' = [result EXCEPT ![t] = "raised"] /\ records' = Append(records, c) /\ byRun' = byRun
    BY <1>4 DEF Unstarted0
  <2>2. c \in Record /\ RecordsCall(c, t, "raised")
    BY DEF Record, RecordsCall, Tools
  <2> HIDE DEF c
  <2>3. "raised" \in Outcomes \ {"new"} /\ "raised" # "running" /\ byRun' \in [Tools -> Nat]
    BY <1>2, <2>1 DEF Outcomes, LogTyped
  <2> QED
    BY <1>2, <2>1, <2>2, <2>3, Records
<1>5. ASSUME NEW t \in Tools, NEW r \in {"done", "refused", "raised"}, Finishes(t, r) PROVE LogTyped' /\ Recorded'
  BY <1>1, <1>2, <1>5, FillsIn
<1>6. CASE UNCHANGED logvars
  BY <1>2, <1>6 DEF logvars, LogTyped, Recorded
<1> QED
  BY <1>3, <1>4, <1>5, <1>6 DEF LogNext

\* However the tool calls of a run overlap, and fail before or after they began: each has
\* one record, in the order of their starts, with its own output and outcome, and a run that
\* made a skill gets no hint (ToolCallRecorder, skill_was_created, _maybe_nudge).
THEOREM ToolRecordsAreTrue == LogSpec => []RecordsAreTrue
<1>1. LogInv => RecordsAreTrue
  <2> SUFFICES ASSUME LogTyped, Recorded PROVE RecordsAreTrue
    BY DEF LogInv, RecordsAreTrue
  <2> USE ToolLogAssumption
  <2>1. DOMAIN records = 1 .. Len(records) /\ Len(records) \in Nat
    BY DEF LogTyped
  <2>2. \A k \in DOMAIN records : /\ RecordsCall(records[k], k, result[k]) /\ k \in Tools /\ k # 0
                                  /\ records[k] \in Record
    BY <2>1 DEF Recorded, Tools, LogTyped
  <2>3. \A i, j \in DOMAIN records : i < j /\ records[i].of # 0 /\ records[j].of # 0 => records[i].of < records[j].of
    BY <2>2 DEF RecordsCall
  <2>4. \A k \in DOMAIN records : LET c == records[k] IN
          /\ c.of # 0 => c.output = IF result[c.of] = "running" THEN 0 ELSE c.of
          /\ c.error = (c.output # 0 /\ result[c.output] = "raised")
    <3> SUFFICES ASSUME NEW k \in DOMAIN records, NEW c, c = records[k]
                 PROVE  /\ c.of # 0 => c.output = IF result[c.of] = "running" THEN 0 ELSE c.of
                        /\ c.error = (c.output # 0 /\ result[c.output] = "raised")
      OBVIOUS
    <3>1. RecordsCall(c, k, result[k]) /\ k # 0
      BY <2>2
    <3>2. c.of # 0 => c.of = k
      BY <3>1 DEF RecordsCall
    <3>3. c.output # 0 => c.output = k
      BY <3>1 DEF RecordsCall
    <3>4. result[k] = "raised" => c.output = k
      BY <3>1 DEF RecordsCall
    <3>5. c.error = (result[k] = "raised")
      BY <3>1 DEF RecordsCall
    <3>6. c.error = (c.output # 0 /\ result[c.output] = "raised")
      BY <3>1, <3>3, <3>4, <3>5
    <3> QED
      BY <3>1, <3>2, <3>6 DEF RecordsCall
  <2>5. Len(records) = Cardinality({t \in Tools : result[t] # "new"})
    <3>1. {t \in Tools : result[t] # "new"} = 1 .. Len(records)
      BY <2>1 DEF Recorded, Tools
    <3>2. Cardinality(1 .. Len(records)) = Len(records)
      <4> DEFINE n == Len(records)
      <4>1. n \in Int /\ n >= 0 /\ 1 \in Int
        BY <2>1
      <4> HIDE DEF n
      <4>2. Cardinality(1 .. n) = IF 1 > n THEN 0 ELSE n - 1 + 1
        BY <4>1, FS_Interval
      <4>3. Cardinality(1 .. n) = n
        BY <4>1, <4>2
      <4> QED
        BY <4>3 DEF n
    <3> QED
      BY <3>1, <3>2
  <2>6. (\E t \in Tools : tool[t] = "create" /\ result[t] = "done") => ~Hint
    <3> SUFFICES ASSUME NEW t \in Tools, tool[t] = "create", result[t] = "done"
                 PROVE  SkillWasCreated
      BY DEF Hint
    <3>1. t \in DOMAIN records /\ t # 0
      BY <2>1 DEF Recorded, Tools
    <3>2. records[t].of = t /\ records[t].error = FALSE
      BY <2>2, <3>1 DEF RecordsCall, Record
    <3> QED
      BY <3>1, <3>2 DEF SkillWasCreated
  <2> QED
    BY <2>3, <2>4, <2>5, <2>6 DEF RecordsAreTrue
<1> QED
  BY <1>1, LogStarts, LogSteps, PTL DEF LogSpec

-----------------------------------------------------------------------------
(* The provers take no operator as a parameter, so the operators that the   *)
(* models fold along a sequence are told apart by a name.                   *)

Op(of, x, e) ==
  CASE of = "off" -> RemoveFirst(x, e)
    [] of = "read" -> IF Contains(x, <<e>>) THEN x ELSE Append(x, <<e>>)
    [] of = "size" -> x + Cardinality(e)
    [] of = "replay" -> Written(Changed(Read(x), e.does, e.content, e.word))
F == INSTANCE FoldLemmas

\* Without one of its elements, what is left of a sequence.
LEMMA RemovedAt ==
  ASSUME NEW S, NEW s \in Seq(S), NEW p \in 1 .. Len(s)
  PROVE  /\ RemoveAt(s, p) \in Seq(S) /\ Len(RemoveAt(s, p)) = Len(s) - 1 /\ Len(s) - 1 \in Nat
         /\ \A i \in 1 .. Len(s) - 1 : RemoveAt(s, p)[i] = IF i < p THEN s[i] ELSE s[i + 1]
<1> DEFINE r == RemoveAt(s, p)
<1>0. Len(s) \in Nat /\ p \in 1 .. Len(s) /\ p \in Int
  OBVIOUS
<1>1. SubSeq(s, 1, p - 1) \in Seq(S) /\ Len(SubSeq(s, 1, p - 1)) = p - 1
      /\ \A i \in 1 .. p - 1 : SubSeq(s, 1, p - 1)[i] = s[i]
  BY <1>0
<1>2. SubSeq(s, p + 1, Len(s)) \in Seq(S) /\ Len(SubSeq(s, p + 1, Len(s))) = Len(s) - p
      /\ \A i \in 1 .. Len(s) - p : SubSeq(s, p + 1, Len(s))[i] = s[i + p]
  <2>1. p + 1 \in Int /\ Len(s) - (p + 1) + 1 = Len(s) - p /\ Len(s) - p \in Nat
    BY <1>0
  <2>2. \A i \in 1 .. Len(s) - p : (p + 1) + i - 1 = i + p
    BY <1>0
  <2> DEFINE q == p + 1
  <2>3. q \in Int /\ Len(s) \in Int /\ \A i \in q .. Len(s) : s[i] \in S
    BY <1>0
  <2> HIDE DEF q
  <2>4. /\ SubSeq(s, q, Len(s)) \in Seq(S)
        /\ Len(SubSeq(s, q, Len(s))) = IF q <= Len(s) THEN Len(s) - q + 1 ELSE 0
        /\ \A i \in 1 .. Len(s) - q + 1 : SubSeq(s, q, Len(s))[i] = s[q + i - 1]
    BY <2>3, SubSeqProperties
  <2> QED
    <3>0. q = p + 1 /\ p \in Int /\ Len(s) \in Int /\ p <= Len(s)
      BY <1>0 DEF q
    <3>1. Len(s) - q + 1 = Len(s) - p /\ (q <= Len(s) \/ Len(s) - p = 0) /\ Len(s) - p \in Nat
      BY <3>0
    <3>2. \A i \in 1 .. Len(s) - p : q + i - 1 = i + p
      BY <1>0 DEF q
    <3>3. \A i \in 1 .. Len(s) - p : SubSeq(s, q, Len(s))[i] = s[i + p]
      BY <2>4, <3>1, <3>2
    <3>4. Len(SubSeq(s, q, Len(s))) = Len(s) - p
      BY <1>0, <2>3, <2>4, <3>1
    <3>5. SubSeq(s, q, Len(s)) \in Seq(S)
      BY <2>4
    <3> QED
      BY <3>3, <3>4, <3>5 DEF q
<1> DEFINE a == SubSeq(s, 1, p - 1)
           b == SubSeq(s, p + 1, Len(s))
<1>3. r = a \o b
  BY DEF RemoveAt
<1>7. a \in Seq(S) /\ b \in Seq(S)
  BY <1>1, <1>2
<1> HIDE DEF a, b, r
<1>4. r \in Seq(S) /\ Len(r) = Len(a) + Len(b)
      /\ \A i \in 1 .. Len(a) + Len(b) : r[i] = IF i <= Len(a) THEN a[i] ELSE b[i - Len(a)]
  BY <1>3, <1>7
<1>5. Len(a) = p - 1 /\ Len(b) = Len(s) - p
  BY <1>1, <1>2 DEF a, b
<1>6. ASSUME NEW i \in 1 .. Len(s) - 1 PROVE r[i] = IF i < p THEN s[i] ELSE s[i + 1]
  <2>1. CASE i < p
    <3>1. i <= Len(a) /\ i \in 1 .. p - 1 /\ i \in 1 .. Len(a) + Len(b)
      BY <1>0, <1>5, <2>1
    <3> QED
      BY <1>1, <1>4, <2>1, <3>1 DEF a
  <2>2. CASE ~(i < p)
    <3>1. /\ ~(i <= Len(a)) /\ i - Len(a) \in 1 .. Len(s) - p /\ (i - Len(a)) + p = i + 1
          /\ i \in 1 .. Len(a) + Len(b)
      BY <1>0, <1>5, <2>2
    <3>2. r[i] = b[i - Len(a)]
      BY <1>4, <3>1
    <3>3. b[i - Len(a)] = s[i + 1]
      BY <1>2, <3>1 DEF b
    <3> QED
      BY <2>2, <3>2, <3>3
  <2> QED
    BY <2>1, <2>2
<1> QED
  BY <1>0, <1>4, <1>5, <1>6 DEF r

-----------------------------------------------------------------------------
(* The folds of the models.                                                *)

LEMMA WithoutFolds ==
  ASSUME NEW s, NEW D, NEW dead \in Seq(D)
  PROVE  \E h : F!Chain("off", s, dead, Len(dead), h) /\ Without(s, dead) = h[Len(dead)]
<1> DEFINE n == Len(dead)
           Is(it) == it = [u \in SUBSET (1 .. n) |-> IF u = {} THEN s ELSE RemoveFirst(it[u \ {Max(u)}], dead[Max(u)])]
<1>1. n \in Nat /\ DOMAIN dead = 1 .. n
  OBVIOUS
<1>2. \A it : Is(it) <=> F!Folds("off", s, dead, n, it)
  BY DEF F!Folds, Op, F!Max, Max
<1>3. \E it : Is(it)
  <2> HIDE DEF n, Is
  <2> QED
    BY <1>1, <1>2, F!FoldExists
<1> DEFINE it == CHOOSE f : Is(f)
<1>4. Is(it)
  <2> HIDE DEF Is
  <2> QED
    BY <1>3
<1>5. Without(s, dead) = it[1 .. n]
  BY <1>1 DEF Without, FoldLeft, MapThenFoldSet
<1> HIDE DEF it, Is, n
<1> QED
  BY <1>1, <1>2, <1>4, <1>5, F!FoldChain DEF n

LEMMA ReadFolds ==
  ASSUME NEW D, NEW notes \in Seq(D)
  PROVE  \E h : F!Chain("read", << >>, notes, Len(notes), h) /\ Read(notes) = h[Len(notes)]
<1> DEFINE n == Len(notes)
           Is(it) == it = [u \in SUBSET (1 .. n) |-> IF u = {} THEN << >>
                             ELSE IF Contains(it[u \ {Max(u)}], <<notes[Max(u)]>>) THEN it[u \ {Max(u)}]
                                  ELSE Append(it[u \ {Max(u)}], <<notes[Max(u)]>>)]
<1>1. n \in Nat /\ DOMAIN notes = 1 .. n
  OBVIOUS
<1>2. \A it : Is(it) <=> F!Folds("read", << >>, notes, n, it)
  BY DEF F!Folds, Op, F!Max, Max
<1>3. \E it : Is(it)
  <2> HIDE DEF n, Is
  <2> QED
    BY <1>1, <1>2, F!FoldExists
<1> DEFINE it == CHOOSE f : Is(f)
<1>4. Is(it)
  <2> HIDE DEF Is
  <2> QED
    BY <1>3
<1>5. Read(notes) = it[1 .. n]
  BY <1>1 DEF Read, FoldLeft, MapThenFoldSet
<1> HIDE DEF it, Is, n
<1> QED
  BY <1>1, <1>2, <1>4, <1>5, F!FoldChain DEF n

\* The words of the notes, which the length counts.
Size(notes) == FoldLeft(LAMBDA x, n : x + Cardinality(n), 0, notes)
LEMMA SizeFolds ==
  ASSUME NEW D, NEW notes \in Seq(D)
  PROVE  \E h : F!Chain("size", 0, notes, Len(notes), h) /\ Size(notes) = h[Len(notes)]
<1> DEFINE n == Len(notes)
           Is(it) == it = [u \in SUBSET (1 .. n) |-> IF u = {} THEN 0
                             ELSE it[u \ {Max(u)}] + Cardinality(notes[Max(u)])]
<1>1. n \in Nat /\ DOMAIN notes = 1 .. n
  OBVIOUS
<1>2. \A it : Is(it) <=> F!Folds("size", 0, notes, n, it)
  BY DEF F!Folds, Op, F!Max, Max
<1>3. \E it : Is(it)
  <2> HIDE DEF n, Is
  <2> QED
    BY <1>1, <1>2, F!FoldExists
<1> DEFINE it == CHOOSE f : Is(f)
<1>4. Is(it)
  <2> HIDE DEF Is
  <2> QED
    BY <1>3
<1>5. Size(notes) = it[1 .. n]
  BY <1>1 DEF Size, FoldLeft, MapThenFoldSet
<1> HIDE DEF it, Is, n
<1> QED
  BY <1>1, <1>2, <1>4, <1>5, F!FoldChain DEF n

\* What a sequence of changes makes of the empty file.
ReplayOf(changes) ==
  FoldLeft(LAMBDA notes, c : Written(Changed(Read(notes), c.does, c.content, c.word)), << >>, changes)
LEMMA ReplayFolds ==
  ASSUME NEW D, NEW changes \in Seq(D)
  PROVE  \E h : F!Chain("replay", << >>, changes, Len(changes), h) /\ ReplayOf(changes) = h[Len(changes)]
<1> DEFINE n == Len(changes)
           After(x, c) == Written(Changed(Read(x), c.does, c.content, c.word))
           Is(it) == it = [u \in SUBSET (1 .. n) |-> IF u = {} THEN << >>
                             ELSE After(it[u \ {Max(u)}], changes[Max(u)])]
<1>1. n \in Nat /\ DOMAIN changes = 1 .. n
  OBVIOUS
<1>2. \A it : Is(it) <=> F!Folds("replay", << >>, changes, n, it)
  BY DEF F!Folds, Op, F!Max, Max
<1>3. \E it : Is(it)
  <2> HIDE DEF n, Is
  <2> QED
    BY <1>1, <1>2, F!FoldExists
<1> DEFINE it == CHOOSE f : Is(f)
<1>4. Is(it)
  <2> HIDE DEF Is
  <2> QED
    BY <1>3
<1>5. ReplayOf(changes) = it[1 .. n]
  BY <1>1 DEF ReplayOf, FoldLeft, MapThenFoldSet
<1> HIDE DEF it, Is, n
<1> QED
  BY <1>1, <1>2, <1>4, <1>5, F!FoldChain DEF n

-----------------------------------------------------------------------------
(* The websocket clients. The lists have who is there, once each, whenever  *)
(* clients come, break and go at the awaits of a broadcast; candles that    *)
(* wait, are on their way and were sent are in the order they closed.       *)

Distinct(s) == \A i, j \in DOMAIN s : s[i] = s[j] => i = j
Lists(S) == {s \in Seq(S) : Distinct(s)}

\* Of a list that has everything once, the first that is e is all that is e.
LEMMA RemovedFirst ==
  ASSUME NEW S, NEW s \in Lists(S), NEW e
  PROVE  RemoveFirst(s, e) \in Lists(S) /\ ToSet(RemoveFirst(s, e)) = ToSet(s) \ {e}
<1>1. s \in Seq(S) /\ Distinct(s) /\ DOMAIN s = 1 .. Len(s) /\ Len(s) \in Nat
  BY DEF Lists
<1>2. CASE \A i \in 1 .. Len(s) : s[i] # e
  <2>1. RemoveFirst(s, e) = s
    BY <1>2 DEF RemoveFirst
  <2> QED
    BY <1>1, <1>2, <2>1 DEF ToSet
<1>3. CASE \E i \in 1 .. Len(s) : s[i] = e
  <2> DEFINE I == {i \in 1 .. Len(s) : s[i] = e}
  <2>1. PICK p \in 1 .. Len(s) : s[p] = e
    BY <1>3
  <2>2. I = {p}
    BY <1>1, <2>1 DEF Distinct
  <2>3. SelectInSeq(s, LAMBDA v : v = e) = Min(I)
    BY <2>1 DEF SelectInSeq
  <2>4. Min(I) = p
    BY <2>1, <2>2 DEF Min
  <2>5. RemoveFirst(s, e) = RemoveAt(s, p)
    BY <1>3, <2>3, <2>4 DEF RemoveFirst
  <2> DEFINE r == RemoveAt(s, p)
  <2>6. /\ r \in Seq(S) /\ Len(r) = Len(s) - 1
        /\ \A i \in 1 .. Len(s) - 1 : r[i] = IF i < p THEN s[i] ELSE s[i + 1]
    BY <1>1, <2>1, RemovedAt
  <2> HIDE DEF r
  <2>7. Distinct(r)
    <3> SUFFICES ASSUME NEW i \in 1 .. Len(s) - 1, NEW j \in 1 .. Len(s) - 1, r[i] = r[j] PROVE i = j
      BY <2>6 DEF Distinct
    <3> DEFINE Skips(k) == IF k < p THEN k ELSE k + 1
    <3>1. r[i] = s[Skips(i)] /\ r[j] = s[Skips(j)]
      BY <2>6
    <3>2. Skips(i) \in 1 .. Len(s) /\ Skips(j) \in 1 .. Len(s)
      BY <1>1, <2>1
    <3>3. Skips(i) = Skips(j)
      <4> HIDE DEF Skips
      <4> QED
        BY <1>1, <3>1, <3>2 DEF Distinct
    <3> QED
      BY <1>1, <2>1, <3>3
  <2>8. ToSet(r) = {s[i] : i \in (1 .. Len(s)) \ {p}}
    <3>1. ASSUME NEW i \in (1 .. Len(s)) \ {p} PROVE \E j \in 1 .. Len(r) : r[j] = s[i]
      <4>1. CASE i < p
        BY <1>1, <2>1, <2>6, <4>1
      <4>2. CASE i > p
        <5>1. i - 1 \in 1 .. Len(s) - 1 /\ ~(i - 1 < p) /\ (i - 1) + 1 = i
          BY <1>1, <2>1, <4>2
        <5> QED
          BY <1>1, <2>6, <5>1
      <4> QED
        BY <1>1, <2>1, <4>1, <4>2
    <3>2. ASSUME NEW j \in 1 .. Len(r) PROVE \E i \in (1 .. Len(s)) \ {p} : r[j] = s[i]
      BY <1>1, <2>1, <2>6
    <3>3. DOMAIN r = 1 .. Len(r)
      BY <2>6
    <3> QED
      BY <3>1, <3>2, <3>3 DEF ToSet
  <2>9. ToSet(r) = ToSet(s) \ {e}
    BY <1>1, <2>1, <2>2, <2>8 DEF ToSet
  <2> QED
    BY <2>5, <2>6, <2>7, <2>9 DEF Lists, r
<1> QED
  BY <1>2, <1>3

\* Taking off the dead, one after the other.
LEMMA WithoutIs ==
  ASSUME NEW S, NEW D, NEW s \in Lists(S), NEW dead \in Seq(D)
  PROVE  Without(s, dead) \in Lists(S) /\ ToSet(Without(s, dead)) = ToSet(s) \ ToSet(dead)
<1> DEFINE n == Len(dead)
           V == Lists(S)
<1>1. n \in Nat /\ DOMAIN dead = 1 .. n
  OBVIOUS
<1>2. PICK h : F!Chain("off", s, dead, n, h) /\ Without(s, dead) = h[n]
  BY WithoutFolds
<1>3. h[0] = s /\ \A k \in 1 .. n : h[k] = RemoveFirst(h[k - 1], dead[k])
  BY <1>2 DEF F!Chain, Op
<1> HIDE DEF n
<1> DEFINE K == {k \in Nat : k <= n => h[k] \in V /\ ToSet(h[k]) = ToSet(s) \ {dead[i] : i \in 1 .. k}}
<1>6. 0 \in K
  <2>1. 1 .. 0 = {}
    OBVIOUS
  <2> QED
    BY <1>3, <2>1
<1>7. ASSUME NEW k \in Nat, k \in K PROVE k + 1 \in K
  <2>1. CASE k + 1 <= n
    <3>1. k + 1 \in 1 .. n /\ (k + 1) - 1 = k
      BY <1>1, <2>1
    <3>2. h[k + 1] = RemoveFirst(h[k], dead[k + 1])
      BY <1>3, <3>1
    <3>4. h[k] \in V /\ ToSet(h[k]) = ToSet(s) \ {dead[i] : i \in 1 .. k}
      BY <1>1, <1>7, <2>1
    <3>5. {dead[i] : i \in 1 .. k + 1} = {dead[i] : i \in 1 .. k} \cup {dead[k + 1]}
      OBVIOUS
    <3>6. h[k + 1] \in V /\ ToSet(h[k + 1]) = ToSet(h[k]) \ {dead[k + 1]}
      BY <3>2, <3>4, RemovedFirst
    <3> QED
      BY <3>4, <3>5, <3>6
  <2> QED
    BY <1>1, <2>1
<1>8. n \in K
  <2> HIDE DEF K
  <2> QED
    BY <1>1, <1>6, <1>7, F!Induction
<1>9. {dead[i] : i \in 1 .. n} = ToSet(dead)
  BY <1>1 DEF ToSet
<1> QED
  BY <1>1, <1>2, <1>8, <1>9 DEF n

-----------------------------------------------------------------------------
Bar == [iv : Intervals, bar : Nat]
CastFields == {"at", "iv", "bar", "keys", "next", "dead", "audience", "sent"}
BridgeTyped ==
  /\ link \in {"down", "up"} /\ bars \in Nat /\ latest \in [Intervals -> Nat]
  /\ inbox \in Seq(Bar) /\ conns \in [Intervals -> Seq(Clients)]
  /\ client \in [Clients -> {"new", "on", "broken", "out"}] /\ watches \in [Clients -> Intervals]
  /\ last \in [Clients -> Nat]
  /\ cast = [f \in CastFields |-> cast[f]] /\ cast.at \in {"idle", "bar", "price"}

InboxInOrder ==
  /\ \A iv \in Intervals : latest[iv] <= bars
  /\ \A i \in DOMAIN inbox : inbox[i].bar <= latest[inbox[i].iv]
  /\ \A i, j \in DOMAIN inbox : i < j /\ inbox[i].iv = inbox[j].iv => inbox[i].bar <= inbox[j].bar
  /\ link = "down" => inbox = << >> /\ cast.at = "idle"
CastInOrder ==
  cast.at = "bar" =>
    /\ cast.iv \in Intervals /\ cast.bar \in Nat /\ cast.bar <= latest[cast.iv]
    /\ \A i \in DOMAIN inbox : inbox[i].iv = cast.iv => cast.bar <= inbox[i].bar
    /\ cast.keys = <<cast.iv>> \/ cast.keys = << >>
    /\ cast.next \in Nat \ {0} /\ cast.dead \in Seq(Clients)
    /\ \A k \in DOMAIN cast.dead : client[cast.dead[k]] \in {"broken", "out"}
SentInOrder ==
  \A c \in Clients :
    /\ client[c] = "new" => last[c] = 0
    /\ last[c] <= latest[watches[c]]
    /\ \A i \in DOMAIN inbox : inbox[i].iv = watches[c] => last[c] <= inbox[i].bar
    /\ cast.at = "bar" /\ cast.iv = watches[c] => last[c] <= cast.bar
BridgeInv == BridgeTyped /\ InboxInOrder /\ CastInOrder /\ SentInOrder /\ ListsAreTrue

LEMMA BridgeStart == BridgeInit => BridgeInv
<1> SUFFICES ASSUME BridgeInit PROVE BridgeInv
  OBVIOUS
<1> USE DEF BridgeInit, Idle, NoBar
<1>1. BridgeTyped
  <2>1. cast = [f \in CastFields |-> cast[f]]
    BY DEF CastFields
  <2> QED
    BY <2>1 DEF BridgeTyped
<1>2. InboxInOrder /\ CastInOrder /\ SentInOrder
  BY DEF InboxInOrder, CastInOrder, SentInOrder
<1>3. ListsAreTrue
  BY DEF ListsAreTrue, On, ToSet
<1> QED
  BY <1>1, <1>2, <1>3 DEF BridgeInv

\* A message has an interval and a candle; those that were received and are not handled.
LEMMA BarIs == \A m \in Bar : m.iv \in Intervals /\ m.bar \in Nat
  BY DEF Bar
LEMMA InboxIs ==
  ASSUME BridgeTyped
  PROVE  /\ DOMAIN inbox = 1 .. Len(inbox) /\ Len(inbox) \in Nat
         /\ \A i \in DOMAIN inbox : inbox[i] \in Bar /\ inbox[i].iv \in Intervals /\ inbox[i].bar \in Nat
  BY BarIs DEF BridgeTyped

LEMMA ClosesKeeps == ASSUME BridgeInv, NEW iv \in Intervals, Closes(iv) PROVE BridgeInv'
<1>1. /\ bars' = bars + 1 /\ latest' = [latest EXCEPT ![iv] = bars + 1]
      /\ inbox' = inbox \/ (link = "up" /\ inbox' = Append(inbox, [iv |-> iv, bar |-> bars + 1]))
      /\ link' = link /\ cast' = cast /\ conns' = conns /\ client' = client /\ watches' = watches /\ last' = last
  BY DEF Closes
<1>2. BridgeTyped /\ InboxInOrder /\ CastInOrder /\ SentInOrder /\ ListsAreTrue
  BY DEF BridgeInv
<1> DEFINE m == [iv |-> iv, bar |-> bars + 1]
<1>3. m \in Bar /\ m.iv = iv /\ m.bar = bars + 1 /\ bars \in Nat
  BY <1>2 DEF BridgeTyped, Bar
<1>12. inbox' = inbox \/ (link = "up" /\ inbox' = Append(inbox, m))
  BY <1>1
<1> HIDE DEF m
<1>4. BridgeTyped'
  <2>1. inbox' \in Seq(Bar)
    <3>1. inbox \in Seq(Bar)
      BY <1>2 DEF BridgeTyped
    <3>2. CASE inbox' = inbox
      BY <3>1, <3>2
    <3>3. CASE inbox' = Append(inbox, m)
      BY <1>3, <3>1, <3>3
    <3> QED
      BY <1>12, <3>2, <3>3
  <2>2. latest' \in [Intervals -> Nat] /\ bars' \in Nat
    BY <1>1, <1>2, <1>3 DEF BridgeTyped
  <2> QED
    BY <1>1, <1>2, <2>1, <2>2 DEF BridgeTyped
<1>5. \A j \in Intervals : latest'[j] >= latest[j] /\ latest'[j] <= bars'
  BY <1>1, <1>2 DEF BridgeTyped, InboxInOrder
<1>6. \A i \in DOMAIN inbox' : inbox'[i] \in Bar
                               /\ \/ i \in DOMAIN inbox /\ inbox'[i] = inbox[i]
                                  \/ link = "up" /\ inbox'[i] = m /\ i = Len(inbox) + 1
  <2>1. inbox \in Seq(Bar)
    BY <1>2 DEF BridgeTyped
  <2>2. CASE inbox' = inbox
    BY <2>1, <2>2
  <2>3. CASE link = "up" /\ inbox' = Append(inbox, m)
    BY <1>3, <2>1, <2>3
  <2> QED
    BY <1>12, <2>2, <2>3
<1>7. latest'[iv] = bars + 1
  BY <1>1, <1>2 DEF BridgeTyped
<1>8. InboxInOrder'
  <2>1. \A i \in DOMAIN inbox : inbox[i].iv \in Intervals /\ inbox[i].bar \in Nat /\ inbox[i].bar <= bars
    <3>1. \A i \in DOMAIN inbox : latest[inbox[i].iv] <= bars /\ latest[inbox[i].iv] \in Nat
      BY <1>2, InboxIs DEF BridgeTyped, InboxInOrder
    <3> QED
      BY <1>2, <1>3, <3>1, InboxIs DEF InboxInOrder
  <2>2. \A i \in DOMAIN inbox' : inbox'[i].bar <= latest'[inbox'[i].iv]
    <3> SUFFICES ASSUME NEW i \in DOMAIN inbox' PROVE inbox'[i].bar <= latest'[inbox'[i].iv]
      OBVIOUS
    <3>1. CASE i \in DOMAIN inbox /\ inbox'[i] = inbox[i]
      <4> DEFINE a == latest[inbox[i].iv]
                 b == latest'[inbox[i].iv]
      <4>1. a \in Nat /\ b \in Nat /\ a <= b /\ inbox[i].bar <= a
        BY <1>2, <1>4, <1>5, <2>1, <3>1 DEF BridgeTyped, InboxInOrder
      <4>2. inbox[i].bar <= b
        <5> HIDE DEF a, b
        <5> QED
          BY <2>1, <3>1, <4>1
      <4> QED
        BY <3>1, <4>2
    <3>2. CASE inbox'[i] = m
      BY <1>3, <1>7, <3>2
    <3> QED
      BY <1>6, <3>1, <3>2
  <2>3. ASSUME NEW i \in DOMAIN inbox', NEW j \in DOMAIN inbox', i < j, inbox'[i].iv = inbox'[j].iv
        PROVE  inbox'[i].bar <= inbox'[j].bar
    <3>1. i \in Nat /\ j \in Nat /\ j <= Len(inbox) + 1 /\ Len(inbox) \in Nat
      <4>1. Len(inbox') \in Nat /\ Len(inbox') <= Len(inbox) + 1 /\ DOMAIN inbox' = 1 .. Len(inbox')
        BY <1>2, <1>3, <1>12 DEF BridgeTyped
      <4> QED
        BY <1>2, <2>3, <4>1, InboxIs
    <3>2. i \in DOMAIN inbox /\ inbox'[i] = inbox[i]
      BY <1>6, <2>3, <3>1
    <3> QED
      <4>1. CASE j \in DOMAIN inbox /\ inbox'[j] = inbox[j]
        BY <1>2, <2>3, <3>2, <4>1 DEF InboxInOrder
      <4>2. CASE inbox'[j] = m
        BY <1>3, <2>1, <3>2, <4>2
      <4> QED
        BY <1>6, <4>1, <4>2
  <2>4. link' = "down" => inbox' = << >> /\ cast'.at = "idle"
    BY <1>1, <1>2 DEF InboxInOrder
  <2> QED
    BY <1>5, <2>2, <2>3, <2>4 DEF InboxInOrder
<1>9. CastInOrder'
  <2>1. CASE cast.at = "bar"
    <3>1. /\ cast.iv \in Intervals /\ cast.bar \in Nat /\ cast.bar <= latest[cast.iv]
          /\ latest[cast.iv] \in Nat /\ latest'[cast.iv] \in Nat /\ latest[cast.iv] <= bars
      BY <1>2, <1>4, <2>1 DEF CastInOrder, BridgeTyped, InboxInOrder
    <3>2. cast.bar <= latest'[cast.iv] /\ cast.bar <= bars + 1
      BY <1>3, <1>5, <3>1
    <3>3. \A i \in DOMAIN inbox' : inbox'[i].iv = cast.iv => cast.bar <= inbox'[i].bar
      BY <1>2, <1>3, <1>6, <2>1, <3>2 DEF CastInOrder
    <3> QED
      BY <1>1, <1>2, <2>1, <3>1, <3>2, <3>3 DEF CastInOrder
  <2> QED
    BY <1>1, <2>1 DEF CastInOrder
<1>10. SentInOrder'
  <2> SUFFICES ASSUME NEW c \in Clients
               PROVE  /\ last[c] <= latest'[watches[c]]
                      /\ \A i \in DOMAIN inbox' : inbox'[i].iv = watches[c] => last[c] <= inbox'[i].bar
    BY <1>1, <1>2 DEF SentInOrder
  <2>1. /\ watches[c] \in Intervals /\ last[c] \in Nat /\ last[c] <= latest[watches[c]]
        /\ latest[watches[c]] \in Nat /\ latest'[watches[c]] \in Nat /\ latest[watches[c]] <= bars
    BY <1>2, <1>4 DEF SentInOrder, BridgeTyped, InboxInOrder
  <2>2. last[c] <= latest'[watches[c]] /\ last[c] <= bars + 1
    BY <1>3, <1>5, <2>1
  <2> QED
    BY <1>2, <1>3, <1>6, <2>2 DEF SentInOrder
<1>11. ListsAreTrue'
  BY <1>1, <1>2 DEF ListsAreTrue, On
<1> QED
  BY <1>4, <1>8, <1>9, <1>10, <1>11 DEF BridgeInv

LEMMA ConnectsKeeps == ASSUME BridgeInv, Connects PROVE BridgeInv'
<1> DEFINE known == {iv \in Intervals : latest[iv] # NoBar}
           M == [iv : known, bar : {latest[iv] : iv \in known}]
<1>1. /\ link = "down" /\ link' = "up" /\ bars' = bars /\ latest' = latest /\ cast' = cast
      /\ conns' = conns /\ client' = client /\ watches' = watches /\ last' = last
      /\ inbox' \in [1 .. Cardinality(known) -> M]
      /\ \A k \in DOMAIN inbox' : inbox'[k].bar = latest[inbox'[k].iv]
  BY DEF Connects
<1>2. BridgeTyped /\ InboxInOrder /\ CastInOrder /\ SentInOrder /\ ListsAreTrue
  BY DEF BridgeInv
<1>3. M \subseteq Bar
  <2>1. known \subseteq Intervals /\ {latest[iv] : iv \in known} \subseteq Nat
    BY <1>2 DEF BridgeTyped
  <2> HIDE DEF known
  <2> QED
    BY <2>1 DEF Bar
<1>4. Cardinality(known) \in Nat
  <2>1. IsFiniteSet(Intervals)
    BY BridgeAssumption
  <2>2. IsFiniteSet(known)
    BY <2>1, FS_Subset
  <2> QED
    BY <2>2, FS_CardinalityType
<1>5. inbox' \in Seq(Bar)
  <2> HIDE DEF known, M
  <2> QED
    <3> DEFINE n == Cardinality(known)
    <3>1. inbox' \in [1 .. n -> Bar] /\ n \in Nat
      BY <1>1, <1>3, <1>4
    <3> HIDE DEF n
    <3> QED
      BY <3>1
<1>6. \A k \in DOMAIN inbox' : inbox'[k].iv \in Intervals /\ inbox'[k].bar = latest[inbox'[k].iv]
  <2> HIDE DEF known, M
  <2> QED
    <3>1. \A k \in DOMAIN inbox' : inbox'[k] \in Bar
      BY <1>5
    <3> QED
      BY <1>1, <3>1, BarIs
<1> HIDE DEF known, M
<1>7. BridgeTyped'
  BY <1>1, <1>2, <1>5 DEF BridgeTyped
<1>8. InboxInOrder'
  BY <1>1, <1>2, <1>6 DEF BridgeTyped, InboxInOrder
<1>9. CastInOrder' /\ SentInOrder'
  BY <1>1, <1>2, <1>6 DEF InboxInOrder, CastInOrder, SentInOrder
<1>10. ListsAreTrue'
  BY <1>1, <1>2 DEF ListsAreTrue, On
<1> QED
  BY <1>7, <1>8, <1>9, <1>10 DEF BridgeInv

\* The link and the messages may go, and the backoff may change, while nothing is sent.
LEMMA LinkGoes ==
  ASSUME BridgeInv, cast.at = "idle", link' \in {"down", "up"}, inbox' = << >>,
         UNCHANGED <<bars, latest, cast, conns, client, watches, last>>
  PROVE  BridgeInv'
<1>1. BridgeTyped /\ InboxInOrder /\ CastInOrder /\ SentInOrder /\ ListsAreTrue
  BY DEF BridgeInv
<1>2. BridgeTyped'
  BY <1>1 DEF BridgeTyped
<1>3. InboxInOrder'
  BY <1>1 DEF InboxInOrder
<1>4. CastInOrder' /\ SentInOrder'
  BY <1>1 DEF CastInOrder, SentInOrder
<1>5. ListsAreTrue'
  BY <1>1 DEF ListsAreTrue, On
<1> QED
  BY <1>2, <1>3, <1>4, <1>5 DEF BridgeInv

LEMMA PublishesKeeps == ASSUME BridgeInv, Publishes PROVE BridgeInv'
<1> DEFINE m == Head(inbox)
<1>1. /\ link = "up" /\ cast.at = "idle" /\ inbox # << >> /\ inbox' = Tail(inbox) /\ link' = link
      /\ bars' = bars /\ latest' = latest /\ conns' = conns /\ client' = client /\ watches' = watches /\ last' = last
      /\ cast'.at = "bar" /\ cast'.iv = m.iv /\ cast'.bar = m.bar /\ cast'.keys = <<m.iv>>
      /\ cast'.next = 1 /\ cast'.dead = << >>
  BY DEF Publishes, Idle
<1>2. BridgeTyped /\ InboxInOrder /\ CastInOrder /\ SentInOrder /\ ListsAreTrue
  BY DEF BridgeInv
<1>3. cast' = [f \in CastFields |-> cast'[f]]
  BY DEF Publishes, Idle, CastFields
<1>4. m \in Bar /\ m = inbox[1] /\ 1 \in DOMAIN inbox /\ m.iv \in Intervals /\ m.bar \in Nat
  BY <1>1, <1>2, BarIs DEF BridgeTyped
<1>5. /\ inbox' \in Seq(Bar)
      /\ \A i \in DOMAIN inbox' : i + 1 \in DOMAIN inbox /\ inbox'[i] = inbox[i + 1] /\ 1 < i + 1 /\ i \in Nat
  BY <1>1, <1>2 DEF BridgeTyped
<1> HIDE DEF m
<1>6. BridgeTyped'
  BY <1>1, <1>2, <1>3, <1>5 DEF BridgeTyped
<1>7. InboxInOrder'
  <2>1. \A i, j \in DOMAIN inbox' : i < j /\ inbox'[i].iv = inbox'[j].iv => inbox'[i].bar <= inbox'[j].bar
    <3> SUFFICES ASSUME NEW i \in DOMAIN inbox', NEW j \in DOMAIN inbox', i < j, inbox'[i].iv = inbox'[j].iv
                 PROVE  inbox'[i].bar <= inbox'[j].bar
      OBVIOUS
    <3>1. i + 1 < j + 1
      BY <1>5
    <3> QED
      BY <1>2, <1>5, <3>1 DEF InboxInOrder
  <2> QED
    BY <1>1, <1>2, <1>5, <2>1 DEF InboxInOrder
<1>8. CastInOrder'
  <2>1. m.iv \in Intervals /\ m.bar \in Nat /\ m.bar <= latest[m.iv]
    BY <1>2, <1>4 DEF InboxInOrder
  <2>2. \A i \in DOMAIN inbox' : inbox'[i].iv = m.iv => m.bar <= inbox'[i].bar
    BY <1>2, <1>4, <1>5 DEF InboxInOrder
  <2>3. cast'.dead \in Seq(Clients) /\ DOMAIN cast'.dead = {} /\ cast'.next \in Nat \ {0}
    BY <1>1
  <2> QED
    BY <1>1, <2>1, <2>2, <2>3 DEF CastInOrder
<1>9. SentInOrder'
  BY <1>1, <1>2, <1>4, <1>5 DEF SentInOrder
<1>10. ListsAreTrue'
  BY <1>1, <1>2 DEF ListsAreTrue, On
<1> QED
  BY <1>6, <1>7, <1>8, <1>9, <1>10 DEF BridgeInv
\* While a candle is sent, the list that is walked is that of its interval.
LEMMA OneKey ==
  ASSUME CastInOrder, cast.at = "bar", cast.keys # << >>
  PROVE  Head(cast.keys) = cast.iv /\ Tail(cast.keys) = << >> /\ cast.iv \in Intervals
<1>1. cast.keys = <<cast.iv>> /\ cast.iv \in Intervals
  BY DEF CastInOrder
<1>2. ASSUME NEW x PROVE Head(<<x>>) = x /\ Tail(<<x>>) = << >>
  OBVIOUS
<1> QED
  BY <1>1, <1>2

\* The client that the next send is for is on the list of the broadcast's interval.
LEMMA SendsKeeps == ASSUME BridgeInv, Sends PROVE BridgeInv'
<1> DEFINE c == conns[Head(cast.keys)][cast.next]
<1>1. /\ cast.at # "idle" /\ cast.keys # << >> /\ cast.next <= Len(conns[Head(cast.keys)])
      /\ link' = link /\ inbox' = inbox /\ bars' = bars /\ latest' = latest /\ conns' = conns
      /\ client' = client /\ watches' = watches
  BY DEF Sends
<1>2. \/ /\ client[c] = "on" /\ last' = IF cast.at = "bar" THEN [last EXCEPT ![c] = cast.bar] ELSE last
         /\ cast' = [cast EXCEPT !.next = cast.next + 1, !.sent = cast.sent \cup {c}]
      \/ /\ client[c] # "on" /\ last' = last
         /\ cast' = [cast EXCEPT !.next = cast.next + 1, !.dead = Append(cast.dead, c)]
  BY DEF Sends
<1>3. BridgeTyped /\ InboxInOrder /\ CastInOrder /\ SentInOrder /\ ListsAreTrue
  BY DEF BridgeInv
<1>4. cast = [f \in CastFields |-> cast[f]]
  BY <1>3 DEF BridgeTyped
<1>5. /\ cast'.at = cast.at /\ cast'.iv = cast.iv /\ cast'.bar = cast.bar /\ cast'.keys = cast.keys
      /\ cast'.next = cast.next + 1 /\ cast' = [f \in CastFields |-> cast'[f]]
      /\ cast'.dead = IF client[c] = "on" THEN cast.dead ELSE Append(cast.dead, c)
  <2> HIDE DEF c
  <2> QED
    BY <1>2, <1>4 DEF CastFields
<1>6. CASE cast.at = "bar"
  <2>1. /\ cast.keys = <<cast.iv>> /\ cast.iv \in Intervals /\ cast.next \in Nat \ {0} /\ cast.bar \in Nat
        /\ Head(cast.keys) = cast.iv /\ conns[cast.iv] \in Seq(Clients)
    <3>1. conns \in [Intervals -> Seq(Clients)]
      BY <1>3 DEF BridgeTyped
    <3> QED
      BY <1>1, <1>3, <1>6, <3>1, OneKey DEF CastInOrder
  <2>2. /\ c \in Clients /\ client[c] \in {"on", "broken"} /\ watches[c] = cast.iv
    BY <1>1, <1>3, <2>1 DEF ListsAreTrue
  <2> HIDE DEF c
  <2>3. last' \in [Clients -> Nat] /\ \A d \in Clients : last'[d] = last[d] \/ (d = c /\ last'[d] = cast.bar)
    BY <1>2, <1>3, <2>1, <2>2 DEF BridgeTyped
  <2>4. BridgeTyped'
    BY <1>1, <1>3, <1>5, <2>3 DEF BridgeTyped
  <2>5. CastInOrder'
    <3>1. cast.dead \in Seq(Clients) /\ \A k \in DOMAIN cast.dead : client[cast.dead[k]] \in {"broken", "out"}
      BY <1>3, <1>6 DEF CastInOrder
    <3>2. cast'.dead \in Seq(Clients) /\ \A k \in DOMAIN cast'.dead : client[cast'.dead[k]] \in {"broken", "out"}
      <4> DEFINE old == cast.dead
                 new == cast'.dead
      <4>1. new = old \/ (new = Append(old, c) /\ client[c] = "broken")
        BY <1>5, <2>2
      <4>2. old \in Seq(Clients) /\ \A k \in DOMAIN old : client[old[k]] \in {"broken", "out"}
        BY <3>1
      <4> HIDE DEF old, new
      <4>3. new \in Seq(Clients) /\ \A k \in DOMAIN new : client[new[k]] \in {"broken", "out"}
        BY <2>2, <4>1, <4>2
      <4> QED
        BY <4>3 DEF new
    <3> QED
      BY <1>1, <1>3, <1>5, <1>6, <2>1, <3>2 DEF CastInOrder
  <2>6. SentInOrder'
    <3> SUFFICES ASSUME NEW d \in Clients
                 PROVE  /\ client[d] = "new" => last'[d] = 0
                        /\ last'[d] <= latest[watches[d]]
                        /\ \A i \in DOMAIN inbox : inbox[i].iv = watches[d] => last'[d] <= inbox[i].bar
                        /\ cast.iv = watches[d] => last'[d] <= cast.bar
      BY <1>1, <1>5 DEF SentInOrder
    <3>1. CASE last'[d] = last[d]
      BY <1>3, <1>6, <3>1 DEF SentInOrder
    <3>2. CASE d = c /\ last'[d] = cast.bar
      BY <1>3, <1>6, <2>1, <2>2, <3>2 DEF CastInOrder
    <3> QED
      BY <2>3, <3>1, <3>2
  <2>7. InboxInOrder' /\ ListsAreTrue'
    BY <1>1, <1>3, <1>5 DEF InboxInOrder, ListsAreTrue, On
  <2> QED
    BY <2>4, <2>5, <2>6, <2>7 DEF BridgeInv
<1>7. CASE cast.at = "price"
  <2> HIDE DEF c
  <2>1. last' = last
    BY <1>2, <1>7
  <2>2. BridgeTyped'
    BY <1>1, <1>3, <1>5, <2>1 DEF BridgeTyped
  <2>3. InboxInOrder' /\ CastInOrder' /\ SentInOrder' /\ ListsAreTrue'
    BY <1>1, <1>3, <1>5, <1>7, <2>1 DEF InboxInOrder, CastInOrder, SentInOrder, ListsAreTrue, On
  <2> QED
    BY <2>2, <2>3 DEF BridgeInv
<1> QED
  BY <1>1, <1>3, <1>6, <1>7 DEF BridgeTyped

\* A list that is there, without clients that are gone.
LEMMA ListWithout ==
  ASSUME ListsAreTrue, NEW iv \in Intervals, NEW D, NEW dead \in Seq(D), conns \in [Intervals -> Seq(Clients)]
  PROVE  LET new == Without(conns[iv], dead) IN
         /\ new \in Seq(Clients) /\ Distinct(new) /\ ToSet(new) = ToSet(conns[iv]) \ ToSet(dead)
<1>1. conns[iv] \in Lists(Clients)
  BY DEF Lists, Distinct, ListsAreTrue
<1> QED
  BY <1>1, WithoutIs DEF Lists

LEMMA ListEndsKeeps == ASSUME BridgeInv, ListEnds PROVE BridgeInv'
<1> DEFINE k == Head(cast.keys)
<1>1. /\ cast.at # "idle" /\ cast.keys # << >>
      /\ conns' = IF cast.at = "bar" THEN [conns EXCEPT ![k] = Without(conns[k], cast.dead)] ELSE conns
      /\ link' = link /\ inbox' = inbox /\ bars' = bars /\ latest' = latest
      /\ client' = client /\ watches' = watches /\ last' = last
  BY DEF ListEnds
<1>2. BridgeTyped /\ InboxInOrder /\ CastInOrder /\ SentInOrder /\ ListsAreTrue
  BY DEF BridgeInv
<1>3. /\ cast'.at = cast.at /\ cast'.iv = cast.iv /\ cast'.bar = cast.bar /\ cast'.keys = Tail(cast.keys)
      /\ cast'.next = 1 /\ cast'.dead = << >> /\ cast' = [f \in CastFields |-> cast'[f]]
  <2>1. cast = [f \in CastFields |-> cast[f]]
    BY <1>2 DEF BridgeTyped
  <2>2. cast' = [cast EXCEPT !.keys = Tail(cast.keys), !.next = 1, !.dead = << >>]
    BY DEF ListEnds
  <2> QED
    BY <2>1, <2>2 DEF CastFields
<1>4. InboxInOrder' /\ SentInOrder'
  BY <1>1, <1>2, <1>3 DEF InboxInOrder, SentInOrder
<1>5. CastInOrder'
  <2>1. cast.at = "bar" => Tail(cast.keys) = << >>
    BY <1>1, <1>2, OneKey
  <2>2. << >> \in Seq(Clients) /\ DOMAIN << >> = {} /\ 1 \in Nat \ {0}
    OBVIOUS
  <2> QED
    BY <1>1, <1>2, <1>3, <2>1, <2>2 DEF CastInOrder
<1>6. CASE cast.at = "bar"
  <2> DEFINE new == Without(conns[k], cast.dead)
  <2>1. k \in Intervals /\ cast.dead \in Seq(Clients) /\ \A j \in DOMAIN cast.dead : client[cast.dead[j]] \in {"broken", "out"}
    BY <1>1, <1>2, <1>6 DEF CastInOrder
  <2> HIDE DEF k
  <2>2. new \in Seq(Clients) /\ Distinct(new) /\ ToSet(new) = ToSet(conns[k]) \ ToSet(cast.dead)
    BY <1>2, <2>1, ListWithout DEF BridgeTyped
  <2>3. conns' = [conns EXCEPT ![k] = new]
    BY <1>1, <1>6 DEF k
  <2> HIDE DEF new
  <2>4. BridgeTyped'
    BY <1>1, <1>2, <1>3, <2>1, <2>2, <2>3 DEF BridgeTyped
  <2>5. ListsAreTrue'
    <3> SUFFICES ASSUME NEW iv \in Intervals
                 PROVE  /\ \A i, j \in DOMAIN conns'[iv] : conns'[iv][i] = conns'[iv][j] => i = j
                        /\ \A c \in Clients : client[c] = "on" /\ watches[c] = iv => c \in ToSet(conns'[iv])
                        /\ \A i \in DOMAIN conns'[iv] :
                             client[conns'[iv][i]] \in {"on", "broken"} /\ watches[conns'[iv][i]] = iv
      BY <1>1 DEF ListsAreTrue, On
    <3>1. CASE iv # k
      BY <1>2, <2>3, <3>1 DEF ListsAreTrue, On, BridgeTyped
    <3>2. CASE iv = k
      <4>1. conns'[iv] = new
        BY <1>2, <2>1, <2>3, <3>2 DEF BridgeTyped
      <4>2. \A c \in ToSet(cast.dead) : client[c] \in {"broken", "out"}
        BY <2>1 DEF ToSet
      <4>3. \A c \in Clients : client[c] = "on" /\ watches[c] = iv => c \in ToSet(new)
        BY <1>2, <2>1, <2>2, <3>2, <4>2 DEF ListsAreTrue, On
      <4>4. \A i \in DOMAIN new : \E j \in DOMAIN conns[k] : new[i] = conns[k][j]
        BY <2>2 DEF ToSet
      <4>5. \A i \in DOMAIN new : client[new[i]] \in {"on", "broken"} /\ watches[new[i]] = iv
        BY <1>2, <2>1, <3>2, <4>4 DEF ListsAreTrue
      <4> QED
        BY <2>2, <4>1, <4>3, <4>5 DEF Distinct
    <3> QED
      BY <3>1, <3>2
  <2> QED
    BY <1>4, <1>5, <2>4, <2>5 DEF BridgeInv
<1>7. CASE cast.at # "bar"
  <2> HIDE DEF k
  <2>1. conns' = conns
    BY <1>1, <1>7
  <2>2. BridgeTyped'
    BY <1>1, <1>2, <1>3, <2>1 DEF BridgeTyped
  <2>3. ListsAreTrue'
    BY <1>1, <1>2, <2>1 DEF ListsAreTrue, On
  <2> QED
    BY <1>4, <1>5, <2>2, <2>3 DEF BridgeInv
<1> QED
  BY <1>6, <1>7

LEMMA CastEndsKeeps == ASSUME BridgeInv, CastEnds PROVE BridgeInv'
<1>1. /\ link' = link /\ inbox' = inbox /\ bars' = bars /\ latest' = latest /\ conns' = conns
      /\ client' = client /\ watches' = watches /\ last' = last
  BY DEF CastEnds
<1>2. BridgeTyped /\ InboxInOrder /\ CastInOrder /\ SentInOrder /\ ListsAreTrue
  BY DEF BridgeInv
<1>3. cast' = [f \in CastFields |-> cast'[f]] /\ cast'.at \in {"price", "idle"}
  <2>1. cast = [f \in CastFields |-> cast[f]]
    BY <1>2 DEF BridgeTyped
  <2>2. \E q, a : \/ cast' = [cast EXCEPT !.at = "price", !.keys = q, !.sent = {}, !.audience = a]
                  \/ cast' = Idle
    BY DEF CastEnds
  <2>3. PICK q, a : \/ cast' = [cast EXCEPT !.at = "price", !.keys = q, !.sent = {}, !.audience = a]
                    \/ cast' = Idle
    BY <2>2
  <2>4. CASE cast' = Idle
    BY <2>4 DEF Idle, CastFields
  <2>5. CASE cast' = [cast EXCEPT !.at = "price", !.keys = q, !.sent = {}, !.audience = a]
    BY <2>1, <2>5 DEF CastFields
  <2> QED
    BY <2>3, <2>4, <2>5
<1>4. cast.at # "idle"
  BY DEF CastEnds
<1>5. BridgeTyped'
  BY <1>1, <1>2, <1>3 DEF BridgeTyped
<1>6. InboxInOrder'
  BY <1>1, <1>2, <1>4 DEF InboxInOrder
<1>7. CastInOrder' /\ SentInOrder'
  BY <1>1, <1>2, <1>3 DEF CastInOrder, SentInOrder
<1>8. ListsAreTrue'
  BY <1>1, <1>2 DEF ListsAreTrue, On
<1> QED
  BY <1>5, <1>6, <1>7, <1>8 DEF BridgeInv

LEMMA JoinsKeeps == ASSUME BridgeInv, NEW c \in Clients, NEW iv \in Intervals, Joins(c, iv) PROVE BridgeInv'
<1>1. /\ client[c] = "new" /\ client' = [client EXCEPT ![c] = "on"] /\ watches' = [watches EXCEPT ![c] = iv]
      /\ conns' = [conns EXCEPT ![iv] = Append(conns[iv], c)]
      /\ link' = link /\ inbox' = inbox /\ bars' = bars /\ latest' = latest /\ cast' = cast /\ last' = last
  BY DEF Joins
<1>2. BridgeTyped /\ InboxInOrder /\ CastInOrder /\ SentInOrder /\ ListsAreTrue
  BY DEF BridgeInv
<1>3. /\ client'[c] = "on" /\ watches'[c] = iv
      /\ \A d \in Clients : d # c => client'[d] = client[d] /\ watches'[d] = watches[d]
  BY <1>1, <1>2 DEF BridgeTyped
<1>4. BridgeTyped'
  <2>1. Append(conns[iv], c) \in Seq(Clients)
    BY <1>2 DEF BridgeTyped
  <2> QED
    BY <1>1, <1>2, <2>1 DEF BridgeTyped
<1>5. InboxInOrder'
  BY <1>1, <1>2 DEF InboxInOrder
<1>6. CastInOrder'
  BY <1>1, <1>2, <1>3 DEF CastInOrder
<1>7. SentInOrder'
  <2> SUFFICES ASSUME NEW d \in Clients
               PROVE  /\ client'[d] = "new" => last[d] = 0
                      /\ last[d] <= latest[watches'[d]]
                      /\ \A i \in DOMAIN inbox : inbox[i].iv = watches'[d] => last[d] <= inbox[i].bar
                      /\ cast.at = "bar" /\ cast.iv = watches'[d] => last[d] <= cast.bar
    BY <1>1 DEF SentInOrder
  <2>1. CASE d = c
    <3>1. last[d] = 0
      BY <1>1, <1>2, <2>1 DEF SentInOrder
    <3>2. latest[iv] \in Nat /\ (\A i \in DOMAIN inbox : inbox[i].bar \in Nat) /\ (cast.at = "bar" => cast.bar \in Nat)
      BY <1>2, InboxIs DEF BridgeTyped, CastInOrder
    <3> QED
      BY <1>3, <2>1, <3>1, <3>2
  <2>2. CASE d # c
    BY <1>2, <1>3, <2>2 DEF SentInOrder
  <2> QED
    BY <2>1, <2>2
<1>8. ListsAreTrue'
  <2> SUFFICES ASSUME NEW j \in Intervals
               PROVE  /\ \A p, q \in DOMAIN conns'[j] : conns'[j][p] = conns'[j][q] => p = q
                      /\ \A d \in Clients : client'[d] = "on" /\ watches'[d] = j => d \in ToSet(conns'[j])
                      /\ \A p \in DOMAIN conns'[j] :
                           client'[conns'[j][p]] \in {"on", "broken"} /\ watches'[conns'[j][p]] = j
    BY DEF ListsAreTrue, On
  <2> DEFINE s == conns[j]
  <2>1. /\ s \in Seq(Clients) /\ DOMAIN s = 1 .. Len(s) /\ Len(s) \in Nat
        /\ \A p \in DOMAIN s : s[p] \in Clients
    BY <1>2 DEF BridgeTyped
  <2>2. /\ \A p, q \in DOMAIN s : s[p] = s[q] => p = q
        /\ \A d \in Clients : client[d] = "on" /\ watches[d] = j => d \in ToSet(s)
        /\ \A p \in DOMAIN s : client[s[p]] \in {"on", "broken"} /\ watches[s[p]] = j
    BY <1>2 DEF ListsAreTrue, On
  <2>3. \A p \in DOMAIN s : s[p] # c /\ client'[s[p]] = client[s[p]] /\ watches'[s[p]] = watches[s[p]]
    BY <1>1, <1>3, <2>1, <2>2
  <2>4. CASE j # iv
    <3>1. conns'[j] = s
      BY <1>1, <1>2, <2>4 DEF BridgeTyped
    <3> HIDE DEF s
    <3> QED
      BY <1>3, <2>2, <2>3, <2>4, <3>1
  <2>5. CASE j = iv
    <3> DEFINE t == conns'[j]
    <3>1. t = Append(s, c)
      BY <1>1, <1>2, <2>5 DEF BridgeTyped
    <3> HIDE DEF s, t
    <3>2. /\ DOMAIN t = 1 .. Len(s) + 1 /\ t[Len(s) + 1] = c /\ \A p \in DOMAIN s : t[p] = s[p]
      BY <2>1, <3>1
    <3>3. \A p, q \in DOMAIN t : t[p] = t[q] => p = q
      BY <2>1, <2>2, <2>3, <3>2
    <3>4. \A d \in Clients : client'[d] = "on" /\ watches'[d] = j => d \in ToSet(t)
      <4>1. ToSet(s) \subseteq ToSet(t) /\ c \in ToSet(t)
        BY <2>1, <3>2 DEF ToSet
      <4> QED
        BY <1>3, <2>2, <4>1
    <3>5. \A p \in DOMAIN t : client'[t[p]] \in {"on", "broken"} /\ watches'[t[p]] = j
      BY <1>3, <2>1, <2>2, <2>3, <2>5, <3>2
    <3> QED
      BY <3>3, <3>4, <3>5 DEF t
  <2> QED
    BY <2>4, <2>5
<1> QED
  BY <1>4, <1>5, <1>6, <1>7, <1>8 DEF BridgeInv

LEMMA BreaksKeeps == ASSUME BridgeInv, NEW c \in Clients, Breaks(c) PROVE BridgeInv'
<1>1. /\ client[c] = "on" /\ client' = [client EXCEPT ![c] = "broken"] /\ watches' = watches /\ conns' = conns
      /\ link' = link /\ inbox' = inbox /\ bars' = bars /\ latest' = latest /\ last' = last
      /\ cast' = [cast EXCEPT !.audience = cast.audience \ {c}]
  BY DEF Breaks
<1>2. BridgeTyped /\ InboxInOrder /\ CastInOrder /\ SentInOrder /\ ListsAreTrue
  BY DEF BridgeInv
<1>3. client'[c] = "broken" /\ \A d \in Clients : d # c => client'[d] = client[d]
  BY <1>1, <1>2 DEF BridgeTyped
<1>4. /\ cast' = [f \in CastFields |-> cast'[f]]
      /\ \A f \in {"at", "iv", "bar", "keys", "next", "dead"} : cast'[f] = cast[f]
  BY <1>1, <1>2 DEF BridgeTyped, CastFields
<1>5. BridgeTyped'
  BY <1>1, <1>2, <1>4 DEF BridgeTyped
<1>6. InboxInOrder'
  BY <1>1, <1>2, <1>4 DEF InboxInOrder
<1>7. CastInOrder'
  BY <1>1, <1>2, <1>3, <1>4 DEF CastInOrder
<1>8. SentInOrder'
  BY <1>1, <1>2, <1>3, <1>4 DEF SentInOrder
<1>9. ListsAreTrue'
  BY <1>1, <1>2, <1>3 DEF ListsAreTrue, On, BridgeTyped
<1> QED
  BY <1>5, <1>6, <1>7, <1>8, <1>9 DEF BridgeInv

LEMMA LeavesKeeps == ASSUME BridgeInv, NEW c \in Clients, Leaves(c) PROVE BridgeInv'
<1> DEFINE k == watches[c]
           new == RemoveFirst(conns[k], c)
<1>1. /\ client[c] \in {"on", "broken"} /\ client' = [client EXCEPT ![c] = "out"] /\ watches' = watches
      /\ conns' = [conns EXCEPT ![k] = new]
      /\ link' = link /\ inbox' = inbox /\ bars' = bars /\ latest' = latest /\ last' = last
      /\ cast' = [cast EXCEPT !.audience = cast.audience \ {c}]
  BY DEF Leaves
<1>2. BridgeTyped /\ InboxInOrder /\ CastInOrder /\ SentInOrder /\ ListsAreTrue
  BY DEF BridgeInv
<1>3. client'[c] = "out" /\ \A d \in Clients : d # c => client'[d] = client[d]
  BY <1>1, <1>2 DEF BridgeTyped
<1>4. /\ cast' = [f \in CastFields |-> cast'[f]]
      /\ \A f \in {"at", "iv", "bar", "keys", "next", "dead"} : cast'[f] = cast[f]
  BY <1>1, <1>2 DEF BridgeTyped, CastFields
<1>5. k \in Intervals /\ conns[k] \in Lists(Clients)
  BY <1>2 DEF BridgeTyped, ListsAreTrue, Lists, Distinct
<1>6. new \in Seq(Clients) /\ Distinct(new) /\ ToSet(new) = ToSet(conns[k]) \ {c}
  BY <1>5, RemovedFirst DEF Lists
<1> HIDE DEF new
<1>7. BridgeTyped'
  BY <1>1, <1>2, <1>4, <1>5, <1>6 DEF BridgeTyped
<1>8. InboxInOrder'
  BY <1>1, <1>2, <1>4 DEF InboxInOrder
<1>9. CastInOrder'
  BY <1>1, <1>2, <1>3, <1>4 DEF CastInOrder
<1>10. SentInOrder'
  BY <1>1, <1>2, <1>3, <1>4 DEF SentInOrder
<1>11. ListsAreTrue'
  <2> SUFFICES ASSUME NEW j \in Intervals
               PROVE  /\ \A p, q \in DOMAIN conns'[j] : conns'[j][p] = conns'[j][q] => p = q
                      /\ \A d \in Clients : client'[d] = "on" /\ watches[d] = j => d \in ToSet(conns'[j])
                      /\ \A p \in DOMAIN conns'[j] :
                           client'[conns'[j][p]] \in {"on", "broken"} /\ watches[conns'[j][p]] = j
    BY <1>1 DEF ListsAreTrue, On
  <2>1. CASE j # k
    <3>1. conns'[j] = conns[j]
      BY <1>1, <1>2, <2>1 DEF BridgeTyped
    <3>2. \A p \in DOMAIN conns[j] : conns[j][p] \in Clients /\ conns[j][p] # c
      BY <1>2, <2>1 DEF BridgeTyped, ListsAreTrue
    <3> QED
      BY <1>2, <1>3, <3>1, <3>2 DEF ListsAreTrue, On
  <2>2. CASE j = k
    <3>1. conns'[j] = new
      BY <1>1, <1>2, <1>5, <2>2 DEF BridgeTyped
    <3>2. \A p \in DOMAIN new : new[p] \in Clients /\ new[p] # c /\ \E q \in DOMAIN conns[k] : new[p] = conns[k][q]
      <4>1. \A p \in DOMAIN new : new[p] \in ToSet(new)
        BY DEF ToSet
      <4>2. \A x \in ToSet(conns[k]) : \E q \in DOMAIN conns[k] : x = conns[k][q]
        BY DEF ToSet
      <4>3. \A p \in DOMAIN new : new[p] \in Clients
        BY <1>6
      <4> QED
        BY <1>6, <4>1, <4>2, <4>3
    <3>3. \A d \in Clients : client'[d] = "on" /\ watches[d] = j => d \in ToSet(new)
      BY <1>2, <1>3, <1>5, <1>6, <2>2 DEF ListsAreTrue, On
    <3>4. \A p \in DOMAIN new : client'[new[p]] \in {"on", "broken"} /\ watches[new[p]] = j
      BY <1>2, <1>3, <1>5, <2>2, <3>2 DEF ListsAreTrue
    <3> QED
      BY <1>6, <3>1, <3>3, <3>4 DEF Distinct
  <2> QED
    BY <2>1, <2>2
<1> QED
  BY <1>7, <1>8, <1>9, <1>10, <1>11 DEF BridgeInv

LEMMA BridgeStep == BridgeInv /\ [BridgeNext]_bridgevars => BridgeInv'
<1> SUFFICES ASSUME BridgeInv, [BridgeNext]_bridgevars PROVE BridgeInv'
  OBVIOUS
<1>1. CASE Fails \/ Closed
  BY <1>1, LinkGoes DEF Fails, Closed
<1>2. CASE UNCHANGED bridgevars
  <2> USE <1>2 DEF bridgevars, BridgeInv
  <2>1. BridgeTyped'
    BY DEF BridgeTyped
  <2>2. InboxInOrder' /\ CastInOrder'
    BY DEF InboxInOrder, CastInOrder
  <2>3. SentInOrder' /\ ListsAreTrue'
    BY DEF SentInOrder, ListsAreTrue, On
  <2> QED
    BY <2>1, <2>2, <2>3
<1> QED
  BY <1>1, <1>2, ConnectsKeeps, PublishesKeeps, SendsKeeps, ListEndsKeeps, CastEndsKeeps, ClosesKeeps,
     JoinsKeeps, BreaksKeeps, LeavesKeeps DEF BridgeNext

\* However many clients come and go at the awaits of a broadcast, and sessions are lost: a client
\* sees its candles in the order they closed, and the lists have who is there, once
\* (nats_bridge.py, ConnectionManager).
THEOREM TimeGoesOn == BridgeSpec => ClientsSeeTime
<1>1. BridgeInv /\ BridgeInv' /\ [BridgeNext]_bridgevars => [ListsAreTrue' /\ \A c \in Clients : last'[c] >= last[c]]_bridgevars
  <2> SUFFICES ASSUME BridgeInv, BridgeInv', [BridgeNext]_bridgevars, NEW c \in Clients
               PROVE  last'[c] >= last[c]
    BY DEF BridgeInv
  <2>1. BridgeTyped /\ CastInOrder /\ SentInOrder /\ ListsAreTrue
    BY DEF BridgeInv
  <2>2. last[c] \in Nat
    BY <2>1 DEF BridgeTyped
  <2>3. CASE Sends
    <3> DEFINE d == conns[Head(cast.keys)][cast.next]
    <3>1. /\ cast.keys # << >> /\ cast.next <= Len(conns[Head(cast.keys)])
          /\ last' = last \/ (cast.at = "bar" /\ last' = [last EXCEPT ![d] = cast.bar])
      BY <2>3 DEF Sends
    <3>2. CASE cast.at = "bar" /\ last' = [last EXCEPT ![d] = cast.bar]
      <4>1. Head(cast.keys) = cast.iv /\ cast.iv \in Intervals /\ cast.next \in Nat \ {0} /\ cast.bar \in Nat
            /\ conns[cast.iv] \in Seq(Clients)
        <5>1. conns \in [Intervals -> Seq(Clients)]
          BY <2>1 DEF BridgeTyped
        <5> QED
          BY <2>1, <3>1, <3>2, <5>1, OneKey DEF CastInOrder
      <4>2. d \in Clients /\ watches[d] = cast.iv
        BY <2>1, <3>1, <4>1 DEF ListsAreTrue
      <4> HIDE DEF d
      <4>3. last[d] <= cast.bar
        BY <2>1, <3>2, <4>2 DEF SentInOrder
      <4> QED
        BY <2>1, <2>2, <3>2, <4>1, <4>2, <4>3 DEF BridgeTyped
    <3> QED
      BY <2>2, <3>1, <3>2
  <2>4. CASE ~Sends
    <3>1. last' = last
      BY <2>4 DEF BridgeNext, Connects, Fails, Closed, Publishes, ListEnds, CastEnds, Closes, Joins, Breaks,
                  Leaves, bridgevars
    <3> QED
      BY <2>2, <3>1
  <2> QED
    BY <2>3, <2>4
<1>2. QED
  BY <1>1, BridgeStart, BridgeStep, PTL DEF BridgeSpec, ClientsSeeTime

-----------------------------------------------------------------------------
(* Memory files. Read gives entries of one note each, no two of them equal; *)
(* written they are as long as the file at most, so what a change makes of  *)
(* a file within the limit stays within the limit.                          *)

\* Written joins the entries, one after the other.
LEMMA WrittenJoins ==
  ASSUME NEW D, NEW e \in Seq(D), e # << >>
  PROVE  \E f : /\ f[1] = e[1] /\ (\A i \in 2 .. Len(e) : f[i] = f[i - 1] \o e[i])
                /\ Written(e) = f[Len(e)]
<1> DEFINE n == Len(e)
           Is(f) == f = [i \in 1 .. n |-> IF i = 1 THEN e[i] ELSE f[i - 1] \o e[i]]
           Good(k, f) == /\ f = [i \in 1 .. k |-> f[i]] /\ f[1] = e[1]
                         /\ \A i \in 2 .. k : f[i] = f[i - 1] \o e[i]
           S == {j \in Nat : \E f : Good(j + 1, f)}
<1>1. n \in Nat /\ n # 0
  OBVIOUS
<1>2. 0 \in S
  <2> DEFINE f == [i \in 1 .. 1 |-> e[1]]
  <2>1. f = [i \in 1 .. 1 |-> f[i]] /\ f[1] = e[1] /\ 2 .. 1 = {}
    OBVIOUS
  <2>2. Good(0 + 1, f)
    <3>1. 0 + 1 = 1
      OBVIOUS
    <3> HIDE DEF f
    <3> QED
      BY <2>1, <3>1
  <2> QED
    <3> HIDE DEF f, Good
    <3> QED
      BY <2>2
<1>3. ASSUME NEW j \in Nat, j \in S PROVE j + 1 \in S
  <2> DEFINE k == j + 1
  <2>1. k \in Nat /\ k # 0
    OBVIOUS
  <2>2. PICK f : Good(k, f)
    <3> HIDE DEF Good
    <3> QED
      BY <1>3
  <2> HIDE DEF k
  <2> DEFINE g == [i \in 1 .. k + 1 |-> IF i = k + 1 THEN f[k] \o e[i] ELSE f[i]]
  <2>3. g = [i \in 1 .. k + 1 |-> g[i]]
    OBVIOUS
  <2>4. \A i \in 1 .. k : g[i] = f[i]
    BY <2>1
  <2>5. g[k + 1] = f[k] \o e[k + 1]
    <3>1. k + 1 \in 1 .. k + 1
      BY <2>1
    <3> QED
      BY <3>1
  <2>6. Good(k + 1, g)
    <3> HIDE DEF g
    <3>1. g[1] = e[1]
      BY <2>1, <2>2, <2>4
    <3>2. ASSUME NEW i \in 2 .. k + 1 PROVE g[i] = g[i - 1] \o e[i]
      <4>1. CASE i = k + 1
        <5>1. i - 1 = k /\ k \in 1 .. k
          BY <2>1, <4>1
        <5> QED
          BY <2>4, <2>5, <4>1, <5>1
      <4>2. CASE i # k + 1
        <5>1. i \in 2 .. k /\ i \in 1 .. k /\ i - 1 \in 1 .. k
          BY <2>1, <4>2
        <5> QED
          BY <2>2, <2>4, <5>1
      <4> QED
        BY <4>1, <4>2
    <3> QED
      BY <2>3, <3>1, <3>2
  <2> QED
    <3> HIDE DEF g, Good
    <3> QED
      BY <2>1, <2>6 DEF k
<1>4. n - 1 \in S
  <2> HIDE DEF S
  <2>1. n - 1 \in Nat
    BY <1>1
  <2> QED
    BY <1>2, <1>3, <2>1, F!Induction
<1>5. PICK f : Good(n, f)
  <2> HIDE DEF Good
  <2>1. (n - 1) + 1 = n
    BY <1>1
  <2> QED
    BY <1>4, <2>1
<1>6. Is(f)
  <2>1. ASSUME NEW i \in 1 .. n PROVE f[i] = IF i = 1 THEN e[i] ELSE f[i - 1] \o e[i]
    <3>1. i = 1 \/ i \in 2 .. n
      BY <1>1
    <3> QED
      BY <1>5, <3>1
  <2> HIDE DEF n
  <2> QED
    BY <1>5, <2>1
<1> DEFINE flat == CHOOSE g : Is(g)
<1>7. Is(flat)
  <2> HIDE DEF Is
  <2> QED
    BY <1>6
<1>8. Written(e) = flat[n]
  BY <1>1 DEF Written, FlattenSeq
<1> HIDE DEF flat
<1>9. flat[1] = e[1] /\ \A i \in 2 .. n : flat[i] = flat[i - 1] \o e[i]
  <2>1. 1 \in 1 .. n
    BY <1>1
  <2>2. \A i \in 2 .. n : i \in 1 .. n /\ i # 1
    OBVIOUS
  <2> HIDE DEF n
  <2> QED
    BY <1>7, <2>1, <2>2
<1> QED
  BY <1>8, <1>9

LEMMA WrittenNone == Written(<< >>) = << >>
  BY DEF Written, FlattenSeq
LEMMA WrittenOne == ASSUME NEW x PROVE Written(<<x>>) = x
<1>1. <<x>> \in Seq({x}) /\ <<x>> # << >> /\ Len(<<x>>) = 1 /\ <<x>>[1] = x
  OBVIOUS
<1> QED
  BY <1>1, WrittenJoins

LEMMA WrittenIs ==
  ASSUME NEW S, NEW e \in Seq(Seq(S))
  PROVE  Written(e) \in Seq(S)
<1>1. CASE e = << >>
  <2>1. << >> \in Seq(S)
    OBVIOUS
  <2> QED
    BY <1>1, <2>1, WrittenNone
<1>2. CASE e # << >>
  <2>1. PICK f : /\ f[1] = e[1] /\ (\A i \in 2 .. Len(e) : f[i] = f[i - 1] \o e[i]) /\ Written(e) = f[Len(e)]
    BY <1>2, WrittenJoins
  <2> DEFINE T == {j \in Nat : j + 1 <= Len(e) => f[j + 1] \in Seq(S)}
  <2>2. 0 \in T
    <3>1. e[1] \in Seq(S) /\ 0 + 1 = 1
      BY <1>2
    <3> QED
      BY <2>1, <3>1
  <2>3. ASSUME NEW j \in Nat, j \in T PROVE j + 1 \in T
    <3> DEFINE k == (j + 1) + 1
    <3>1. CASE k <= Len(e)
      <4>1. k \in 2 .. Len(e) /\ k - 1 = j + 1 /\ k \in DOMAIN e /\ j + 1 <= Len(e)
        BY <3>1
      <4> HIDE DEF k
      <4>2. f[k - 1] \in Seq(S) /\ e[k] \in Seq(S) /\ f[k] = f[k - 1] \o e[k]
        <5>1. f[k - 1] \in Seq(S)
          BY <2>3, <4>1
        <5>2. e[k] \in Seq(S)
          BY <4>1
        <5> QED
          BY <2>1, <4>1, <5>1, <5>2
      <4>3. f[k] \in Seq(S)
        BY <4>2
      <4> QED
        BY <4>3 DEF k
    <3> QED
      BY <3>1
  <2>4. Len(e) - 1 \in Nat /\ (Len(e) - 1) + 1 = Len(e)
    BY <1>2
  <2>5. Len(e) - 1 \in T
    <3> HIDE DEF T
    <3> QED
      BY <2>2, <2>3, <2>4, F!Induction
  <2> QED
    BY <2>1, <2>4, <2>5
<1> QED
  BY <1>1, <1>2

\* Entries of one note each.
Singles(S) == {e \in Seq(Seq(S)) : \A i \in DOMAIN e : e[i] = <<e[i][1]>> /\ e[i][1] \in S}
NotesOf(e) == [i \in 1 .. Len(e) |-> e[i][1]]
LEMMA WrittenSingles ==
  ASSUME NEW S, NEW e \in Singles(S)
  PROVE  Written(e) = NotesOf(e) /\ NotesOf(e) \in Seq(S) /\ Len(NotesOf(e)) = Len(e)
<1>1. /\ e \in Seq(Seq(S)) /\ Len(e) \in Nat /\ DOMAIN e = 1 .. Len(e)
      /\ \A i \in 1 .. Len(e) : e[i] = <<e[i][1]>> /\ e[i][1] \in S
  <2>1. e \in Seq(Seq(S)) /\ \A i \in DOMAIN e : e[i] = <<e[i][1]>> /\ e[i][1] \in S
    BY Zenon DEF Singles
  <2>2. Len(e) \in Nat /\ DOMAIN e = 1 .. Len(e)
    BY <2>1
  <2> QED
    BY <2>1, <2>2, Zenon
<1>2. NotesOf(e) \in Seq(S) /\ Len(NotesOf(e)) = Len(e)
  <2> DEFINE m == Len(e)
             q == NotesOf(e)
  <2>1. m \in Nat /\ \A i \in 1 .. m : e[i][1] \in S
    BY <1>1
  <2>2. q = [i \in 1 .. m |-> e[i][1]]
    BY DEF NotesOf
  <2> HIDE DEF m, q
  <2>3. q \in [1 .. m -> S]
    BY <2>1, <2>2
  <2>4. q \in Seq(S)
    BY <2>1, <2>3
  <2>5. Len(q) = m
    BY <2>1, <2>3, <2>4
  <2> QED
    BY <2>4, <2>5 DEF m, q
<1>3. CASE e = << >>
  <2>1. Len(e) = 0
    BY <1>3
  <2>2. NotesOf(e) = << >>
    BY <1>2, <2>1
  <2> QED
    BY <1>2, <1>3, <2>2, WrittenNone
<1>4. CASE e # << >>
  <2>1. PICK f : /\ f[1] = e[1] /\ (\A i \in 2 .. Len(e) : f[i] = f[i - 1] \o e[i]) /\ Written(e) = f[Len(e)]
    BY <1>1, <1>4, WrittenJoins
  <2> DEFINE First(k) == [i \in 1 .. k |-> e[i][1]]
             T == {j \in Nat : j + 1 <= Len(e) => f[j + 1] = First(j + 1)}
  <2>2. 0 \in T
    <3>1. Len(e) >= 1 /\ e[1] = <<e[1][1]>> /\ 0 + 1 = 1
      BY <1>1, <1>4
    <3>2. <<e[1][1]>> = First(1)
      OBVIOUS
    <3> HIDE DEF First
    <3> QED
      BY <2>1, <3>1, <3>2
  <2>3. ASSUME NEW j \in Nat, j \in T PROVE j + 1 \in T
    <3> DEFINE k == (j + 1) + 1
    <3>1. CASE k <= Len(e)
      <4>1. k \in 2 .. Len(e) /\ k - 1 = j + 1 /\ k \in 1 .. Len(e) /\ j + 1 <= Len(e) /\ j + 1 \in Nat
        BY <1>1, <3>1
      <4> HIDE DEF k
      <4>2. f[k - 1] = First(k - 1) /\ e[k] = <<e[k][1]>> /\ f[k] = f[k - 1] \o e[k]
        <5> HIDE DEF First
        <5> QED
          BY <1>1, <2>1, <2>3, <4>1
      <4>3. First(k - 1) \in Seq(S) /\ Len(First(k - 1)) = k - 1
        <5>1. \A i \in 1 .. k - 1 : e[i][1] \in S
          BY <1>1, <4>1
        <5>2. k - 1 \in Nat
          BY <4>1
        <5> QED
          BY <5>1, <5>2
      <4>4. First(k) \in Seq(S) /\ Len(First(k)) = k
        <5>1. \A i \in 1 .. k : e[i][1] \in S
          BY <1>1, <4>1
        <5>2. k \in Nat
          BY <4>1
        <5> QED
          BY <5>1, <5>2
      <4>5. \A i \in 1 .. k : First(k)[i] = IF i = k THEN e[k][1] ELSE First(k - 1)[i]
        BY <4>1
      <4> DEFINE a == First(k - 1)
                 b == <<e[k][1]>>
      <4>6. a \o b \in Seq(S) /\ Len(a \o b) = k /\ \A i \in 1 .. k : (a \o b)[i] = IF i = k THEN e[k][1] ELSE a[i]
        <5>1. b \in Seq(S) /\ Len(b) = 1 /\ b[1] = e[k][1]
          BY <1>1, <4>1
        <5>2. a \in Seq(S) /\ Len(a) = k - 1
          BY <4>3
        <5>3. k \in Nat /\ k - 1 + 1 = k
          BY <4>1
        <5> HIDE DEF a, b, First
        <5> QED
          <6>4. Len(a) + Len(b) = k
            BY <5>1, <5>2, <5>3
          <6>5. a \o b \in Seq(S) /\ Len(a \o b) = Len(a) + Len(b)
            BY <5>1, <5>2, ConcatProperties
          <6>1. a \o b \in Seq(S) /\ Len(a \o b) = k
            BY <6>4, <6>5
          <6>2. \A i \in 1 .. k : (a \o b)[i] = IF i <= Len(a) THEN a[i] ELSE b[i - Len(a)]
            BY <5>1, <5>2, <5>3
          <6>3. ASSUME NEW i \in 1 .. k PROVE (a \o b)[i] = IF i = k THEN e[k][1] ELSE a[i]
            <7>1. i <= Len(a) <=> i # k
              BY <5>2, <5>3
            <7>2. i = k => i - Len(a) = 1
              BY <5>2, <5>3
            <7> QED
              BY <5>1, <6>2, <7>1, <7>2
          <6> QED
            BY <6>1, <6>3
      <4>7. f[k] = a \o b
        BY <4>2
      <4>8. f[k] = First(k)
        <5>1. \A i \in 1 .. k : First(k)[i] = (a \o b)[i]
          <6> HIDE DEF b, First
          <6> QED
            BY <4>5, <4>6
        <5> HIDE DEF a, b, First
        <5> QED
          BY <4>4, <4>6, <4>7, <5>1
      <4> QED
        <5> HIDE DEF First
        <5> QED
          BY <4>8 DEF k
    <3> QED
      BY <3>1
  <2>4. Len(e) - 1 \in Nat /\ (Len(e) - 1) + 1 = Len(e)
    BY <1>1, <1>4
  <2>5. Len(e) - 1 \in T
    <3> HIDE DEF T
    <3> QED
      BY <2>2, <2>3, <2>4, F!Induction
  <2>6. First(Len(e)) = NotesOf(e)
    BY DEF NotesOf
  <2> HIDE DEF First
  <2> QED
    BY <1>2, <2>1, <2>4, <2>5, <2>6
<1> QED
  BY <1>3, <1>4
-----------------------------------------------------------------------------
\* Notes whose words can be counted.
Sized(S) == \A n \in S : Cardinality(n) \in Nat

LEMMA SizeChain ==
  ASSUME NEW S, Sized(S), NEW notes \in Seq(S), NEW h, F!Chain("size", 0, notes, Len(notes), h)
  PROVE  /\ \A k \in 0 .. Len(notes) : h[k] \in Nat
         /\ \A k \in 1 .. Len(notes) : h[k] = h[k - 1] + Cardinality(notes[k]) /\ Cardinality(notes[k]) \in Nat
<1>1. Len(notes) \in Nat /\ \A k \in 1 .. Len(notes) : notes[k] \in S
  OBVIOUS
<1>2. \A k \in 1 .. Len(notes) : h[k] = h[k - 1] + Cardinality(notes[k]) /\ Cardinality(notes[k]) \in Nat
  BY <1>1 DEF F!Chain, Op, Sized
<1> DEFINE T == {k \in Nat : k <= Len(notes) => h[k] \in Nat}
<1>3. 0 \in T
  BY DEF F!Chain
<1>4. ASSUME NEW k \in Nat, k \in T PROVE k + 1 \in T
  <2>1. CASE k + 1 <= Len(notes)
    <3>1. k + 1 \in 1 .. Len(notes) /\ (k + 1) - 1 = k /\ k <= Len(notes)
      BY <1>1, <2>1
    <3> QED
      BY <1>2, <1>4, <3>1
  <2> QED
    BY <1>1, <2>1
<1>5. Nat \subseteq T
  <2> HIDE DEF T
  <2> QED
    BY <1>3, <1>4, F!Induction
<1> QED
  BY <1>1, <1>2, <1>5

LEMMA SizeIs ==
  ASSUME NEW S, Sized(S), NEW notes \in Seq(S)
  PROVE  Size(notes) \in Nat
<1>1. PICK h : F!Chain("size", 0, notes, Len(notes), h) /\ Size(notes) = h[Len(notes)]
  BY SizeFolds
<1>2. Len(notes) \in 0 .. Len(notes)
  OBVIOUS
<1> QED
  BY <1>1, <1>2, SizeChain

LEMMA SizeNone == Size(<< >>) = 0
<1>1. << >> \in Seq({}) /\ Len(<< >>) = 0
  OBVIOUS
<1>2. PICK h : F!Chain("size", 0, << >>, 0, h) /\ Size(<< >>) = h[0]
  BY <1>1, SizeFolds
<1> QED
  BY <1>2 DEF F!Chain

LEMMA SizeAdded ==
  ASSUME NEW S, Sized(S), NEW notes \in Seq(S), NEW n \in S
  PROVE  Size(Append(notes, n)) = Size(notes) + Cardinality(n)
<1> DEFINE more == Append(notes, n)
<1>1. more \in Seq(S)
  OBVIOUS
<1>2. PICK h : F!Chain("size", 0, notes, Len(notes), h) /\ Size(notes) = h[Len(notes)]
  BY SizeFolds
<1>3. PICK g : F!Chain("size", 0, more, Len(more), g) /\ Size(more) = g[Len(more)]
  <2> HIDE DEF more
  <2> QED
    BY <1>1, SizeFolds
<1>4. Size(more) = Op("size", h[Len(notes)], n)
  BY <1>2, <1>3, F!ChainAdded
<1> QED
  BY <1>2, <1>4 DEF Op

LEMMA SizeRemoved ==
  ASSUME NEW S, Sized(S), NEW notes \in Seq(S), NEW p \in 1 .. Len(notes)
  PROVE  Size(RemoveAt(notes, p)) <= Size(notes)
<1> DEFINE rest == RemoveAt(notes, p)
           l == Len(notes) - 1
<1>1. rest \in Seq(S) /\ Len(rest) = l /\ l \in Nat /\ \A i \in 1 .. l : rest[i] = IF i < p THEN notes[i] ELSE notes[i + 1]
  BY RemovedAt
<1>2. p \in 1 .. l + 1 /\ Len(notes) = l + 1 /\ l + 1 \in Nat
  OBVIOUS
<1>3. PICK h : F!Chain("size", 0, notes, l + 1, h) /\ Size(notes) = h[l + 1]
  <2> HIDE DEF l
  <2> QED
    BY <1>2, SizeFolds
<1> HIDE DEF rest, l
<1>4. PICK g : F!Chain("size", 0, rest, l, g) /\ Size(rest) = g[l]
  BY <1>1, SizeFolds
<1>5. /\ \A k \in 0 .. l + 1 : h[k] \in Nat
      /\ \A k \in 1 .. l + 1 : h[k] = h[k - 1] + Cardinality(notes[k]) /\ Cardinality(notes[k]) \in Nat
      /\ \A k \in 0 .. l : g[k] \in Nat
      /\ \A k \in 1 .. l : g[k] = g[k - 1] + Cardinality(rest[k])
  BY <1>1, <1>2, <1>3, <1>4, SizeChain
<1>6. h[0] = 0 /\ g[0] = 0
  BY <1>3, <1>4 DEF F!Chain
<1> DEFINE T == {k \in Nat : k <= l => (k < p => g[k] = h[k]) /\ (k >= p - 1 => g[k] <= h[k + 1])}
<1>7. 0 \in T
  <2>1. 0 + 1 \in 0 .. l + 1
    BY <1>1
  <2> QED
    BY <1>5, <1>6, <2>1
<1>8. ASSUME NEW k \in Nat, k \in T PROVE k + 1 \in T
  <2>1. CASE k + 1 <= l
    <3> DEFINE j == k + 1
    <3>1. /\ j \in 1 .. l /\ j \in 1 .. l + 1 /\ j + 1 \in 1 .. l + 1 /\ j - 1 = k /\ (j + 1) - 1 = j /\ k <= l
          /\ k \in 0 .. l /\ k \in 0 .. l + 1 /\ j \in 0 .. l + 1 /\ p \in Int /\ j = k + 1
      BY <1>1, <1>2, <2>1
    <3> HIDE DEF j
    <3>2. g[j] = g[k] + Cardinality(rest[j]) /\ h[j] = h[k] + Cardinality(notes[j])
          /\ h[j + 1] = h[j] + Cardinality(notes[j + 1]) /\ Cardinality(notes[j + 1]) \in Nat /\ Cardinality(notes[j]) \in Nat
          /\ g[k] \in Nat /\ h[k] \in Nat /\ h[j] \in Nat
      BY <1>5, <3>1
    <3>3. (k < p => g[k] = h[k]) /\ (k >= p - 1 => g[k] <= h[j])
      BY <1>8, <3>1
    <3>4. rest[j] = IF j < p THEN notes[j] ELSE notes[j + 1]
      BY <1>1, <3>1
    <3>5. j < p => g[j] = h[j]
      BY <3>1, <3>2, <3>3, <3>4
    <3>6. ASSUME j >= p - 1 PROVE g[j] <= h[j + 1]
      <4>1. CASE j < p
        BY <3>2, <3>5, <4>1
      <4>2. CASE ~(j < p)
        <5>1. rest[j] = notes[j + 1] /\ g[k] <= h[j]
          BY <3>1, <3>3, <3>4, <4>2
        <5> QED
          BY <3>2, <5>1
      <4> QED
        BY <4>1, <4>2
    <3> QED
      BY <3>1, <3>5, <3>6
  <2> QED
    BY <1>1, <2>1
<1>9. l \in T
  <2> HIDE DEF T
  <2> QED
    BY <1>1, <1>7, <1>8, F!Induction
<1>10. g[l] <= h[l + 1]
  BY <1>1, <1>2, <1>9
<1> QED
  BY <1>3, <1>4, <1>10 DEF rest

\* Read makes an entry of each note, and makes the file no longer.
LEMMA ReadIs ==
  ASSUME NEW S, Sized(S), NEW notes \in Seq(S)
  PROVE  /\ Read(notes) \in Singles(S)
         /\ Size(NotesOf(Read(notes))) + Len(Read(notes)) <= Size(notes) + Len(notes)
<1> DEFINE l == Len(notes)
<1>1. l \in Nat /\ \A k \in 1 .. l : notes[k] \in S
  OBVIOUS
<1>2. PICK h : F!Chain("read", << >>, notes, l, h) /\ Read(notes) = h[l]
  BY ReadFolds
<1>3. PICK z : F!Chain("size", 0, notes, l, z) /\ Size(notes) = z[l]
  BY SizeFolds
<1>4. /\ \A k \in 0 .. l : z[k] \in Nat
      /\ \A k \in 1 .. l : z[k] = z[k - 1] + Cardinality(notes[k]) /\ Cardinality(notes[k]) \in Nat
  BY <1>3, SizeChain
<1> HIDE DEF l
<1> DEFINE T == {k \in Nat : k <= l => h[k] \in Singles(S) /\ Size(NotesOf(h[k])) + Len(h[k]) <= z[k] + k}
<1>5. 0 \in T
  <2>1. h[0] = << >> /\ z[0] = 0
    BY <1>2, <1>3 DEF F!Chain
  <2>2. << >> \in Singles(S) /\ NotesOf(<< >>) = << >> /\ Len(<< >>) = 0
    BY DEF Singles, NotesOf
  <2> QED
    BY <2>1, <2>2, SizeNone
<1>6. ASSUME NEW k \in Nat, k \in T PROVE k + 1 \in T
  <2>1. CASE k + 1 <= l
    <3> DEFINE j == k + 1
               e == h[k]
               n == notes[j]
    <3>1. j \in 1 .. l /\ j - 1 = k /\ k \in 0 .. l /\ j = k + 1 /\ k <= l
      BY <1>1, <2>1
    <3> HIDE DEF j
    <3>2. /\ e \in Singles(S) /\ Size(NotesOf(e)) + Len(e) <= z[k] + k
      BY <1>6, <3>1
    <3>3. h[j] = IF Contains(e, <<n>>) THEN e ELSE Append(e, <<n>>)
      BY <1>2, <3>1 DEF F!Chain, Op
    <3>4. n \in S /\ Cardinality(n) \in Nat /\ z[j] = z[k] + Cardinality(n) /\ z[k] \in Nat /\ z[j] \in Nat
      BY <1>1, <1>4, <3>1
    <3> HIDE DEF e, n
    <3>5. /\ NotesOf(e) \in Seq(S) /\ e \in Seq(Seq(S)) /\ Len(NotesOf(e)) = Len(e) /\ Len(e) \in Nat
          /\ \A i \in 1 .. Len(e) : NotesOf(e)[i] = e[i][1]
      BY <3>2, WrittenSingles DEF Singles, NotesOf
    <3>6. Size(NotesOf(e)) \in Nat
      BY <3>5, SizeIs
    <3>7. CASE Contains(e, <<n>>)
      BY <3>1, <3>2, <3>3, <3>4, <3>5, <3>6, <3>7
    <3>8. CASE ~Contains(e, <<n>>)
      <4> DEFINE d == Append(e, <<n>>)
      <4>1. <<n>> \in Seq(S) /\ <<n>>[1] = n
        BY <3>4
      <4>2. d \in Seq(Seq(S)) /\ Len(d) = Len(e) + 1 /\ d[Len(e) + 1] = <<n>> /\ \A i \in 1 .. Len(e) : d[i] = e[i]
        BY <3>5, <4>1
      <4> HIDE DEF d
      <4>3. d \in Singles(S)
        <5>1. ASSUME NEW i \in 1 .. Len(e) + 1 PROVE d[i] = <<d[i][1]>> /\ d[i][1] \in S
          <6>1. CASE i = Len(e) + 1
            BY <3>4, <4>1, <4>2, <6>1
          <6>2. CASE i # Len(e) + 1
            <7>1. i \in 1 .. Len(e) /\ i \in DOMAIN e
              BY <3>5, <6>2
            <7> QED
              BY <3>2, <4>2, <7>1 DEF Singles
          <6> QED
            BY <6>1, <6>2
        <5>2. DOMAIN d = 1 .. Len(e) + 1
          BY <4>2
        <5> QED
          BY <4>2, <5>1, <5>2 DEF Singles
      <4>4. NotesOf(d) = Append(NotesOf(e), n)
        <5> DEFINE a == NotesOf(d)
                   b == Append(NotesOf(e), n)
        <5>1. a \in Seq(S) /\ Len(a) = Len(e) + 1
          BY <4>2, <4>3, WrittenSingles
        <5>2. b \in Seq(S) /\ Len(b) = Len(e) + 1 /\ b[Len(e) + 1] = n /\ \A i \in 1 .. Len(e) : b[i] = e[i][1]
          BY <3>4, <3>5
        <5>3. \A i \in 1 .. Len(e) + 1 : a[i] = d[i][1]
          BY <4>2 DEF NotesOf
        <5> HIDE DEF a, b
        <5>4. ASSUME NEW i \in 1 .. Len(e) + 1 PROVE a[i] = b[i]
          <6>1. CASE i = Len(e) + 1
            BY <4>1, <4>2, <5>2, <5>3, <6>1
          <6>2. CASE i # Len(e) + 1
            <7>1. i \in 1 .. Len(e)
              BY <3>5, <6>2
            <7> QED
              BY <4>2, <5>2, <5>3, <7>1
          <6> QED
            BY <6>1, <6>2
        <5>5. a = b
          BY <3>5, <5>1, <5>2, <5>4
        <5> QED
          BY <5>5 DEF a, b
      <4>5. Size(NotesOf(d)) = Size(NotesOf(e)) + Cardinality(n)
        BY <3>4, <3>5, <4>4, SizeAdded
      <4>6. Size(NotesOf(d)) + Len(d) <= z[j] + j
        <5>1. Len(d) = Len(e) + 1
          BY <4>2
        <5>2. Len(e) \in Nat
          BY <3>5
        <5> QED
          BY <3>1, <3>2, <3>4, <3>6, <4>5, <5>1, <5>2
      <4>7. h[j] = d
        BY <3>3, <3>8 DEF d
      <4> QED
        BY <3>1, <4>3, <4>6, <4>7
    <3> QED
      BY <3>7, <3>8
  <2> QED
    BY <1>1, <2>1
<1>7. l \in T
  <2> HIDE DEF T
  <2> QED
    BY <1>1, <1>5, <1>6, F!Induction
<1> QED
  BY <1>1, <1>2, <1>3, <1>7 DEF l

-----------------------------------------------------------------------------
Notes == SUBSET Words
LEMMA NotesSized == Sized(Notes)
<1> SUFFICES ASSUME NEW n \in Notes PROVE Cardinality(n) \in Nat
  BY DEF Sized
<1>1. IsFiniteSet(Words) /\ n \subseteq Words
  BY KnowledgeAssumption DEF Notes
<1>2. IsFiniteSet(n)
  BY <1>1, FS_Subset
<1> QED
  BY <1>2, FS_CardinalityType

LEMMA LengthOf ==
  ASSUME NEW e
  PROVE  Length(e) = IF Written(e) = << >> THEN 0 ELSE Size(Written(e)) + Len(Written(e)) - 1
  BY DEF Length, Size
LEMMA LengthIs ==
  ASSUME NEW S, Sized(S), NEW e \in Seq(Seq(S))
  PROVE  Length(e) \in Int
<1>1. Written(e) \in Seq(S)
  BY WrittenIs
<1>2. Size(Written(e)) \in Nat /\ Len(Written(e)) \in Nat
  BY <1>1, SizeIs
<1> QED
  BY <1>2, LengthOf
LEMMA LengthOfFile == ASSUME NEW e PROVE Length(<<Written(e)>>) = Length(e)
  BY LengthOf, WrittenOne

LEMMA MinIs ==
  ASSUME NEW T, T \subseteq Nat, T # {}
  PROVE  Min(T) \in T
<1>1. \E x \in T : \A y \in T : x <= y
  BY F!Least
<1> QED
  BY <1>1 DEF Min

\* Entries that are added to, replaced in or removed from.
LEMMA ChangedIs ==
  ASSUME NEW S, Sized(S), NEW entries \in Seq(Seq(S)), NEW op \in {"add", "replace", "remove"}, NEW content \in Seq(S), NEW w,
         Changed(entries, op, content, w) # Refused
  PROVE  LET new == Changed(entries, op, content, w) IN
         /\ new \in Seq(Seq(S))
         /\ op # "remove" => Length(new) <= Limit
         /\ op = "remove" => \E at \in 1 .. Len(entries) : new = RemoveAt(entries, at)
<1> DEFINE hits == Matches(entries, w)
           at == Min(hits)
           made == IF op = "add" THEN Append(entries, content)
                   ELSE IF op = "replace" THEN [entries EXCEPT ![at] = content]
                   ELSE RemoveAt(entries, at)
           new == Changed(entries, op, content, w)
<1>1. /\ op # "add" => hits # {}
      /\ new = made
      /\ op # "remove" => ~(Length(made) > Limit)
  <2> HIDE DEF hits, at
  <2> QED
    BY DEF Changed, hits, at
<1>2. hits \subseteq 1 .. Len(entries) /\ Len(entries) \in Nat
  BY DEF Matches
<1>3. op # "add" => at \in 1 .. Len(entries)
  <2>1. 1 .. Len(entries) \subseteq Nat
    BY <1>2
  <2> HIDE DEF hits
  <2> QED
    BY <1>1, <1>2, <2>1, MinIs
<1> HIDE DEF hits, at, new
<1>4. made \in Seq(Seq(S))
  <2>1. CASE op = "add"
    BY <2>1
  <2>2. CASE op = "replace"
    BY <1>3, <2>2
  <2>3. CASE op = "remove"
    BY <1>3, <2>3, RemovedAt
  <2> QED
    BY <2>1, <2>2, <2>3
<1>5. op = "remove" => made = RemoveAt(entries, at)
  OBVIOUS
<1> HIDE DEF made
<1>6. Length(made) \in Int
  BY <1>4, LengthIs
<1> QED
  BY <1>6, <1>1, <1>3, <1>4, <1>5, KnowledgeAssumption DEF new

\* An entry that is removed makes the file no longer.
LEMMA RemovedFits ==
  ASSUME NEW notes \in Seq(Notes), NEW at \in 1 .. Len(Read(notes))
  PROVE  Length(RemoveAt(Read(notes), at)) <= Length(<<notes>>) \/ Length(RemoveAt(Read(notes), at)) = 0
<1> DEFINE e == Read(notes)
           m == NotesOf(e)
           d == RemoveAt(e, at)
           r == NotesOf(d)
<1>1. e \in Singles(Notes) /\ Size(m) + Len(e) <= Size(notes) + Len(notes)
  BY NotesSized, ReadIs
<1> HIDE DEF e
<1>2. /\ e \in Seq(Seq(Notes)) /\ Len(e) \in Nat /\ at \in 1 .. Len(e) /\ Len(e) >= 1 /\ DOMAIN e = 1 .. Len(e)
      /\ \A i \in 1 .. Len(e) : e[i] = <<e[i][1]>> /\ e[i][1] \in Notes
  BY <1>1 DEF Singles, e
<1>3. m \in Seq(Notes) /\ Len(m) = Len(e) /\ \A i \in 1 .. Len(e) : m[i] = e[i][1]
  BY <1>1, WrittenSingles DEF NotesOf
<1>4. d \in Seq(Seq(Notes)) /\ Len(d) = Len(e) - 1 /\ \A i \in 1 .. Len(e) - 1 : d[i] = IF i < at THEN e[i] ELSE e[i + 1]
  BY <1>2, RemovedAt
<1> HIDE DEF m, d
<1>5. d \in Singles(Notes)
  <2>1. DOMAIN d = 1 .. Len(e) - 1
    BY <1>2, <1>4
  <2>2. \A i \in 1 .. Len(e) - 1 : i \in 1 .. Len(e) /\ i + 1 \in 1 .. Len(e)
    BY <1>2
  <2>3. \A i \in 1 .. Len(e) - 1 : d[i] = <<d[i][1]>> /\ d[i][1] \in Notes
    BY <1>2, <1>4, <2>2
  <2> QED
    BY <1>4, <2>1, <2>3 DEF Singles
<1>6. Written(d) = r /\ r \in Seq(Notes) /\ Len(r) = Len(e) - 1 /\ \A i \in 1 .. Len(e) - 1 : r[i] = d[i][1]
  BY <1>4, <1>5, WrittenSingles DEF NotesOf
<1> HIDE DEF r
<1>7. r = RemoveAt(m, at)
  <2> DEFINE q == RemoveAt(m, at)
  <2>1. q \in Seq(Notes) /\ Len(q) = Len(e) - 1 /\ \A i \in 1 .. Len(e) - 1 : q[i] = IF i < at THEN m[i] ELSE m[i + 1]
    <3>1. at \in 1 .. Len(m)
      BY <1>2, <1>3
    <3> QED
      BY <1>3, <3>1, RemovedAt
  <2>2. \A i \in 1 .. Len(e) - 1 : i \in 1 .. Len(e) /\ i + 1 \in 1 .. Len(e)
    BY <1>2
  <2> HIDE DEF q
  <2>3. \A i \in 1 .. Len(e) - 1 : q[i] = r[i]
    BY <1>3, <1>4, <1>6, <2>1, <2>2
  <2>4. q = r
    <3> DEFINE k == Len(e) - 1
    <3>1. k \in Nat /\ Len(q) = k /\ Len(r) = k /\ \A i \in 1 .. k : q[i] = r[i]
      BY <1>2, <1>6, <2>1, <2>3
    <3> HIDE DEF k
    <3> QED
      BY <1>6, <2>1, <3>1
  <2> QED
    BY <2>4 DEF q
<1>8. Size(r) <= Size(m) /\ Size(r) \in Nat /\ Size(m) \in Nat /\ Size(notes) \in Nat
  BY <1>2, <1>3, <1>6, <1>7, NotesSized, SizeRemoved, SizeIs
<1>9. notes # << >>
  <2>1. notes = << >> => Size(notes) = 0 /\ Len(notes) = 0
    BY SizeNone
  <2> QED
    BY <1>1, <1>2, <1>8, <2>1
<1>10. Length(<<notes>>) = Size(notes) + Len(notes) - 1
  BY <1>9, LengthOf, WrittenOne
<1>11. Length(d) = IF r = << >> THEN 0 ELSE Size(r) + (Len(e) - 1) - 1
  BY <1>6, LengthOf
<1>12. Len(notes) \in Nat
  OBVIOUS
<1>13. Size(r) + (Len(e) - 1) - 1 <= Size(notes) + Len(notes) - 1
  BY <1>1, <1>2, <1>8, <1>12
<1> QED
  BY <1>10, <1>11, <1>13 DEF d, e

LEMMA ReplayNone == ReplayOf(<< >>) = << >>
<1>1. << >> \in Seq({}) /\ Len(<< >>) = 0
  OBVIOUS
<1>2. PICK h : F!Chain("replay", << >>, << >>, 0, h) /\ ReplayOf(<< >>) = h[0]
  BY <1>1, ReplayFolds
<1> QED
  BY <1>2 DEF F!Chain
LEMMA ReplayAdded ==
  ASSUME NEW D, NEW s \in Seq(D), NEW c \in D
  PROVE  ReplayOf(Append(s, c)) = Written(Changed(Read(ReplayOf(s)), c.does, c.content, c.word))
<1> DEFINE more == Append(s, c)
<1>1. more \in Seq(D)
  OBVIOUS
<1>2. PICK h : F!Chain("replay", << >>, s, Len(s), h) /\ ReplayOf(s) = h[Len(s)]
  BY ReplayFolds
<1>3. PICK g : F!Chain("replay", << >>, more, Len(more), g) /\ ReplayOf(more) = g[Len(more)]
  <2> HIDE DEF more
  <2> QED
    BY <1>1, ReplayFolds
<1>4. ReplayOf(more) = Op("replay", h[Len(s)], c)
  BY <1>2, <1>3, F!ChainAdded
<1> QED
  BY <1>2, <1>4 DEF Op

-----------------------------------------------------------------------------
(* The threads of the tools. What a thread is about to save was made, under *)
(* the lock, of what the file has; a file is the replay of its changes.     *)

CallFields == {"at", "does", "on", "content", "word", "text"}
KnowTyped ==
  /\ file \in [Files -> Seq(Notes)] /\ lock \in [Files -> ToolThreads \cup {NoThread}]
  /\ live = [a \in Agents |-> [f \in {a, User} |-> live[a][f]]]
  /\ skill = [a \in Agents |-> [n \in SkillNames |-> skill[a][n]]]
  /\ call = [t \in ToolThreads |-> [f \in CallFields |-> call[t][f]]]
  /\ journal = [f \in Files |-> journal[f]] /\ \A f \in Files : \E D : journal[f] \in Seq(D)

\* What is known of the call c of thread t: a change that is about to be saved was made of what
\* the file has, under its lock; a skill that is about to be put there is sound.
CallKnown(t, c, lk, lv, fl) ==
  /\ c.at \in {"lock", "save"} =>
       c.does \in {"add", "replace", "remove"} /\ c.on \in {Owner[t], User} /\ c.content \in Seq(Notes)
  /\ c.at = "save" =>
       /\ lk[c.on] = t
       /\ lv[Owner[t]][c.on] = Changed(Read(fl[c.on]), c.does, c.content, c.word)
       /\ lv[Owner[t]][c.on] # Refused
  /\ c.at \in {"look", "put"} => c.on \in SkillNames
  /\ c.at = "put" => c.text.good
CallsKnown == \A t \in ToolThreads : CallKnown(t, call[t], lock, live, file)
FilesKept == \A f \in Files : file[f] = ReplayOf(journal[f]) /\ Length(<<file[f]>>) <= Limit
SkillsSound == \A a \in Agents, n \in SkillNames : skill[a][n] = NoSkill \/ skill[a][n].good
KnowInv == KnowTyped /\ CallsKnown /\ FilesKept /\ SkillsSound

LEMMA KnowStart == KnowInit => KnowInv
<1> SUFFICES ASSUME KnowInit PROVE KnowInv
  OBVIOUS
<1>1. KnowTyped
  <2>1. << >> \in Seq(Notes) /\ << >> \in Seq({})
    OBVIOUS
  <2>2. call = [t \in ToolThreads |-> [f \in CallFields |-> call[t][f]]]
    <3>1. Free = [f \in CallFields |-> Free[f]]
      BY DEF Free, CallFields
    <3> QED
      BY <3>1 DEF KnowInit
  <2>3. file \in [Files -> Seq(Notes)] /\ lock \in [Files -> ToolThreads \cup {NoThread}]
    BY <2>1 DEF KnowInit
  <2>4. live = [a \in Agents |-> [f \in {a, User} |-> live[a][f]]]
    BY DEF KnowInit
  <2>5. skill = [a \in Agents |-> [n \in SkillNames |-> skill[a][n]]]
    BY DEF KnowInit
  <2>6. journal = [f \in Files |-> journal[f]] /\ \A f \in Files : \E D : journal[f] \in Seq(D)
    BY <2>1 DEF KnowInit
  <2> QED
    BY <2>2, <2>3, <2>4, <2>5, <2>6 DEF KnowTyped
<1>2. CallsKnown
  BY DEF KnowInit, CallsKnown, CallKnown, Free
<1>3. FilesKept
  <2>1. \A f \in Files : file[f] = << >> /\ journal[f] = << >>
    BY DEF KnowInit
  <2>2. Length(<< << >> >>) = 0 /\ 0 <= Limit
    BY LengthOf, WrittenOne, KnowledgeAssumption
  <2> QED
    BY <2>1, <2>2, ReplayNone DEF FilesKept
<1>4. SkillsSound
  BY DEF KnowInit, SkillsSound
<1> QED
  BY <1>1, <1>2, <1>3, <1>4 DEF KnowInv

\* A thread gets another call, of which as much is known; what is kept stays as it is.
LEMMA CallChanges ==
  ASSUME KnowInv, NEW t \in ToolThreads, NEW c, c = [f \in CallFields |-> c[f]],
         call' = [call EXCEPT ![t] = c], c.at # "save", CallKnown(t, c, lock, live, file),
         UNCHANGED <<file, live, lock, skill, journal>>
  PROVE  KnowInv'
<1>1. KnowTyped /\ CallsKnown /\ FilesKept /\ SkillsSound
  BY DEF KnowInv
<1>2. call'[t] = c /\ \A u \in ToolThreads : u # t => call'[u] = call[u]
  BY <1>1 DEF KnowTyped
<1>3. KnowTyped'
  <2>1. call' = [u \in ToolThreads |-> [f \in CallFields |-> call'[u][f]]]
    BY <1>1 DEF KnowTyped
  <2> QED
    BY <1>1, <2>1 DEF KnowTyped
<1>4. CallsKnown'
  <2> SUFFICES ASSUME NEW u \in ToolThreads PROVE CallKnown(u, call'[u], lock', live', file')
    BY DEF CallsKnown
  <2>1. CASE u = t
    BY <1>2, <2>1 DEF CallKnown
  <2>2. CASE u # t
    BY <1>1, <1>2, <2>2 DEF CallKnown, CallsKnown
  <2> QED
    BY <2>1, <2>2
<1>5. FilesKept' /\ SkillsSound'
  BY <1>1 DEF FilesKept, SkillsSound
<1> QED
  BY <1>3, <1>4, <1>5 DEF KnowInv

LEMMA FreeIs == Free = [f \in CallFields |-> Free[f]] /\ Free.at = "free"
  BY DEF Free, CallFields

LEMMA MemoryKeeps == ASSUME KnowInv, NEW t \in ToolThreads, Memory(t) PROVE KnowInv'
<1>1. PICK op \in {"add", "replace", "remove"}, on \in {Owner[t], User}, c \in Contents, w \in Words :
        /\ op = "add" => w = CHOOSE x \in Words : TRUE
        /\ op = "remove" => c = CHOOSE x \in Contents : TRUE
        /\ call' = [call EXCEPT ![t] = [Free EXCEPT !.at = "lock", !.does = op, !.on = on, !.content = c, !.word = w]]
  BY Zenon DEF Memory
<1> DEFINE d == [Free EXCEPT !.at = "lock", !.does = op, !.on = on, !.content = c, !.word = w]
<1>2. /\ d = [f \in CallFields |-> d[f]] /\ d.at = "lock" /\ d.does = op /\ d.on = on /\ d.content = c
  BY DEF Free, CallFields
<1>3. call' = [call EXCEPT ![t] = d] /\ UNCHANGED <<file, live, lock, skill, journal>>
  BY <1>1 DEF Memory
<1>4. c \in Seq(Notes)
  BY KnowledgeAssumption DEF Notes
<1> HIDE DEF d
<1>5. CallKnown(t, d, lock, live, file)
  BY <1>2, <1>4 DEF CallKnown
<1> QED
  BY <1>2, <1>3, <1>5, CallChanges

LEMMA SkillToolKeeps == ASSUME KnowInv, NEW t \in ToolThreads, SkillTool(t) PROVE KnowInv'
<1>1. PICK op \in IF t = "learn" THEN {"create", "patch"} ELSE {"create", "edit", "patch", "delete"},
             n \in SkillNames, x \in Texts, w \in Words :
        /\ op # "patch" => w = CHOOSE y \in Words : TRUE
        /\ call' = [call EXCEPT ![t] = [Free EXCEPT !.at = "look", !.does = op, !.on = n, !.text = x, !.word = w]]
  BY Zenon DEF SkillTool
<1> DEFINE d == [Free EXCEPT !.at = "look", !.does = op, !.on = n, !.text = x, !.word = w]
<1>2. d = [f \in CallFields |-> d[f]] /\ d.at = "look" /\ d.on = n
  BY DEF Free, CallFields
<1>3. call' = [call EXCEPT ![t] = d] /\ UNCHANGED <<file, live, lock, skill, journal>>
  BY <1>1 DEF SkillTool
<1> HIDE DEF d
<1>4. CallKnown(t, d, lock, live, file)
  BY <1>2 DEF CallKnown
<1> QED
  BY <1>2, <1>3, <1>4, CallChanges

LEMMA LooksKeeps == ASSUME KnowInv, NEW t \in ToolThreads, Looks(t) PROVE KnowInv'
<1> DEFINE new == Checked(skill[Owner[t]][call[t].on], call[t])
           d == [call[t] EXCEPT !.at = "put", !.text = new]
<1>1. UNCHANGED <<file, live, lock, skill, journal>> /\ call[t].at = "look"
  BY DEF Looks
<1>2. \/ new.good /\ call' = [call EXCEPT ![t].at = "put", ![t].text = new]
      \/ call' = [call EXCEPT ![t] = Free]
  <2> HIDE DEF new
  <2> QED
    BY DEF Looks, Ends, new
<1>3. CASE call' = [call EXCEPT ![t] = Free]
  <2>1. CallKnown(t, Free, lock, live, file)
    BY FreeIs DEF CallKnown
  <2> QED
    BY <1>1, <1>3, <2>1, FreeIs, CallChanges
<1>4. CASE new.good /\ call' = [call EXCEPT ![t].at = "put", ![t].text = new]
  <2> HIDE DEF new
  <2>1. call[t] = [f \in CallFields |-> call[t][f]] /\ call[t].on \in SkillNames
    BY <1>1 DEF KnowInv, KnowTyped, CallsKnown, CallKnown
  <2>2. d = [f \in CallFields |-> d[f]] /\ d.at = "put" /\ d.text = new /\ d.on = call[t].on
    BY <2>1 DEF CallFields
  <2>3. call' = [call EXCEPT ![t] = d]
    BY <1>4 DEF KnowInv, KnowTyped
  <2> HIDE DEF d
  <2>4. CallKnown(t, d, lock, live, file)
    BY <1>4, <2>1, <2>2 DEF CallKnown
  <2> QED
    BY <1>1, <2>2, <2>3, <2>4, CallChanges
<1> QED
  BY <1>2, <1>3, <1>4

\* A thread is free again; a skill is what it was, or one that is sound, or gone.
LEMMA SkillChanges ==
  ASSUME KnowInv, NEW t \in ToolThreads, call' = [call EXCEPT ![t] = Free],
         UNCHANGED <<file, live, lock, journal>>,
         NEW n \in SkillNames, NEW x, x = NoSkill \/ x.good,
         skill' = skill \/ skill' = [skill EXCEPT ![Owner[t]][n] = x]
  PROVE  KnowInv'
<1>1. KnowTyped /\ CallsKnown /\ FilesKept /\ SkillsSound /\ Owner[t] \in Agents
  BY KnowledgeAssumption DEF KnowInv
<1>2. call'[t] = Free /\ \A u \in ToolThreads : u # t => call'[u] = call[u]
  BY <1>1 DEF KnowTyped
<1>3. /\ skill' = [a \in Agents |-> [m \in SkillNames |-> skill'[a][m]]]
      /\ \A a \in Agents, m \in SkillNames : skill'[a][m] = skill[a][m] \/ skill'[a][m] = x
  <2>1. skill = [a \in Agents |-> [m \in SkillNames |-> skill[a][m]]]
    BY <1>1 DEF KnowTyped
  <2> DEFINE o == Owner[t]
  <2>2. CASE skill' = skill
    BY <2>1, <2>2
  <2>3. CASE skill' = [skill EXCEPT ![o][n] = x]
    <3>1. o \in Agents
      BY <1>1
    <3> HIDE DEF o
    <3>2. \A a \in Agents : skill'[a] = IF a = o THEN [skill[a] EXCEPT ![n] = x] ELSE skill[a]
      BY <2>1, <2>3, <3>1
    <3>3. \A a \in Agents : skill'[a] = [m \in SkillNames |-> skill'[a][m]]
      BY <2>1, <3>1, <3>2
    <3>4. skill' = [a \in Agents |-> skill'[a]]
      BY <2>1, <2>3
    <3>5. \A a \in Agents, m \in SkillNames : skill'[a][m] = skill[a][m] \/ skill'[a][m] = x
      <4> SUFFICES ASSUME NEW a \in Agents, NEW m \in SkillNames PROVE skill'[a][m] = skill[a][m] \/ skill'[a][m] = x
        OBVIOUS
      <4>1. skill[a] = [k \in SkillNames |-> skill[a][k]]
        BY <2>1
      <4>2. CASE a = o
        <5>1. skill'[a] = [skill[a] EXCEPT ![n] = x]
          BY <3>2, <4>2
        <5> QED
          BY <4>1, <5>1
      <4>3. CASE a # o
        BY <3>2, <4>3
      <4> QED
        BY <4>2, <4>3
    <3> QED
      BY <3>3, <3>4, <3>5
  <2> QED
    BY <2>2, <2>3
<1>4. KnowTyped'
  <2>1. call' = [u \in ToolThreads |-> [f \in CallFields |-> call'[u][f]]]
    BY <1>1, FreeIs DEF KnowTyped
  <2> QED
    BY <1>1, <1>3, <2>1 DEF KnowTyped
<1>5. CallsKnown'
  <2> SUFFICES ASSUME NEW u \in ToolThreads PROVE CallKnown(u, call'[u], lock', live', file')
    BY DEF CallsKnown
  <2>1. CASE u = t
    BY <1>2, <2>1, FreeIs DEF CallKnown
  <2>2. CASE u # t
    BY <1>1, <1>2, <2>2 DEF CallKnown, CallsKnown
  <2> QED
    BY <2>1, <2>2
<1>6. FilesKept' /\ SkillsSound'
  BY <1>1, <1>3 DEF FilesKept, SkillsSound
<1> QED
  BY <1>4, <1>5, <1>6 DEF KnowInv

\* Under the lock: the entries are those of the file; a change that is not refused waits for the save.
LEMMA LocksKeeps == ASSUME KnowInv, NEW t \in ToolThreads, Locks(t) PROVE KnowInv'
<1> DEFINE c == call[t]
           o == c.on
           a == Owner[t]
           new == Changed(Read(file[o]), c.does, c.content, c.word)
           d == [c EXCEPT !.at = "save"]
<1>1. KnowTyped /\ CallsKnown /\ FilesKept /\ SkillsSound /\ a \in Agents
  BY KnowledgeAssumption DEF KnowInv
<1>2. /\ c.at = "lock" /\ lock[o] = NoThread /\ UNCHANGED <<file, skill, journal>>
      /\ \E x : live' = [live EXCEPT ![a][o] = x] /\ (new # Refused => x = new)
      /\ \/ new = Refused /\ call' = [call EXCEPT ![t] = Free] /\ lock' = lock
         \/ new # Refused /\ call' = [call EXCEPT ![t].at = "save"] /\ lock' = [lock EXCEPT ![o] = t]
  <2> HIDE DEF new
  <2> QED
    BY DEF Locks, Reload, Ends, new
<1>3. c = [f \in CallFields |-> c[f]]
  BY <1>1 DEF KnowTyped
<1>4. c.does \in {"add", "replace", "remove"} /\ o \in {a, User} /\ o \in Files /\ c.content \in Seq(Notes)
  BY <1>1, <1>2 DEF CallsKnown, CallKnown, Files
<1>5. d = [f \in CallFields |-> d[f]] /\ d.at = "save" /\ d.does = c.does /\ d.on = o /\ d.content = c.content /\ d.word = c.word
  BY <1>3 DEF CallFields
<1>6. call' = [call EXCEPT ![t].at = "save"] => call' = [call EXCEPT ![t] = d]
  BY <1>1 DEF KnowTyped
<1> HIDE DEF new, c, d, a, o
<1>7. PICK x : live' = [live EXCEPT ![a][o] = x] /\ (new # Refused => x = new)
  BY <1>2
<1>8. /\ live' = [b \in Agents |-> [f \in {b, User} |-> live'[b][f]]]
      /\ live'[a][o] = x
      /\ \A b \in Agents, f \in Files : f \in {b, User} /\ ~(b = a /\ f = o) => live'[b][f] = live[b][f]
  <2>1. live = [b \in Agents |-> [f \in {b, User} |-> live[b][f]]]
    BY <1>1 DEF KnowTyped
  <2> QED
    BY <1>1, <1>4, <1>7, <2>1
<1>9. lock' \in [Files -> ToolThreads \cup {NoThread}] /\ \A f \in Files : f # o => lock'[f] = lock[f]
  BY <1>1, <1>2, <1>4 DEF KnowTyped
<1>10. /\ call' = [u \in ToolThreads |-> [f \in CallFields |-> call'[u][f]]]
       /\ \A u \in ToolThreads : u # t => call'[u] = call[u]
       /\ call'[t] = Free \/ (call'[t] = d /\ new # Refused /\ lock'[o] = t)
  <2>1. call = [u \in ToolThreads |-> [f \in CallFields |-> call[u][f]]] /\ lock \in [Files -> ToolThreads \cup {NoThread}]
    BY <1>1 DEF KnowTyped
  <2>2. CASE call' = [call EXCEPT ![t] = Free]
    BY <2>1, <2>2, FreeIs
  <2>3. CASE new # Refused /\ call' = [call EXCEPT ![t] = d] /\ lock' = [lock EXCEPT ![o] = t]
    BY <1>4, <1>5, <2>1, <2>3
  <2> QED
    BY <1>2, <1>6, <2>2, <2>3
<1>11. KnowTyped'
  BY <1>1, <1>2, <1>8, <1>9, <1>10 DEF KnowTyped
<1>12. CallsKnown'
  <2> SUFFICES ASSUME NEW u \in ToolThreads PROVE CallKnown(u, call'[u], lock', live', file')
    BY DEF CallsKnown
  <2>1. CASE u # t
    <3>1. CallKnown(u, call[u], lock, live, file) /\ call'[u] = call[u] /\ Owner[u] \in Agents
      BY <1>1, <1>10, <2>1, KnowledgeAssumption DEF CallsKnown
    <3>2. CASE call[u].at = "save"
      <4> DEFINE p == call[u].on
      <4>1. lock[p] = u /\ p \in {Owner[u], User} /\ p \in Files
        BY <3>1, <3>2 DEF CallKnown, Files
      <4>2. p # o
        BY <1>2, <4>1, KnowledgeAssumption
      <4>3. lock'[p] = lock[p] /\ live'[Owner[u]][p] = live[Owner[u]][p]
        BY <1>8, <1>9, <3>1, <4>1, <4>2
      <4> QED
        BY <1>2, <3>1, <3>2, <4>3 DEF CallKnown
    <3>3. CASE call[u].at # "save"
      BY <3>1, <3>3 DEF CallKnown
    <3> QED
      BY <3>2, <3>3
  <2>2. CASE u = t /\ call'[t] = Free
    BY <2>2, FreeIs DEF CallKnown
  <2>3. CASE u = t /\ call'[t] = d /\ new # Refused /\ lock'[o] = t
    <3>1. live'[a][o] = new /\ new # Refused
      BY <1>7, <1>8, <2>3
    <3>2. new = Changed(Read(file'[o]), d.does, d.content, d.word)
      BY <1>2, <1>5 DEF new
    <3> QED
      BY <1>4, <1>5, <2>3, <3>1, <3>2 DEF CallKnown, a
  <2> QED
    BY <1>10, <2>1, <2>2, <2>3
<1>13. FilesKept' /\ SkillsSound'
  BY <1>1, <1>2 DEF FilesKept, SkillsSound
<1> QED
  BY <1>11, <1>12, <1>13 DEF KnowInv

LEMMA SavesFileKeeps == ASSUME KnowInv, NEW t \in ToolThreads, SavesFile(t) PROVE KnowInv'
<1> DEFINE c == call[t]
           o == c.on
           new == live[Owner[t]][o]
<1>1. KnowTyped /\ CallsKnown /\ FilesKept /\ SkillsSound /\ Owner[t] \in Agents
  BY KnowledgeAssumption DEF KnowInv
<1>2. /\ c.at = "save" /\ lock' = [lock EXCEPT ![o] = NoThread] /\ call' = [call EXCEPT ![t] = Free]
      /\ UNCHANGED <<live, skill>>
      /\ \/ file' = [file EXCEPT ![o] = Written(new)] /\ journal' = [journal EXCEPT ![o] = Append(journal[o], c)]
         \/ UNCHANGED <<file, journal>>
  BY DEF SavesFile, Ends
<1>3. /\ c.does \in {"add", "replace", "remove"} /\ o \in Files /\ c.content \in Seq(Notes) /\ lock[o] = t
      /\ new = Changed(Read(file[o]), c.does, c.content, c.word) /\ new # Refused
  BY <1>1, <1>2 DEF CallsKnown, CallKnown, Files
<1> HIDE DEF new, c, o
<1>4. file[o] \in Seq(Notes) /\ Length(<<file[o]>>) <= Limit /\ file[o] = ReplayOf(journal[o]) /\ Limit \in Nat
  BY <1>1, <1>3, KnowledgeAssumption DEF KnowTyped, FilesKept
<1>5. Read(file[o]) \in Seq(Seq(Notes))
  BY <1>4, NotesSized, ReadIs DEF Singles
<1>6. /\ new \in Seq(Seq(Notes)) /\ (c.does # "remove" => Length(new) <= Limit)
      /\ c.does = "remove" => \E at \in 1 .. Len(Read(file[o])) : new = RemoveAt(Read(file[o]), at)
  BY <1>3, <1>5, NotesSized, ChangedIs
<1>7. Length(new) <= Limit
  <2>1. CASE c.does = "remove"
    <3>1. PICK at \in 1 .. Len(Read(file[o])) : new = RemoveAt(Read(file[o]), at)
      BY <1>6, <2>1
    <3>2. Length(new) <= Length(<<file[o]>>) \/ Length(new) = 0
      BY <1>4, <3>1, RemovedFits
    <3>3. Length(new) \in Int /\ Length(<<file[o]>>) \in Int
      <4>1. <<file[o]>> \in Seq(Seq(Notes))
        BY <1>4
      <4> QED
        BY <1>6, <4>1, NotesSized, LengthIs
    <3> QED
      BY <1>4, <3>2, <3>3
  <2> QED
    BY <1>6, <2>1
<1>8. Written(new) \in Seq(Notes) /\ Length(<<Written(new)>>) <= Limit
  BY <1>6, <1>7, WrittenIs, LengthOfFile
<1>9. ReplayOf(Append(journal[o], c)) = Written(new) /\ \E D : Append(journal[o], c) \in Seq(D)
  <2>1. PICK D : journal[o] \in Seq(D)
    BY <1>1, <1>3 DEF KnowTyped
  <2> DEFINE E == D \cup {c}
  <2>2. journal[o] \in Seq(E) /\ c \in E
    BY <2>1
  <2> HIDE DEF E
  <2>3. Append(journal[o], c) \in Seq(E)
    BY <2>2
  <2> QED
    BY <1>3, <1>4, <2>2, <2>3, ReplayAdded
<1>10. /\ file' \in [Files -> Seq(Notes)] /\ journal' = [f \in Files |-> journal'[f]]
       /\ \A f \in Files : \/ file'[f] = file[f] /\ journal'[f] = journal[f]
                           \/ f = o /\ file'[f] = Written(new) /\ journal'[f] = Append(journal[o], c)
       /\ \A f \in Files : f # o => file'[f] = file[f]
  <2>1. CASE UNCHANGED <<file, journal>>
    BY <1>1, <2>1 DEF KnowTyped
  <2>2. CASE file' = [file EXCEPT ![o] = Written(new)] /\ journal' = [journal EXCEPT ![o] = Append(journal[o], c)]
    <3>1. file \in [Files -> Seq(Notes)] /\ journal = [f \in Files |-> journal[f]]
      BY <1>1 DEF KnowTyped
    <3> QED
      BY <1>3, <1>8, <2>2, <3>1
  <2> QED
    BY <1>2, <2>1, <2>2
<1>11. FilesKept'
  <2> SUFFICES ASSUME NEW f \in Files PROVE file'[f] = ReplayOf(journal'[f]) /\ Length(<<file'[f]>>) <= Limit
    BY DEF FilesKept
  <2>1. CASE file'[f] = file[f] /\ journal'[f] = journal[f]
    BY <1>1, <2>1 DEF FilesKept
  <2>2. CASE file'[f] = Written(new) /\ journal'[f] = Append(journal[o], c)
    BY <1>8, <1>9, <2>2
  <2> QED
    BY <1>10, <2>1, <2>2
<1>12. /\ call' = [u \in ToolThreads |-> [f \in CallFields |-> call'[u][f]]]
       /\ call'[t] = Free /\ \A u \in ToolThreads : u # t => call'[u] = call[u]
  BY <1>1, <1>2, FreeIs DEF KnowTyped
<1>13. lock' \in [Files -> ToolThreads \cup {NoThread}] /\ \A f \in Files : f # o => lock'[f] = lock[f]
  BY <1>1, <1>2, <1>3 DEF KnowTyped
<1>14. KnowTyped'
  <2>1. \A f \in Files : \E D : journal'[f] \in Seq(D)
    <3>1. \A f \in Files : \E D : journal[f] \in Seq(D)
      BY <1>1 DEF KnowTyped
    <3> QED
      BY <1>9, <1>10, <3>1
  <2> QED
    BY <1>1, <1>2, <1>10, <1>12, <1>13, <2>1 DEF KnowTyped
<1>15. CallsKnown'
  <2> SUFFICES ASSUME NEW u \in ToolThreads PROVE CallKnown(u, call'[u], lock', live', file')
    BY DEF CallsKnown
  <2>1. CASE u = t
    BY <1>12, <2>1, FreeIs DEF CallKnown
  <2>2. CASE u # t
    <3>1. CallKnown(u, call[u], lock, live, file) /\ call'[u] = call[u]
      BY <1>1, <1>12, <2>2 DEF CallsKnown
    <3>2. CASE call[u].at = "save"
      <4> DEFINE p == call[u].on
      <4>1. lock[p] = u /\ p \in Files
        BY <3>1, <3>2, KnowledgeAssumption DEF CallKnown, Files
      <4>2. p # o
        BY <1>3, <2>2, <4>1
      <4>3. lock'[p] = lock[p] /\ file'[p] = file[p]
        BY <1>10, <1>13, <4>1, <4>2
      <4> QED
        BY <1>2, <3>1, <3>2, <4>3 DEF CallKnown
    <3>3. CASE call[u].at # "save"
      BY <3>1, <3>3 DEF CallKnown
    <3> QED
      BY <3>2, <3>3
  <2> QED
    BY <2>1, <2>2
<1>16. SkillsSound'
  BY <1>1, <1>2 DEF SkillsSound
<1> QED
  BY <1>11, <1>14, <1>15, <1>16 DEF KnowInv

LEMMA RestartsKeep == ASSUME KnowInv, NEW a \in Agents, AgentRestarts(a) PROVE KnowInv'
<1> DEFINE mine == {t \in ToolThreads : Owner[t] = a}
<1>1. KnowTyped /\ CallsKnown /\ FilesKept /\ SkillsSound
  BY DEF KnowInv
<1>2. /\ live' = [live EXCEPT ![a] = FromDisk(a)]
      /\ call' = [t \in ToolThreads |-> IF t \in mine THEN Free ELSE call[t]]
      /\ lock' = [f \in Files |-> IF lock[f] \in mine THEN NoThread ELSE lock[f]]
      /\ UNCHANGED <<file, skill, journal>>
  BY DEF AgentRestarts
<1>3. KnowTyped'
  <2>1. live' = [b \in Agents |-> [f \in {b, User} |-> live'[b][f]]]
    <3>1. live = [b \in Agents |-> [f \in {b, User} |-> live[b][f]]]
      BY <1>1 DEF KnowTyped
    <3>2. FromDisk(a) = [f \in {a, User} |-> FromDisk(a)[f]]
      BY DEF FromDisk
    <3> QED
      BY <1>2, <3>1, <3>2
  <2>2. call' = [t \in ToolThreads |-> [f \in CallFields |-> call'[t][f]]]
    <3>1. call = [t \in ToolThreads |-> [f \in CallFields |-> call[t][f]]]
      BY <1>1 DEF KnowTyped
    <3> HIDE DEF mine
    <3> QED
      BY <1>2, <3>1, FreeIs
  <2>3. lock' \in [Files -> ToolThreads \cup {NoThread}]
    BY <1>1, <1>2 DEF KnowTyped
  <2>4. UNCHANGED <<file, skill, journal>>
    BY <1>2
  <2> HIDE DEF mine
  <2> QED
    BY <1>1, <2>1, <2>2, <2>3, <2>4 DEF KnowTyped
<1>4. CallsKnown'
  <2> SUFFICES ASSUME NEW u \in ToolThreads PROVE CallKnown(u, call'[u], lock', live', file')
    BY DEF CallsKnown
  <2>1. CASE Owner[u] = a
    BY <1>2, <2>1, FreeIs DEF CallKnown
  <2>2. CASE Owner[u] # a
    <3>1. CallKnown(u, call[u], lock, live, file) /\ call'[u] = call[u] /\ Owner[u] \in Agents /\ u \notin mine
      BY <1>1, <1>2, <2>2, KnowledgeAssumption DEF CallsKnown
    <3>2. live'[Owner[u]] = live[Owner[u]]
      BY <1>1, <1>2, <2>2, <3>1 DEF KnowTyped
    <3>3. \A f \in Files : lock[f] = u => lock'[f] = u
      BY <1>2, <3>1
    <3>4. CASE call[u].at = "save"
      <4>1. call[u].on \in Files
        BY <3>1, <3>4 DEF CallKnown, Files
      <4> QED
        BY <1>2, <3>1, <3>2, <3>3, <3>4, <4>1 DEF CallKnown
    <3>5. CASE call[u].at # "save"
      BY <3>1, <3>5 DEF CallKnown
    <3> QED
      BY <3>4, <3>5
  <2> QED
    BY <2>1, <2>2
<1>5. FilesKept' /\ SkillsSound'
  BY <1>1, <1>2 DEF FilesKept, SkillsSound
<1> QED
  BY <1>3, <1>4, <1>5 DEF KnowInv

LEMMA KnowStep == KnowInv /\ [KnowNext]_knowvars => KnowInv'
<1> SUFFICES ASSUME KnowInv, [KnowNext]_knowvars PROVE KnowInv'
  OBVIOUS
<1>1. ASSUME NEW t \in ToolThreads, Puts(t) PROVE KnowInv'
  <2>1. call[t].at = "put" /\ call[t].on \in SkillNames /\ call[t].text.good
    BY <1>1 DEF Puts, KnowInv, CallsKnown, CallKnown
  <2> QED
    BY <1>1, <2>1, SkillChanges DEF Puts, Ends
<1>2. ASSUME NEW t \in ToolThreads, Deletes(t) PROVE KnowInv'
  <2>1. call[t].at = "look" /\ call[t].on \in SkillNames
    BY <1>2 DEF Deletes, KnowInv, CallsKnown, CallKnown
  <2> QED
    BY <1>2, <2>1, SkillChanges DEF Deletes, Ends
<1>3. CASE UNCHANGED knowvars
  <2> USE <1>3 DEF knowvars, KnowInv
  <2>1. KnowTyped' /\ FilesKept' /\ SkillsSound'
    BY DEF KnowTyped, FilesKept, SkillsSound
  <2>2. CallsKnown'
    BY DEF CallsKnown, CallKnown
  <2> QED
    BY <2>1, <2>2
<1> QED
  BY <1>1, <1>2, <1>3, MemoryKeeps, SkillToolKeeps, LooksKeeps, LocksKeeps, SavesFileKeeps, RestartsKeep DEF KnowNext

\* However the threads of agents that share files interleave and are killed, a memory file is
\* what its changes make, one after the other, within the limit; and no skill on the disk is
\* unsound (memory_store.py, skills_store.py, learning.py).
THEOREM MemoryIsKept == KnowSpec => []NothingForgotten
<1>1. KnowInv => NothingForgotten
  <2>1. \A f \in Files : Replayed(f) = ReplayOf(journal[f])
    BY DEF Replayed, ReplayOf
  <2> QED
    BY <2>1 DEF KnowInv, FilesKept, SkillsSound, NothingForgotten
<1>2. QED
  BY <1>1, KnowStart, KnowStep, PTL DEF KnowSpec

-----------------------------------------------------------------------------
(* The books of the paper portfolio (Portfolio). What a book is worth      *)
(* is a sum over the assets; an order changes one of them, and the trades  *)
(* by one.                                                                 *)

LEMMA OneSum ==
  ASSUME NEW f
  PROVE  F!SumFunction(f) = SumFunction(f)
BY DEF F!SumFunction, F!SumFunctionOnSet, F!FoldFunctionOnSet, F!MapThenFoldSet,
       SumFunction, SumFunctionOnSet, FoldFunctionOnSet, MapThenFoldSet

LEMMA OneFiniteness ==
  ASSUME NEW S
  PROVE  F!IsFiniteSet(S) <=> IsFiniteSet(S)
BY DEF F!IsFiniteSet, IsFiniteSet

\* Dividing what is a multiple.
LEMMA Multiples ==
  ASSUME NEW x \in Nat, NEW d \in Nat \ {0}
  PROVE  /\ x % d = 0 => \E k \in Nat : x = k * d
         /\ (x * d) % d = 0 /\ (x * d) \div d = x
<1>1. x = d * (x \div d) + (x % d) /\ x \div d \in Nat
  BY SMT
<1>2. x % d = 0 => \E k \in Nat : x = k * d
  BY <1>1
<1>3. (d * x) % d = 0 /\ (d * x) \div d = x
  BY SMT
<1>4. d * x = x * d
  BY SMT
<1> QED
  BY <1>2, <1>3, <1>4

LEMMA Times ==
  ASSUME NEW m \in Nat, NEW n \in Nat, m <= n, NEW x \in Nat
  PROVE  m * x <= n * x /\ m * x \in Nat /\ n * x \in Nat
<1>1. PICK d \in Nat : n = m + d
  OBVIOUS
<1>2. (m + d) * x = m * x + d * x /\ d * x \in Nat /\ m * x \in Nat
  OBVIOUS
<1> QED
  BY <1>1, <1>2

\* An average of two multiples, of what the quantity divides into finer ones, is exact.
LEMMA Average ==
  ASSUME NEW g \in Nat \ {0}, NEW c \in Nat \ {0}, NEW h \in Nat \ {0}, NEW q \in Nat \ {0},
         NEW e \in Nat, NEW p \in Nat, c % ((h + q) * g) = 0, e % c = 0, p % c = 0
  PROVE  LET avg == (e * h + p * q) \div (h + q) IN
         avg \in Nat /\ avg % g = 0 /\ avg * (h + q) = e * h + p * q
<1> DEFINE t == h + q
<1>1. t \in Nat \ {0}
  OBVIOUS
<1>2. e * h + p * q \in Nat
  OBVIOUS
<1> HIDE DEF t
<1>3. t * g \in Nat \ {0}
  BY <1>1
<1>4. PICK k \in Nat : c = k * (t * g)
  BY <1>3, Multiples DEF t
<1>5. PICK i \in Nat : e = i * c
  BY Multiples
<1>6. PICK j \in Nat : p = j * c
  BY Multiples
<1> DEFINE s == k * (i * h + j * q)
<1>7. s \in Nat /\ s * g \in Nat
  OBVIOUS
<1>8. e * h + p * q = (s * g) * t
  <2>1. e * h = (i * h) * c /\ p * q = (j * q) * c
    BY <1>5, <1>6
  <2>2. e * h + p * q = (i * h + j * q) * c
    BY <2>1
  <2> DEFINE w == i * h + j * q
  <2>3. w \in Nat
    OBVIOUS
  <2>4. e * h + p * q = w * c
    BY <2>2
  <2> HIDE DEF w
  <2>5. w * (k * (t * g)) = ((k * w) * g) * t
    BY <1>1, <2>3
  <2> QED
    BY <1>4, <2>4, <2>5 DEF w
<1> HIDE DEF s
<1>9. (e * h + p * q) \div t = s * g
  BY <1>1, <1>7, <1>8, Multiples
<1>10. (s * g) % g = 0
  BY <1>7, Multiples
<1> QED
  BY <1>7, <1>8, <1>9, <1>10 DEF t

Positions == [side : {"none", "long", "short"}, qty : Nat, entry : Nat, cur : Nat]
Trades == [side : Sides, qty : Nat, entry : Nat, exit : Nat]
Books == [cash : Int, pos : [Assets -> Positions], closed : Seq(Trades)]

\* What is held of an asset, gained by it, and was paid for it.
Kept(b) == [a \in Assets |-> Worth(b.pos[a])]
Gained(b) == [a \in Assets |-> Gain(b.pos[a].side, b.pos[a].qty, b.pos[a].entry, b.pos[a].cur)]
Made(b) == [k \in DOMAIN b.closed |-> Gain(b.closed[k].side, b.closed[k].qty, b.closed[k].entry, b.closed[k].exit)]
Cost(h) == IF h.side = "long" THEN h.entry * h.qty ELSE 0

LEMMA FieldsOfBook ==
  ASSUME NEW b \in Books
  PROVE  /\ b.cash \in Int /\ b.pos \in [Assets -> Positions] /\ b.closed \in Seq(Trades)
         /\ \A a \in Assets : b.pos[a] \in Positions
         /\ DOMAIN b.closed = 1 .. Len(b.closed) /\ Len(b.closed) \in Nat
         /\ \A k \in DOMAIN b.closed : b.closed[k] \in Trades
<1>1. b.cash \in Int /\ b.pos \in [Assets -> Positions] /\ b.closed \in Seq(Trades)
  BY DEF Books
<1> QED
  BY <1>1

LEMMA FieldsOfPosition ==
  ASSUME NEW h \in Positions
  PROVE  /\ h.side \in {"none", "long", "short"} /\ h.qty \in Nat /\ h.entry \in Nat /\ h.cur \in Nat
         /\ Worth(h) \in Int /\ Gain(h.side, h.qty, h.entry, h.cur) \in Int /\ Cost(h) \in Int
         /\ Worth(h) - Gain(h.side, h.qty, h.entry, h.cur) = Cost(h)
<1>1. h.side \in {"none", "long", "short"} /\ h.qty \in Nat /\ h.entry \in Nat /\ h.cur \in Nat
  BY DEF Positions
<1> DEFINE q == h.qty
           e == h.entry
           c == h.cur
<1>2. q \in Nat /\ e \in Nat /\ c \in Nat
  BY <1>1
<1> HIDE DEF q, e, c
<1>3. c * q \in Int /\ (c - e) * q \in Int /\ e * q \in Int /\ (e - c) * q \in Int
  BY <1>2
<1>4. c * q - (c - e) * q = e * q
  BY <1>2
<1> QED
  BY <1>1, <1>3, <1>4 DEF Worth, Gain, Profit, Cost, q, e, c

LEMMA GainOfTrade ==
  ASSUME NEW t \in Trades
  PROVE  Gain(t.side, t.qty, t.entry, t.exit) \in Int
<1>1. t.qty \in Nat /\ t.entry \in Nat /\ t.exit \in Nat
  BY DEF Trades
<1> QED
  BY <1>1 DEF Gain, Profit

LEMMA SumsOfBook ==
  ASSUME NEW b \in Books
  PROVE  /\ Value(b) = F!SumFunction(Kept(b)) /\ Unrealized(b) = F!SumFunction(Gained(b))
         /\ Realized(b) = F!SumFunction(Made(b))
         /\ Kept(b) \in [Assets -> Int] /\ Gained(b) \in [Assets -> Int]
         /\ Made(b) \in [1 .. Len(b.closed) -> Int]
<1>1. /\ Value(b) = SumFunction(Kept(b)) /\ Unrealized(b) = SumFunction(Gained(b))
      /\ Realized(b) = SumFunction(Made(b))
  BY DEF Value, Unrealized, Realized, Kept, Gained, Made
<1>2. Kept(b) \in [Assets -> Int]
  BY FieldsOfBook, FieldsOfPosition DEF Kept
<1>3. Gained(b) \in [Assets -> Int]
  BY FieldsOfBook, FieldsOfPosition DEF Gained
<1>4. Made(b) \in [1 .. Len(b.closed) -> Int]
  BY FieldsOfBook, GainOfTrade DEF Made
<1> QED
  BY <1>1, <1>2, <1>3, <1>4, OneSum

\* One asset of a book is another.
LEMMA AssetChanged ==
  ASSUME NEW b \in Books, NEW c \in Books, NEW a \in Assets, \A x \in Assets \ {a} : c.pos[x] = b.pos[x]
  PROVE  /\ Value(b) \in Int /\ Unrealized(b) \in Int
         /\ Value(c) - Unrealized(c) = Value(b) - Unrealized(b) - Cost(b.pos[a]) + Cost(c.pos[a])
<1>1. F!IsFiniteSet(Assets)
  BY PortfolioAssumption, OneFiniteness
<1> DEFINE h == b.pos[a]
           i == c.pos[a]
           gb == Gain(h.side, h.qty, h.entry, h.cur)
           gc == Gain(i.side, i.qty, i.entry, i.cur)
<1>2. \A x \in Assets \ {a} : Kept(c)[x] = Kept(b)[x] /\ Gained(c)[x] = Gained(b)[x]
  BY DEF Kept, Gained
<1>3. Kept(b)[a] = Worth(h) /\ Kept(c)[a] = Worth(i) /\ Gained(b)[a] = gb /\ Gained(c)[a] = gc
  BY DEF Kept, Gained
<1>4. h \in Positions /\ i \in Positions
  BY FieldsOfBook
<1>5. /\ Worth(h) \in Int /\ gb \in Int /\ Worth(h) - gb = Cost(h)
      /\ Worth(i) \in Int /\ gc \in Int /\ Worth(i) - gc = Cost(i)
  BY <1>4, FieldsOfPosition
<1>6. /\ Kept(b) \in [Assets -> Int] /\ Gained(b) \in [Assets -> Int]
      /\ Kept(c) \in [Assets -> Int] /\ Gained(c) \in [Assets -> Int]
  BY SumsOfBook
<1>7. F!SumFunction(Kept(b)) \in Int /\ F!SumFunction(Kept(c)) = F!SumFunction(Kept(b)) - Kept(b)[a] + Kept(c)[a]
  BY <1>1, <1>2, <1>6, F!SumChanged
<1>8. F!SumFunction(Gained(b)) \in Int /\ F!SumFunction(Gained(c)) = F!SumFunction(Gained(b)) - Gained(b)[a] + Gained(c)[a]
  BY <1>1, <1>2, <1>6, F!SumChanged
<1>9. /\ Value(b) \in Int /\ Value(c) = Value(b) - Worth(h) + Worth(i)
      /\ Unrealized(b) \in Int /\ Unrealized(c) = Unrealized(b) - gb + gc
  BY <1>3, <1>7, <1>8, SumsOfBook
<1> HIDE DEF gb, gc, h, i
<1>10. Value(c) - Unrealized(c) = Value(b) - Unrealized(b) - Cost(h) + Cost(i)
  BY <1>5, <1>9
<1> QED
  BY <1>9, <1>10 DEF h, i

\* One more trade is closed.
LEMMA TradeAdded ==
  ASSUME NEW b \in Books, NEW c \in Books, NEW t \in Trades, c.closed = Append(b.closed, t)
  PROVE  Realized(b) \in Int /\ Realized(c) = Realized(b) + Gain(t.side, t.qty, t.entry, t.exit)
<1> DEFINE n == Len(b.closed)
           m == n + 1
<1>1. n \in Nat /\ b.closed \in Seq(Trades) /\ c.closed \in Seq(Trades) /\ DOMAIN b.closed = 1 .. n
  BY FieldsOfBook
<1>2. Len(c.closed) = m /\ DOMAIN c.closed = 1 .. m /\ c.closed[m] = t /\ \A k \in 1 .. n : c.closed[k] = b.closed[k]
  BY <1>1
<1>3. 1 .. m = (1 .. n) \union {m} /\ m \notin 1 .. n /\ m \in 1 .. m
  BY <1>1
<1>9. F!IsFiniteSet(1 .. n)
  BY <1>1, FS_Interval, OneFiniteness
<1>4. Made(b) \in [1 .. n -> Int] /\ Made(c) \in [1 .. m -> Int]
  BY <1>2, SumsOfBook
<1> HIDE DEF m, n
<1>5. \A k \in 1 .. n : Made(c)[k] = Made(b)[k]
  BY <1>1, <1>2, <1>3 DEF Made
<1>6. Made(c)[m] = Gain(t.side, t.qty, t.entry, t.exit)
  BY <1>2, <1>3 DEF Made
<1>8. F!SumFunction(Made(b)) \in Int /\ F!SumFunction(Made(c)) = F!SumFunction(Made(b)) + Made(c)[m]
  <2> DEFINE D == 1 .. n
             R == 1 .. m
             f == Made(b)
             g == Made(c)
  <2>1. /\ m \notin D /\ F!IsFiniteSet(D) /\ R = D \union {m} /\ f \in [D -> Int] /\ g \in [R -> Int]
        /\ \A k \in D : g[k] = f[k]
    BY <1>3, <1>4, <1>5, <1>9
  <2> HIDE DEF D, R, f, g
  <2>2. F!OneMore(f, g, m, D, R)
    BY <2>1 DEF F!OneMore
  <2>3. F!SumFunction(f) \in Int /\ F!SumFunction(g) = F!SumFunction(f) + g[m]
    BY <2>2, F!SumAdded
  <2> QED
    BY <2>3 DEF f, g
<1> QED
  BY <1>6, <1>8, SumsOfBook

\* A book of no trades and positions, and the sum of what was made.
LEMMA RealizedIsInt ==
  ASSUME NEW b \in Books
  PROVE  Realized(b) \in Int
<1> DEFINE n == Len(b.closed)
<1>1. Made(b) \in [1 .. n -> Int] /\ Realized(b) = F!SumFunction(Made(b)) /\ n \in Nat
  BY SumsOfBook, FieldsOfBook
<1>2. F!IsFiniteSet(1 .. n) /\ DOMAIN Made(b) = 1 .. n /\ \A k \in 1 .. n : Made(b)[k] \in Int
  <2>1. F!IsFiniteSet(1 .. n)
    BY <1>1, FS_Interval, OneFiniteness
  <2> HIDE DEF n
  <2> QED
    BY <1>1, <2>1
<1>3. F!SumFunctionOnSet(Made(b), 1 .. n) \in Int
  BY <1>2, F!SumPart
<1> QED
  BY <1>1, <1>2, <1>3 DEF F!SumFunction

\* What a position of a book is after n filled orders, and the book.
Fits(h, n) ==
  /\ h \in Positions
  /\ h.qty = 0 => h = NoPosition
  /\ h.qty > 0 => h.side \in Sides /\ n \in Orders /\ h.entry % Grain[n] = 0 /\ h.qty <= n * MaxQty
Sound(b, n) == b \in Books /\ Balanced(b) /\ \A a \in Assets : Fits(b.pos[a], n)

LEMMA NoPositionFits == Cost(NoPosition) = 0 /\ \A n : Fits(NoPosition, n)
BY DEF Fits, NoPosition, Positions, Cost

\* A coarser grain holds finer ones.
LEMMA FitsLater ==
  ASSUME NEW m \in Nat, NEW n \in Orders, m <= n, NEW h, Fits(h, m)
  PROVE  Fits(h, n)
<1>1. CASE h.qty > 0
  <2>1. h.side \in Sides /\ m \in Orders /\ h.entry % Grain[m] = 0 /\ h.qty <= m * MaxQty /\ h \in Positions
    BY <1>1 DEF Fits
  <2>2. h.qty \in Nat \ {0} /\ h.entry \in Nat /\ n \in Nat /\ MaxQty \in Nat
    BY <1>1, <2>1, FieldsOfPosition, PortfolioAssumption DEF Orders
  <2>3. MaxQty # 0
    <3>1. m * 0 = 0
      OBVIOUS
    <3> QED
      BY <2>1, <2>2, <3>1
  <2>4. m * MaxQty <= n * MaxQty /\ 1 <= n * MaxQty /\ n * MaxQty \in Nat
    <3>1. PICK d \in Nat : n = m + d
      BY <2>2
    <3>2. n * MaxQty = m * MaxQty + d * MaxQty /\ d * MaxQty \in Nat /\ m * MaxQty \in Nat
      BY <2>2, <3>1
    <3> QED
      BY <2>1, <2>2, <3>2
  <2>5. Grain[m] \in Nat \ {0} /\ Grain[n] \in Nat \ {0}
    BY <2>1, GrainAssumption
  <2>6. Grain[m] % Grain[n] = 0
    <3>1. CASE m = n
      BY <2>5, <3>1
    <3>2. CASE m # n
      <4>1. m \in 1 .. n - 1 /\ 1 \in 1 .. n * MaxQty
        BY <2>1, <2>2, <2>4, <3>2 DEF Orders
      <4>2. Grain[m] % (1 * Grain[n]) = 0
        BY <4>1, GrainAssumption
      <4> QED
        BY <2>5, <4>2
    <3> QED
      BY <3>1, <3>2
  <2>7. PICK k \in Nat : Grain[m] = k * Grain[n]
    BY <2>5, <2>6, Multiples
  <2>8. PICK j \in Nat : h.entry = j * Grain[m]
    BY <2>1, <2>2, <2>5, Multiples
  <2>9. h.entry = (j * k) * Grain[n] /\ j * k \in Nat
    BY <2>5, <2>7, <2>8
  <2>10. h.entry % Grain[n] = 0
    BY <2>5, <2>9, Multiples
  <2> QED
    BY <1>1, <2>1, <2>2, <2>4, <2>10 DEF Fits
<1>2. CASE ~(h.qty > 0)
  BY <1>2 DEF Fits
<1> QED
  BY <1>1, <1>2

LEMMA SoundLater ==
  ASSUME NEW m \in Nat, NEW n \in Nat, m <= n, n <= MaxOrders, NEW b, Sound(b, m)
  PROVE  Sound(b, n)
<1>1. CASE n = 0
  BY <1>1
<1>2. CASE n # 0
  <2>1. n \in Orders
    BY <1>2, PortfolioAssumption DEF Orders
  <2> QED
    BY <2>1, FitsLater DEF Sound
<1> QED
  BY <1>1, <1>2

LEMMA FreshIsSound == \A n : Sound(Fresh0, n)
<1>1. Fresh0 \in Books
  <2>1. Start \in Int
    BY PortfolioAssumption
  <2>2. NoPosition \in Positions
    BY DEF NoPosition, Positions
  <2>3. [a \in Assets |-> NoPosition] \in [Assets -> Positions] /\ << >> \in Seq(Trades)
    BY <2>2
  <2> QED
    BY <2>1, <2>3 DEF Fresh0, Books
<1>2. /\ Fresh0.cash = Start /\ Fresh0.closed = << >> /\ \A a \in Assets : Fresh0.pos[a] = NoPosition
  BY DEF Fresh0
<1>3. Value(Fresh0) = 0 /\ Unrealized(Fresh0) = 0
  <2>1. DOMAIN Kept(Fresh0) = Assets /\ \A a \in Assets : Kept(Fresh0)[a] = 0
    BY <1>2 DEF Kept, Worth, NoPosition
  <2>2. DOMAIN Gained(Fresh0) = Assets /\ \A a \in Assets : Gained(Fresh0)[a] = 0
    BY <1>2 DEF Gained, Gain, NoPosition
  <2>3. F!IsFiniteSet(Assets)
    BY PortfolioAssumption, OneFiniteness
  <2> QED
    BY <1>1, <2>1, <2>2, <2>3, SumsOfBook, F!SumOfNothing DEF F!SumFunction
<1>4. Realized(Fresh0) = 0
  <2>1. DOMAIN Made(Fresh0) = {}
    BY <1>2 DEF Made
  <2>2. F!IsFiniteSet({})
    BY FS_EmptySet, OneFiniteness
  <2>3. F!SumFunctionOnSet(Made(Fresh0), {}) = 0
    BY <2>2, F!SumOfNothing
  <2> QED
    BY <1>1, <2>1, <2>3, SumsOfBook DEF F!SumFunction
<1>5. Balanced(Fresh0)
  BY <1>2, <1>3, <1>4, PortfolioAssumption DEF Balanced
<1> QED
  BY <1>1, <1>2, <1>5, NoPositionFits DEF Sound

\* A torn file is no sound book.
LEMMA TornIsNot == \A n : ~Sound(Torn, n)
<1>1. Torn.cash = -1
  BY DEF Torn, Fresh0
<1> QED
  BY <1>1 DEF Sound, Balanced

\* The books balance still when what was paid for an asset changes by what was paid and made.
LEMMA BalancedStill ==
  ASSUME NEW b \in Books, NEW c \in Books, NEW a \in Assets, \A x \in Assets \ {a} : c.pos[x] = b.pos[x],
         Balanced(b), c.cash >= 0, NEW made \in Int, Realized(c) = Realized(b) + made,
         c.cash - b.cash + Cost(c.pos[a]) - Cost(b.pos[a]) = made
  PROVE  Balanced(c)
<1>1. b.cash \in Int /\ c.cash \in Int /\ Cost(b.pos[a]) \in Int /\ Cost(c.pos[a]) \in Int
  BY FieldsOfBook, FieldsOfPosition
<1>2. /\ Value(b) \in Int /\ Unrealized(b) \in Int
      /\ Value(c) - Unrealized(c) = Value(b) - Unrealized(b) - Cost(b.pos[a]) + Cost(c.pos[a])
  BY AssetChanged
<1>3. Value(c) \in Int /\ Unrealized(c) \in Int
  BY AssetChanged
<1>4. Realized(b) \in Int /\ Start \in Int
  BY RealizedIsInt, PortfolioAssumption
<1>5. b.cash + Value(b) - Start = Unrealized(b) + Realized(b)
  BY DEF Balanced
<1>6. c.cash + Value(c) - Start = Unrealized(c) + Realized(c)
  BY <1>1, <1>2, <1>3, <1>4, <1>5
<1> QED
  BY <1>6 DEF Balanced

\* A book with one other position, that balances with the cash and the trades, is sound.
LEMMA BookChanged ==
  ASSUME NEW m \in Nat, NEW n \in Nat, m <= n, n <= MaxOrders, NEW b, Sound(b, m), NEW a \in Assets,
         NEW new, Fits(new, n), NEW cash \in Int, cash >= 0, NEW closed \in Seq(Trades), NEW made \in Int,
         NEW c, c = [cash |-> cash, pos |-> [b.pos EXCEPT ![a] = new], closed |-> closed],
         Realized(c) = Realized(b) + made, cash - b.cash + Cost(new) - Cost(b.pos[a]) = made
  PROVE  Sound(c, n)
<1>1. Sound(b, n)
  BY SoundLater
<1>2. b \in Books /\ Balanced(b) /\ b.pos \in [Assets -> Positions] /\ \A x \in Assets : Fits(b.pos[x], n)
  BY <1>1, FieldsOfBook DEF Sound
<1> DEFINE pos == [b.pos EXCEPT ![a] = new]
<1>3. new \in Positions
  BY DEF Fits
<1>4. pos \in [Assets -> Positions] /\ pos[a] = new /\ \A x \in Assets \ {a} : pos[x] = b.pos[x]
  BY <1>2, <1>3
<1> HIDE DEF pos
<1>5. c = [cash |-> cash, pos |-> pos, closed |-> closed]
  BY DEF pos
<1>6. c \in Books /\ c.cash = cash /\ c.pos = pos
  <2>1. [cash |-> cash, pos |-> pos, closed |-> closed] \in Books
    BY <1>4 DEF Books
  <2> QED
    BY <1>5, <2>1
<1>7. c.pos[a] = new /\ \A x \in Assets \ {a} : c.pos[x] = b.pos[x]
  BY <1>4, <1>6
<1>8. Balanced(c)
  BY <1>2, <1>6, <1>7, BalancedStill
<1>9. \A x \in Assets : Fits(c.pos[x], n)
  BY <1>2, <1>7
<1> QED
  BY <1>6, <1>8, <1>9 DEF Sound

LEMMA SameTrades ==
  ASSUME NEW b \in Books, NEW c, c.closed = b.closed
  PROVE  Realized(c) = Realized(b) + 0
BY RealizedIsInt DEF Realized

\* What an order of a process may be.
OrderStates == {"new", "priced", "fill", "save", "write", "over"}
Wanted(r) ==
  /\ r.by \in Processes /\ r.asset \in Assets /\ r.side \in Sides /\ r.price \in Prices
  /\ r.qty \in Nat \ {0} /\ r.qty <= MaxQty
Covered(b, r) ==
  /\ b.pos[r.asset].qty = 0 \/ b.pos[r.asset].side = r.side
  /\ r.side = "long" => r.price * r.qty <= b.cash

LEMMA PricesFit ==
  ASSUME NEW price \in Prices, NEW n \in Orders
  PROVE  price \in Nat /\ price % Grain[n] = 0 /\ Grain[n] \in Nat \ {0} /\ n \in Nat \ {0} /\ n <= MaxOrders /\ MaxQty \in Nat
BY PortfolioAssumption, GrainAssumption DEF Orders

LEMMA WantedFits ==
  ASSUME NEW n \in Orders, NEW r, Wanted(r)
  PROVE  /\ r.price \in Nat /\ r.price % Grain[n] = 0 /\ Grain[n] \in Nat \ {0} /\ n \in Nat \ {0} /\ MaxQty \in Nat
         /\ r.qty \in Nat \ {0} /\ r.qty <= MaxQty /\ r.qty <= n * MaxQty /\ r.side \in {"long", "short"}
<1>1. /\ r.price \in Nat /\ r.price % Grain[n] = 0 /\ Grain[n] \in Nat \ {0} /\ n \in Nat \ {0} /\ MaxQty \in Nat
      /\ r.qty \in Nat \ {0} /\ r.qty <= MaxQty /\ r.side \in {"long", "short"}
  BY PricesFit DEF Wanted, Sides
<1>2. 1 * MaxQty <= n * MaxQty
  BY <1>1, Times
<1>3. n * MaxQty \in Nat
  BY <1>1
<1> QED
  BY <1>1, <1>2, <1>3

\* The new position fits, and costs what is paid for it: the first of an asset, and one
\* that is averaged in.
LEMMA FirstFits ==
  ASSUME NEW n \in Orders, NEW r, Wanted(r),
         NEW new, new = [side |-> r.side, qty |-> r.qty, entry |-> r.price, cur |-> r.price]
  PROVE  Fits(new, n) /\ Cost(new) = IF r.side = "long" THEN r.price * r.qty ELSE 0
<1>1. new.qty = r.qty /\ new.side = r.side /\ new.entry = r.price
  OBVIOUS
<1>2. new \in Positions
  BY WantedFits DEF Positions
<1>3. Fits(new, n)
  BY <1>1, <1>2, WantedFits DEF Fits, Sides
<1> QED
  BY <1>1, <1>3 DEF Cost

LEMMA AveragedFits ==
  ASSUME NEW n \in Orders, NEW h, Fits(h, n - 1), NEW r, Wanted(r), h.qty # 0, h.side = r.side,
         NEW new, new = [h EXCEPT !.qty = h.qty + r.qty, !.cur = r.price,
                                  !.entry = (h.entry * h.qty + r.price * r.qty) \div (h.qty + r.qty)]
  PROVE  /\ Fits(new, n)
         /\ Cost(new) - Cost(h) = IF r.side = "long" THEN r.price * r.qty ELSE 0
<1> DEFINE q == r.qty
           p == r.price
           e == h.entry
           k == h.qty
           avg == (e * k + p * q) \div (k + q)
           m == n - 1
<1>1. /\ p \in Nat /\ Grain[n] \in Nat \ {0} /\ n \in Nat \ {0} /\ MaxQty \in Nat
      /\ q \in Nat \ {0} /\ q <= MaxQty
  BY WantedFits
<1>2. h \in Positions /\ k \in Nat \ {0} /\ e \in Nat /\ h.side = r.side
  BY FieldsOfPosition DEF Fits
<1>3. m \in Orders /\ e % Grain[m] = 0 /\ k <= m * MaxQty /\ m \in Nat
  <2>1. h.qty > 0
    BY <1>2
  <2> QED
    BY <1>1, <2>1 DEF Fits, Orders
<1>4. p % Grain[m] = 0 /\ Grain[m] \in Nat \ {0}
  BY <1>3, PricesFit DEF Wanted
<1> HIDE DEF e, k, p, q
<1>5. k + q <= n * MaxQty /\ k + q \in 1 .. n * MaxQty
  <2>1. n = m + 1
    BY <1>1
  <2> HIDE DEF m
  <2>2. (m + 1) * MaxQty = m * MaxQty + MaxQty /\ m * MaxQty \in Nat
    BY <1>1, <1>3
  <2> QED
    BY <1>1, <1>2, <1>3, <2>1, <2>2
<1>6. Grain[m] % ((k + q) * Grain[n]) = 0
  <2>1. m \in 1 .. n - 1
    BY <1>1, <1>3 DEF Orders
  <2> QED
    BY <1>5, <2>1, GrainAssumption
<1>7. new = [h EXCEPT !.qty = k + q, !.cur = p, !.entry = avg]
  BY DEF e, k, p, q
<1> HIDE DEF m
<1>8. avg \in Nat /\ avg % Grain[n] = 0 /\ avg * (k + q) = e * k + p * q
  BY <1>1, <1>2, <1>3, <1>4, <1>6, Average
<1> HIDE DEF avg
<1>9. k + q \in Nat \ {0} /\ p \in Nat /\ r.side \in Sides
  BY <1>1, <1>2 DEF Wanted
<1>10. new.side = r.side /\ new.qty = k + q /\ new.entry = avg /\ new \in Positions
  BY <1>2, <1>7, <1>8, <1>9 DEF Positions
<1>11. Fits(new, n)
  BY <1>1, <1>5, <1>8, <1>9, <1>10 DEF Fits
<1>12. Cost(new) = IF r.side = "long" THEN e * k + p * q ELSE 0
  BY <1>8, <1>10 DEF Cost
<1>13. Cost(h) = IF r.side = "long" THEN e * k ELSE 0
  BY <1>2 DEF Cost, e, k
<1>14. e * k \in Int /\ p * q \in Int
  BY <1>1, <1>2
<1>15. Cost(new) - Cost(h) = IF r.side = "long" THEN p * q ELSE 0
  BY <1>12, <1>13, <1>14
<1> QED
  BY <1>11, <1>15 DEF p, q

\* An order that is covered leaves sound books.
LEMMA OpenedIsSound ==
  ASSUME NEW n \in Orders, NEW b, Sound(b, n - 1), NEW r, Wanted(r), Covered(b, r)
  PROVE  Sound(Opened(b, r), n)
<1> DEFINE a == r.asset
           h == b.pos[a]
           new == IF h.qty = 0 THEN [side |-> r.side, qty |-> r.qty, entry |-> r.price, cur |-> r.price]
                  ELSE [h EXCEPT !.qty = h.qty + r.qty, !.cur = r.price,
                                 !.entry = (h.entry * h.qty + r.price * r.qty) \div (h.qty + r.qty)]
           paid == IF r.side = "long" THEN r.price * r.qty ELSE 0
           c == [b EXCEPT !.pos[a] = new, !.cash = b.cash - paid]
<1>1. b \in Books /\ Balanced(b) /\ a \in Assets /\ Fits(h, n - 1) /\ b.cash \in Int /\ b.cash >= 0
  BY FieldsOfBook DEF Sound, Wanted, Balanced
<1>2. r.price * r.qty \in Nat /\ n \in Nat /\ n - 1 \in Nat /\ n - 1 <= n
  BY PricesFit DEF Wanted
<1>3. paid \in Nat /\ paid <= b.cash
  BY <1>1, <1>2 DEF Covered
<1>4. Opened(b, r) = c
  <2> DEFINE cash == IF r.side = "long" THEN b.cash - r.price * r.qty ELSE b.cash
  <2>1. Opened(b, r) = [b EXCEPT !.pos[a] = new, !.cash = cash]
    BY DEF Opened
  <2>2. cash = b.cash - paid
    BY <1>1, <1>2
  <2> HIDE DEF cash, paid, new
  <2> QED
    BY <2>1, <2>2
<1>5. Fits(new, n) /\ Cost(new) - Cost(h) = paid
  <2>1. CASE h.qty = 0
    <3> DEFINE first == [side |-> r.side, qty |-> r.qty, entry |-> r.price, cur |-> r.price]
    <3>1. new = first
      BY <2>1
    <3>2. Fits(first, n) /\ Cost(first) = paid
      BY FirstFits
    <3>3. h = NoPosition
      BY <1>1, <2>1 DEF Fits
    <3>4. Cost(h) = 0
      BY <3>3 DEF Cost, NoPosition
    <3> HIDE DEF new, first, paid, h
    <3> QED
      BY <1>3, <3>1, <3>2, <3>4
  <2>2. CASE h.qty # 0
    <3> DEFINE more == [h EXCEPT !.qty = h.qty + r.qty, !.cur = r.price,
                                 !.entry = (h.entry * h.qty + r.price * r.qty) \div (h.qty + r.qty)]
    <3>1. new = more
      BY <2>2
    <3>2. h.side = r.side
      BY <2>2 DEF Covered
    <3> HIDE DEF h
    <3>3. Fits(more, n) /\ Cost(more) - Cost(h) = paid
      BY <1>1, <2>2, <3>2, AveragedFits
    <3> HIDE DEF new, more, paid
    <3> QED
      BY <3>1, <3>3
  <2> QED
    BY <2>1, <2>2
<1>6. c = [cash |-> b.cash - paid, pos |-> [b.pos EXCEPT ![a] = new], closed |-> b.closed]
  <2> DEFINE cash == b.cash - paid
             pos == [b.pos EXCEPT ![a] = new]
  <2>1. b = [cash |-> b.cash, pos |-> b.pos, closed |-> b.closed]
    BY <1>1 DEF Books
  <2>2. c = [b EXCEPT !.pos = pos, !.cash = cash]
    OBVIOUS
  <2> HIDE DEF cash, pos, c
  <2>3. c = [cash |-> cash, pos |-> pos, closed |-> b.closed]
    BY <2>1, <2>2
  <2> QED
    BY <2>3 DEF cash, pos
<1>7. b.closed \in Seq(Trades) /\ Cost(h) \in Int /\ Cost(new) \in Int
  BY <1>1, <1>5, FieldsOfBook, FieldsOfPosition DEF Fits
<1> HIDE DEF new, paid, c
<1>8. Realized(c) = Realized(b) + 0
  <2>1. c.closed = b.closed
    BY <1>6
  <2> QED
    BY <1>1, <2>1, SameTrades
<1> DEFINE cash == b.cash - paid
<1>9. cash \in Int /\ cash >= 0 /\ cash - b.cash + Cost(new) - Cost(h) = 0
  BY <1>1, <1>3, <1>5, <1>7
<1>10. c = [cash |-> cash, pos |-> [b.pos EXCEPT ![a] = new], closed |-> b.closed]
  BY <1>6
<1>11. n <= MaxOrders /\ 0 \in Int
  BY PortfolioAssumption DEF Orders
<1> HIDE DEF cash, a
<1>12. Sound(c, n)
  BY <1>1, <1>2, <1>5, <1>7, <1>8, <1>9, <1>10, <1>11, BookChanged
<1> QED
  BY <1>4, <1>12

\* A part that is closed, what is left of it, and what it made.
RestOf(h, k, price) == IF k = h.qty THEN NoPosition ELSE [h EXCEPT !.qty = h.qty - k, !.cur = price]
TradeOf(h, k, price) == [side |-> h.side, qty |-> k, entry |-> h.entry, exit |-> price]
GainOf(t) == Gain(t.side, t.qty, t.entry, t.exit)

LEMMA ClosedFits ==
  ASSUME NEW n \in Nat, NEW h, Fits(h, n), NEW k \in Nat \ {0}, k <= h.qty, NEW price \in Nat
  PROVE  LET new == RestOf(h, k, price)  t == TradeOf(h, k, price) IN
         /\ Fits(new, n) /\ t \in Trades /\ price * k \in Nat /\ Cost(new) \in Int /\ Cost(h) \in Int
         /\ GainOf(t) = (IF h.side = "long" THEN price * k ELSE 0) + Cost(new) - Cost(h)
<1> DEFINE q == h.qty
           e == h.entry
           new == RestOf(h, k, price)
           t == TradeOf(h, k, price)
<1>1. h \in Positions /\ q \in Nat /\ e \in Nat /\ h.side \in Sides /\ q > 0 /\ Cost(h) \in Int
      /\ n \in Orders /\ e % Grain[n] = 0 /\ q <= n * MaxQty
  <2>1. h \in Positions /\ h.qty \in Nat /\ h.entry \in Nat /\ Cost(h) \in Int
    BY FieldsOfPosition DEF Fits
  <2>2. h.qty > 0
    BY <2>1
  <2> QED
    BY <2>1, <2>2 DEF Fits
<1>2. t \in Trades /\ t.side = h.side /\ t.qty = k /\ t.entry = e /\ t.exit = price
  BY <1>1 DEF Trades, TradeOf
<1>3. Cost(h) = IF h.side = "long" THEN e * q ELSE 0
  BY DEF Cost
<1>4. Fits(new, n) /\ Cost(new) = IF h.side = "long" THEN e * (q - k) ELSE 0
  <2>1. CASE k = q
    <3>1. new = NoPosition
      BY <2>1 DEF RestOf
    <3>2. Cost(new) = 0
      BY <3>1, NoPositionFits
    <3>3. e * (q - k) = 0
      <4>1. q - k = 0
        BY <1>1, <2>1
      <4> QED
        BY <1>1, <4>1
    <3> QED
      BY <3>1, <3>2, <3>3, NoPositionFits
  <2>2. CASE k # q
    <3> DEFINE rest == q - k
    <3>1. rest \in Nat \ {0} /\ rest <= q
      BY <1>1, <2>2
    <3>2. new = [h EXCEPT !.qty = rest, !.cur = price]
      BY <2>2 DEF RestOf
    <3> HIDE DEF rest, new
    <3>3. new \in Positions /\ new.side = h.side /\ new.qty = rest /\ new.entry = e
      BY <1>1, <3>1, <3>2 DEF Positions
    <3>4. rest <= n * MaxQty
      <4>1. n * MaxQty \in Nat
        BY PortfolioAssumption
      <4> HIDE DEF q
      <4> QED
        BY <1>1, <3>1, <4>1
    <3>5. Fits(new, n)
      BY <1>1, <3>1, <3>3, <3>4 DEF Fits
    <3>6. Cost(new) = IF h.side = "long" THEN e * rest ELSE 0
      BY <3>3 DEF Cost
    <3> QED
      BY <3>5, <3>6 DEF rest
  <2> QED
    BY <2>1, <2>2
<1>5. GainOf(t) = IF h.side = "long" THEN (price - e) * k ELSE 0
  BY <1>2 DEF GainOf, Gain, Profit
<1> HIDE DEF q, e, new, t
<1>6. (price - e) * k = price * k + e * (q - k) - e * q /\ price * k \in Nat /\ e * (q - k) \in Int /\ e * q \in Int
  <2>1. (price - e) * k = price * k - e * k /\ e * (q - k) = e * q - e * k /\ e * k \in Int /\ e * q \in Int /\ price * k \in Nat
    BY <1>1
  <2> QED
    BY <2>1
<1>7. GainOf(t) = (IF h.side = "long" THEN price * k ELSE 0) + Cost(new) - Cost(h)
  BY <1>3, <1>4, <1>5, <1>6
<1>8. Cost(new) \in Int
  BY <1>4, <1>6
<1> QED
  BY <1>1, <1>2, <1>4, <1>6, <1>7, <1>8 DEF new, t

\* A close leaves sound books, whatever it is asked to close.
LEMMA ClosedIsSound ==
  ASSUME NEW n \in Orders, NEW b, Sound(b, n - 1), NEW r, Wanted(r)
  PROVE  Sound(ClosedPart(b, r), n)
<1> DEFINE a == r.asset
           h == b.pos[a]
           k == IF r.qty < h.qty THEN r.qty ELSE h.qty
           new == RestOf(h, k, r.price)
           t == TradeOf(h, k, r.price)
           cash == IF h.side = "long" THEN b.cash + r.price * k ELSE b.cash
           c == [b EXCEPT !.closed = Append(b.closed, t), !.cash = cash, !.pos[a] = new]
<1> DEFINE m == n - 1
<1>1. /\ b \in Books /\ Balanced(b) /\ a \in Assets /\ Fits(h, m) /\ b.cash \in Int /\ b.cash >= 0
      /\ b.closed \in Seq(Trades)
  BY FieldsOfBook DEF Sound, Wanted, Balanced
<1>2. n \in Nat /\ m \in Nat /\ m <= n /\ n <= MaxOrders
  BY PortfolioAssumption DEF Orders
<1>3. CASE h.qty = 0
  <2>1. ClosedPart(b, r) = b
    BY <1>3 DEF ClosedPart, Closed0
  <2> HIDE DEF m
  <2>2. Sound(b, m)
    BY DEF m
  <2> QED
    BY <1>2, <2>1, <2>2, SoundLater
<1>4. CASE h.qty # 0
  <2>1. ClosedPart(b, r) = c
    BY <1>4 DEF ClosedPart, Closed0, RestOf, TradeOf
  <2>2. h.qty \in Nat /\ r.qty \in Nat \ {0} /\ r.price \in Nat
    BY <1>1, FieldsOfPosition, WantedFits DEF Fits
  <2>3. k \in Nat \ {0} /\ k <= h.qty
    BY <1>4, <2>2
  <2>4. c = [cash |-> cash, pos |-> [b.pos EXCEPT ![a] = new], closed |-> Append(b.closed, t)]
    <3> DEFINE pos == [b.pos EXCEPT ![a] = new]
               closed == Append(b.closed, t)
    <3>1. b = [cash |-> b.cash, pos |-> b.pos, closed |-> b.closed]
      BY <1>1 DEF Books
    <3>2. c = [b EXCEPT !.closed = closed, !.cash = cash, !.pos = pos]
      OBVIOUS
    <3> HIDE DEF cash, pos, closed, c
    <3>3. c = [cash |-> cash, pos |-> pos, closed |-> closed]
      BY <3>1, <3>2
    <3> QED
      BY <3>3 DEF pos, closed
  <2> HIDE DEF k, h
  <2>5. /\ Fits(new, m) /\ t \in Trades /\ r.price * k \in Nat /\ Cost(new) \in Int /\ Cost(h) \in Int
        /\ GainOf(t) = (IF h.side = "long" THEN r.price * k ELSE 0) + Cost(new) - Cost(h)
    <3> HIDE DEF m
    <3> QED
      BY <1>1, <1>2, <2>2, <2>3, ClosedFits
  <2> DEFINE made == GainOf(t)
  <2> HIDE DEF new, t, made
  <2>6. made \in Int /\ cash \in Int /\ cash >= 0 /\ cash - b.cash + Cost(new) - Cost(h) = made
    <3>1. made = (IF h.side = "long" THEN r.price * k ELSE 0) + Cost(new) - Cost(h)
      BY <2>5 DEF made
    <3> QED
      BY <1>1, <2>5, <3>1
  <2> HIDE DEF cash, c
  <2>7. Append(b.closed, t) \in Seq(Trades)
    BY <1>1, <2>5
  <2>8. Realized(c) = Realized(b) + made
    <3>1. c.closed = Append(b.closed, t)
      BY <2>4
    <3>2. c \in Books
      <4> DEFINE pos == [b.pos EXCEPT ![a] = new]
      <4>1. b.pos \in [Assets -> Positions] /\ new \in Positions
        BY <1>1, <2>5, FieldsOfBook DEF Fits
      <4>2. pos \in [Assets -> Positions]
        BY <1>1, <4>1
      <4>3. c = [cash |-> cash, pos |-> pos, closed |-> Append(b.closed, t)]
        BY <2>4
      <4> HIDE DEF pos
      <4> QED
        BY <2>6, <2>7, <4>2, <4>3 DEF Books
    <3> QED
      BY <1>1, <2>5, <3>1, <3>2, TradeAdded DEF made, GainOf
  <2>9. Sound(b, m)
    OBVIOUS
  <2>10. Fits(new, n)
    <3> HIDE DEF m
    <3> QED
      BY <1>2, <2>5, FitsLater
  <2>11. cash - b.cash + Cost(new) - Cost(b.pos[a]) = made
    BY <2>6 DEF h
  <2> DEFINE closed == Append(b.closed, t)
  <2>12. closed \in Seq(Trades) /\ c = [cash |-> cash, pos |-> [b.pos EXCEPT ![a] = new], closed |-> closed]
    BY <2>4, <2>7
  <2> HIDE DEF m, a, closed
  <2>13. Sound(c, n)
    BY <1>1, <1>2, <2>6, <2>8, <2>9, <2>10, <2>11, <2>12, BookChanged
  <2> QED
    BY <2>1, <2>13
<1> QED
  BY <1>3, <1>4

\* A mark leaves sound books.
LEMMA MarkedIsSound ==
  ASSUME NEW n \in Nat, n <= MaxOrders, NEW b, Sound(b, n), NEW a \in Assets, b.pos[a].qty > 0, NEW price \in Nat
  PROVE  Sound([b EXCEPT !.pos[a].cur = price], n)
<1> DEFINE c == [b EXCEPT !.pos[a].cur = price]
<1> DEFINE h == b.pos[a]
           new == [h EXCEPT !.cur = price]
           pos == [b.pos EXCEPT ![a] = new]
<1>1. b \in Books /\ Balanced(b) /\ Fits(h, n) /\ b.cash \in Int /\ b.cash >= 0 /\ b.closed \in Seq(Trades)
  BY FieldsOfBook DEF Sound, Balanced
<1>2. h \in Positions /\ h.qty > 0
  BY <1>1 DEF Fits
<1>3. c = [b EXCEPT !.pos = pos]
  OBVIOUS
<1> HIDE DEF h
<1>4. new \in Positions /\ new.side = h.side /\ new.qty = h.qty /\ new.entry = h.entry
  BY <1>2 DEF Positions
<1>5. Fits(new, n) /\ Cost(new) = Cost(h) /\ Cost(h) \in Int
  <2> HIDE DEF new
  <2> QED
    BY <1>1, <1>2, <1>4, FieldsOfPosition DEF Fits, Cost
<1>6. c = [cash |-> b.cash, pos |-> pos, closed |-> b.closed]
  <2>1. b = [cash |-> b.cash, pos |-> b.pos, closed |-> b.closed]
    BY <1>1 DEF Books
  <2> HIDE DEF pos
  <2> QED
    BY <1>3, <2>1
<1> HIDE DEF new
<1>7. c = [cash |-> b.cash, pos |-> [b.pos EXCEPT ![a] = new], closed |-> b.closed]
  BY <1>6
<1> HIDE DEF c
<1>8. Realized(c) = Realized(b) + 0
  <2>1. c.closed = b.closed
    BY <1>7
  <2> QED
    BY <1>1, <2>1, SameTrades
<1>9. b.cash - b.cash + Cost(new) - Cost(b.pos[a]) = 0 /\ 0 \in Int
  BY <1>1, <1>5 DEF h
<1>10. n <= n
  OBVIOUS
<1> DEFINE cash == b.cash
           closed == b.closed
<1>11. /\ cash \in Int /\ cash >= 0 /\ closed \in Seq(Trades) /\ cash - b.cash + Cost(new) - Cost(b.pos[a]) = 0
       /\ c = [cash |-> cash, pos |-> [b.pos EXCEPT ![a] = new], closed |-> closed]
  BY <1>1, <1>7, <1>9
<1> HIDE DEF cash, closed
<1>12. Sound(c, n)
  BY <1>5, <1>8, <1>9, <1>10, <1>11, BookChanged
<1> QED
  BY <1>12 DEF c

-----------------------------------------------------------------------------
(* Of one order of a process at a time, each finds what it decided on, and *)
(* after n orders that are filled or over every book is sound: those in    *)
(* memory, on the disk, and on the way to it.                              *)

OrderRecs ==
  [at : OrderStates, by : Processes, asset : Assets, side : Sides, qty : Nat, price : Nat,
   does : {"none", "open", "close"}, saves : Books]
Active(r) == r.at \notin {"new", "over"}
Past == {o \in Orders : order[o].at \in {"save", "write", "over"}}

FolioType ==
  /\ placed \in 0 .. MaxOrders /\ book \in [Processes -> Books] /\ order \in [Orders -> OrderRecs]
AllSound ==
  LET n == Cardinality(Past) IN
  /\ \A p \in Processes : Sound(book[p], n)
  /\ disk = Torn \/ Sound(disk, n)
  /\ \A o \in Orders : order[o].at \in {"save", "write"} => Sound(order[o].saves, n)
OrdersFit ==
  /\ \A o \in Orders : Active(order[o]) => Wanted(order[o])
  /\ \A o \in Orders : order[o].at = "fill" /\ order[o].does # "close" => Covered(book[order[o].by], order[o])
  /\ \A o \in Orders : o > placed => order[o].at = "new"
OneAtATime == \A o, u \in Orders : Active(order[o]) /\ Active(order[u]) /\ order[o].by = order[u].by => o = u
FolioInv == FolioType /\ AllSound /\ OrdersFit /\ OneAtATime

LEMMA OrdersAreFinite ==
  /\ IsFiniteSet(Orders) /\ Cardinality(Orders) = MaxOrders /\ MaxOrders \in Nat
  /\ \A S \in SUBSET Orders : IsFiniteSet(S) /\ Cardinality(S) \in Nat /\ Cardinality(S) <= MaxOrders
  /\ \A S, T \in SUBSET Orders : S \subseteq T => Cardinality(S) <= Cardinality(T)
<1>1. MaxOrders \in Nat
  BY PortfolioAssumption
<1>2. IsFiniteSet(Orders) /\ Cardinality(Orders) = MaxOrders
  BY <1>1, FS_Interval DEF Orders
<1>3. ASSUME NEW S \in SUBSET Orders PROVE IsFiniteSet(S) /\ Cardinality(S) \in Nat /\ Cardinality(S) <= MaxOrders
  BY <1>2, FS_Subset, FS_CardinalityType
<1>4. ASSUME NEW S \in SUBSET Orders, NEW T \in SUBSET Orders, S \subseteq T PROVE Cardinality(S) <= Cardinality(T)
  BY <1>3, <1>4, FS_Subset
<1> QED
  BY <1>1, <1>2, <1>3, <1>4

\* While the past only grows, what was sound is sound.
LEMMA StillSound ==
  ASSUME AllSound, Past \subseteq Past'
  PROVE  LET n == Cardinality(Past') IN
         /\ \A p \in Processes : Sound(book[p], n)
         /\ disk = Torn \/ Sound(disk, n)
         /\ \A o \in Orders : order[o].at \in {"save", "write"} => Sound(order[o].saves, n)
         /\ n \in Nat /\ n <= MaxOrders
<1> DEFINE m == Cardinality(Past)
           n == Cardinality(Past')
<1>1. Past \in SUBSET Orders /\ Past' \in SUBSET Orders
  BY DEF Past
<1>2. m \in Nat /\ n \in Nat /\ m <= n /\ n <= MaxOrders
  BY <1>1, OrdersAreFinite
<1>3. /\ \A p \in Processes : Sound(book[p], m)
      /\ disk = Torn \/ Sound(disk, m)
      /\ \A o \in Orders : order[o].at \in {"save", "write"} => Sound(order[o].saves, m)
  BY DEF AllSound
<1> HIDE DEF m, n
<1>4. \A b : Sound(b, m) => Sound(b, n)
  BY <1>2, SoundLater
<1>5. /\ \A p \in Processes : Sound(book[p], n)
      /\ disk = Torn \/ Sound(disk, n)
      /\ \A o \in Orders : order[o].at \in {"save", "write"} => Sound(order[o].saves, n)
  BY <1>3, <1>4
<1> QED
  BY <1>2, <1>5 DEF n

LEMMA FieldsOfOrder ==
  ASSUME NEW r \in OrderRecs
  PROVE  /\ r.at \in OrderStates /\ r.by \in Processes /\ r.asset \in Assets /\ r.side \in Sides /\ r.qty \in Nat
         /\ r.price \in Nat /\ r.does \in {"none", "open", "close"} /\ r.saves \in Books
BY DEF OrderRecs

LEMMA NoOrderIs ==
  /\ NoOrder \in OrderRecs /\ NoOrder.at = "new" /\ NoOrder.does = "none"
  /\ Over \in OrderRecs /\ Over.at = "over"
<1>1. (CHOOSE p \in Processes : TRUE) \in Processes /\ (CHOOSE a \in Assets : TRUE) \in Assets
  BY PortfolioAssumption
<1>2. Fresh0 \in Books
  BY FreshIsSound DEF Sound
<1>3. NoOrder \in OrderRecs /\ NoOrder.at = "new" /\ NoOrder.does = "none"
  BY <1>1, <1>2 DEF NoOrder, OrderRecs, OrderStates, Sides
<1>4. Over \in OrderRecs /\ Over.at = "over"
  BY <1>3 DEF Over, OrderRecs, OrderStates
<1> QED
  BY <1>3, <1>4

LEMMA FolioStarts ==
  ASSUME FolioInit
  PROVE  FolioInv
<1>1. /\ book = [p \in Processes |-> Fresh0] /\ disk = Fresh0 /\ placed = 0
      /\ order = [o \in Orders |-> NoOrder]
  BY DEF FolioInit
<1>2. \A o \in Orders : order[o].at = "new"
  BY <1>1, NoOrderIs
<1>3. FolioType
  <2>1. Fresh0 \in Books /\ MaxOrders \in Nat
    BY FreshIsSound, PortfolioAssumption DEF Sound
  <2> QED
    BY <1>1, <2>1, NoOrderIs DEF FolioType
<1>4. AllSound
  BY <1>1, <1>2, FreshIsSound DEF AllSound
<1>5. OrdersFit /\ OneAtATime
  BY <1>2 DEF OrdersFit, OneAtATime, Active
<1> QED
  BY <1>3, <1>4, <1>5 DEF FolioInv

\* An order that goes on; only the book of its process may change.
LEMMA OrderGoesOn ==
  ASSUME FolioInv, NEW o \in Orders, Active(order[o]), NEW r \in OrderRecs, order' = [order EXCEPT ![o] = r],
         placed' = placed, book' \in [Processes -> Books],
         \A p \in Processes \ {order[o].by} : book'[p] = book[p],
         r.at \notin {"new", "priced"}, order[o].at \in {"save", "write"} => r.at \in {"save", "write", "over"},
         Active(r) => r.by = order[o].by /\ Wanted(r),
         r.at = "fill" /\ r.does # "close" => Covered(book'[r.by], r)
  PROVE  /\ FolioType' /\ OrdersFit' /\ OneAtATime' /\ Past \subseteq Past'
         /\ order'[o] = r /\ \A u \in Orders \ {o} : order'[u] = order[u]
<1>1. FolioType /\ OrdersFit /\ OneAtATime
  BY DEF FolioInv
<1>2. order'[o] = r /\ (\A u \in Orders \ {o} : order'[u] = order[u]) /\ order' \in [Orders -> OrderRecs]
  BY <1>1 DEF FolioType
<1>3. FolioType'
  BY <1>1, <1>2 DEF FolioType
<1>4. Past \subseteq Past'
  BY <1>2 DEF Past, Active
<1>5. OneAtATime'
  BY <1>1, <1>2 DEF OneAtATime
<1>6. OrdersFit'
  <2>1. \A u \in Orders : Active(order'[u]) => Wanted(order'[u])
    BY <1>1, <1>2 DEF OrdersFit
  <2>2. ASSUME NEW u \in Orders, order'[u].at = "fill", order'[u].does # "close"
        PROVE  Covered(book'[order'[u].by], order'[u])
    <3>1. CASE u = o
      BY <1>2, <2>2, <3>1 DEF Active
    <3>2. CASE u # o
      <4>1. order'[u] = order[u] /\ Active(order[u]) /\ order[u].by \in Processes
        BY <1>1, <1>2, <2>2, <3>2, FieldsOfOrder DEF Active, FolioType
      <4>2. order[u].by # order[o].by
        BY <1>1, <3>2, <4>1 DEF OneAtATime
      <4>3. book'[order[u].by] = book[order[u].by]
        BY <4>1, <4>2
      <4>4. Covered(book[order[u].by], order[u])
        BY <1>1, <2>2, <4>1 DEF OrdersFit
      <4> QED
        BY <4>1, <4>3, <4>4
    <3> QED
      BY <3>1, <3>2
  <2>3. \A u \in Orders : u > placed' => order'[u].at = "new"
    <3>1. order[o].at # "new"
      BY DEF Active
    <3> QED
      BY <1>1, <1>2, <3>1 DEF OrdersFit
  <2> QED
    BY <2>1, <2>2, <2>3 DEF OrdersFit
<1> QED
  BY <1>2, <1>3, <1>4, <1>5, <1>6

LEMMA PlaceKeeps ==
  ASSUME FolioInv, Parallel = 1, NEW p \in Processes, NEW a \in Assets, NEW side \in Sides, NEW qty \in 1 .. MaxQty,
         NEW price \in Prices, PlaceOrder(p, a, side, qty, price)
  PROVE  FolioInv'
<1>1. FolioType /\ AllSound /\ OrdersFit /\ OneAtATime
  BY DEF FolioInv
<1> DEFINE k == placed + 1
           r == [NoOrder EXCEPT !.at = "priced", !.by = p, !.asset = a, !.side = side, !.qty = qty, !.price = price]
<1>2. /\ placed < MaxOrders /\ placed' = k /\ Cardinality(Threads(p)) < 1 /\ order' = [order EXCEPT ![k] = r]
      /\ book' = book /\ disk' = disk
  BY DEF PlaceOrder
<1>3. MaxOrders \in Nat /\ placed \in 0 .. MaxOrders /\ MaxQty \in Nat /\ Prices \subseteq Nat
  BY <1>1, PortfolioAssumption DEF FolioType
<1>4. k \in Orders /\ k > placed /\ k \in 0 .. MaxOrders
  BY <1>2, <1>3 DEF Orders
<1> HIDE DEF k
<1>5. order[k].at = "new"
  BY <1>1, <1>4 DEF OrdersFit
<1>6. /\ r \in OrderRecs /\ r.at = "priced" /\ r.by = p /\ r.asset = a /\ r.side = side /\ r.qty = qty /\ r.price = price
  <2>1. NoOrder \in OrderRecs /\ qty \in Nat /\ price \in Nat
    BY <1>3, NoOrderIs
  <2> QED
    BY <2>1 DEF OrderRecs, OrderStates
<1> HIDE DEF r
<1>7. Wanted(r)
  BY <1>3, <1>6 DEF Wanted
<1>8. order'[k] = r /\ (\A u \in Orders \ {k} : order'[u] = order[u]) /\ order' \in [Orders -> OrderRecs]
  BY <1>1, <1>2, <1>4, <1>6 DEF FolioType
<1>9. FolioType'
  BY <1>1, <1>2, <1>4, <1>8 DEF FolioType
<1>10. Past' = Past
  BY <1>4, <1>5, <1>6, <1>8 DEF Past
<1>11. AllSound'
  <2>1. \A o \in Orders : order'[o].at \in {"save", "write"} => order'[o] = order[o]
    BY <1>6, <1>8
  <2> QED
    BY <1>1, <1>2, <1>10, <2>1 DEF AllSound
<1>12. Threads(p) = {}
  <2>1. Threads(p) \in SUBSET Orders
    BY DEF Threads
  <2>2. IsFiniteSet(Threads(p)) /\ Cardinality(Threads(p)) = 0
    BY <1>2, <2>1, OrdersAreFinite
  <2> QED
    BY <2>2, FS_EmptySet
<1>13. OneAtATime'
  <2>1. \A o \in Orders : Active(order[o]) => order[o].by # p
    BY <1>12 DEF Threads, Active
  <2> QED
    BY <1>1, <1>6, <1>8, <2>1 DEF OneAtATime
<1>14. OrdersFit'
  <2>1. \A u \in Orders : Active(order'[u]) => Wanted(order'[u])
    BY <1>1, <1>7, <1>8 DEF OrdersFit
  <2>2. \A u \in Orders : order'[u].at = "fill" => order'[u] = order[u]
    BY <1>6, <1>8
  <2>3. \A u \in Orders : u > placed' => u > placed /\ u # k
    BY <1>2, <1>3, <1>4 DEF Orders, k
  <2> QED
    BY <1>1, <1>2, <1>8, <2>1, <2>2, <2>3 DEF OrdersFit
<1> QED
  BY <1>9, <1>11, <1>13, <1>14 DEF FolioInv

LEMMA DecidesKeeps ==
  ASSUME FolioInv, NEW o \in Orders, Decides(o)
  PROVE  FolioInv'
<1>1. FolioType /\ AllSound /\ OrdersFit /\ OneAtATime
  BY DEF FolioInv
<1> DEFINE q == order[o]
           b == book[q.by]
           h == b.pos[q.asset]
           r == IF h.qty > 0 /\ h.side # q.side THEN [q EXCEPT !.at = "fill", !.does = "close"]
                ELSE IF q.side = "long" /\ q.price * q.qty > b.cash THEN Over
                ELSE [q EXCEPT !.at = "fill", !.does = "open"]
<1>2. q.at = "priced" /\ order' = [order EXCEPT ![o] = r] /\ book' = book /\ disk' = disk /\ placed' = placed
  BY DEF Decides, At
<1>3. q \in OrderRecs /\ Active(q) /\ Wanted(q) /\ b \in Books /\ h \in Positions /\ q.by \in Processes
  <2>1. q \in OrderRecs /\ Active(q) /\ Wanted(q) /\ q.by \in Processes
    BY <1>1, <1>2, FieldsOfOrder DEF FolioType, OrdersFit, Active
  <2>2. b \in Books
    BY <1>1, <2>1 DEF FolioType
  <2> QED
    BY <2>1, <2>2, FieldsOfBook DEF Wanted
<1>4. h.qty \in Nat /\ b.cash \in Int /\ q.price * q.qty \in Int
  BY <1>3, FieldsOfPosition, FieldsOfBook, FieldsOfOrder
<1> DEFINE closes == [q EXCEPT !.at = "fill", !.does = "close"]
           opens == [q EXCEPT !.at = "fill", !.does = "open"]
<1>5. r = closes \/ r = Over \/ (r = opens /\ (h.qty = 0 \/ h.side = q.side) /\ (q.side = "long" => q.price * q.qty <= b.cash))
  <2> HIDE DEF h, b, q
  <2> QED
    BY <1>4
<1> HIDE DEF q
<1>6. /\ closes \in OrderRecs /\ closes.at = "fill" /\ closes.does = "close" /\ closes.by = q.by /\ Wanted(closes)
      /\ opens \in OrderRecs /\ opens.at = "fill" /\ opens.by = q.by /\ Wanted(opens)
      /\ opens.side = q.side /\ opens.asset = q.asset /\ opens.price = q.price /\ opens.qty = q.qty
  BY <1>3 DEF OrderRecs, OrderStates, Wanted
<1> HIDE DEF closes, opens, r
<1>7. /\ r \in OrderRecs /\ r.at \in {"fill", "over"} /\ (Active(r) => r.by = q.by /\ Wanted(r))
      /\ r.at = "fill" /\ r.does # "close" => Covered(b, r) /\ r.by = q.by
  <2>1. CASE r = Over
    BY <2>1, NoOrderIs DEF Active
  <2>2. CASE r = closes
    BY <1>6, <2>2
  <2>3. CASE r = opens /\ (h.qty = 0 \/ h.side = q.side) /\ (q.side = "long" => q.price * q.qty <= b.cash)
    BY <1>6, <2>3 DEF Covered
  <2> QED
    BY <1>5, <2>1, <2>2, <2>3
<1>8. /\ FolioType' /\ OrdersFit' /\ OneAtATime' /\ Past \subseteq Past'
      /\ order'[o] = r /\ \A u \in Orders \ {o} : order'[u] = order[u]
  <2>1. order[o].at = "priced" /\ Active(order[o]) /\ order[o].by = q.by /\ book' \in [Processes -> Books]
    BY <1>1, <1>2, <1>3 DEF q, FolioType
  <2>2. r.at = "fill" /\ r.does # "close" => Covered(book'[r.by], r)
    BY <1>2, <1>7
  <2> HIDE DEF b, h
  <2> QED
    BY <1>2, <1>7, <2>1, <2>2, OrderGoesOn
<1>9. AllSound'
  <2>1. \A u \in Orders : order'[u].at \in {"save", "write"} => order'[u] = order[u]
    BY <1>7, <1>8
  <2> QED
    BY <1>1, <1>2, <1>8, <2>1, StillSound DEF AllSound
<1> QED
  BY <1>8, <1>9 DEF FolioInv

LEMMA FillsKeeps ==
  ASSUME FolioInv, NEW o \in Orders, Fills(o)
  PROVE  FolioInv'
<1>1. FolioType /\ AllSound /\ OrdersFit /\ OneAtATime
  BY DEF FolioInv
<1> DEFINE q == order[o]
           b == book[q.by]
           new == IF q.does = "open" THEN Opened(b, q) ELSE ClosedPart(b, q)
           saves == [q EXCEPT !.at = "save", !.saves = new]
           r == IF new = b /\ q.does = "close" THEN Over ELSE saves
           n == Cardinality(Past')
<1>2. /\ q.at = "fill" /\ book' = [book EXCEPT ![q.by] = new] /\ order' = [order EXCEPT ![o] = r]
      /\ disk' = disk /\ placed' = placed
  BY DEF Fills, At
<1>3. q \in OrderRecs /\ Active(q) /\ Wanted(q) /\ q.by \in Processes /\ q.does \in {"none", "open", "close"}
  BY <1>1, <1>2, FieldsOfOrder DEF FolioType, OrdersFit, Active
<1>4. q.does # "close" => Covered(b, q)
  BY <1>1, <1>2 DEF OrdersFit
<1> DEFINE m == Cardinality(Past)
<1>5. Sound(b, m) /\ m \in Nat
  <2>1. Past \in SUBSET Orders
    BY DEF Past
  <2> QED
    BY <1>1, <1>3, <2>1, OrdersAreFinite DEF AllSound
<1> HIDE DEF q
<1>6. order'[o] = r /\ \A u \in Orders \ {o} : order'[u] = order[u]
  BY <1>1, <1>2 DEF FolioType
<1>7. r.at \in {"save", "over"}
  <2>1. saves.at = "save"
    BY <1>3 DEF OrderRecs
  <2> HIDE DEF saves, new, b
  <2> QED
    BY <2>1, NoOrderIs
<1> HIDE DEF r, n
<1>8. n \in Orders /\ m <= n - 1 /\ n - 1 \in Nat /\ n - 1 <= MaxOrders /\ Past \subseteq Past'
  <2>1. o \notin Past /\ Past \union {o} \subseteq Past'
    BY <1>2, <1>6, <1>7 DEF Past, q
  <2>2. Past \in SUBSET Orders /\ Past' \in SUBSET Orders
    BY DEF Past
  <2>3. Cardinality(Past \union {o}) = m + 1
    BY <2>1, <2>2, OrdersAreFinite, FS_AddElement
  <2>4. Cardinality(Past \union {o}) <= n /\ n <= MaxOrders /\ n \in Nat
    BY <2>1, <2>2, OrdersAreFinite DEF n
  <2> QED
    BY <1>5, <2>1, <2>3, <2>4, OrdersAreFinite DEF Orders
<1> HIDE DEF m
<1>9. Sound(b, n - 1)
  <2> DEFINE k == n - 1
  <2>1. k \in Nat /\ m <= k /\ k <= MaxOrders
    BY <1>8
  <2> HIDE DEF k, b
  <2>2. Sound(b, k)
    BY <1>5, <2>1, SoundLater
  <2> QED
    BY <2>2 DEF k
<1> HIDE DEF b
<1>10. Sound(new, n)
  <2>1. CASE q.does = "open"
    BY <1>3, <1>4, <1>8, <1>9, <2>1, OpenedIsSound
  <2>2. CASE q.does # "open"
    BY <1>3, <1>8, <1>9, <2>2, ClosedIsSound
  <2> QED
    BY <2>1, <2>2
<1> HIDE DEF new
<1>11. new \in Books
  BY <1>10 DEF Sound
<1>12. /\ saves \in OrderRecs /\ saves.at = "save" /\ saves.by = q.by /\ Wanted(saves) /\ saves.saves = new
  BY <1>3, <1>11 DEF OrderRecs, OrderStates, Wanted
<1> HIDE DEF saves
<1>13. /\ r \in OrderRecs /\ (Active(r) => r.by = q.by /\ Wanted(r)) /\ (r.at = "save" => r.saves = new)
  BY <1>12, NoOrderIs DEF r, Active
<1>14. /\ book' \in [Processes -> Books] /\ book'[q.by] = new
       /\ \A p \in Processes \ {q.by} : book'[p] = book[p]
  BY <1>1, <1>2, <1>3, <1>11 DEF FolioType
<1>15. /\ FolioType' /\ OrdersFit' /\ OneAtATime'
  <2>1. order[o].at = "fill" /\ Active(order[o]) /\ order[o].by = q.by
    BY <1>2, <1>3 DEF q
  <2> QED
    BY <1>2, <1>7, <1>13, <1>14, <2>1, OrderGoesOn
<1>16. AllSound'
  <2>1. /\ \A p \in Processes : Sound(book[p], n)
        /\ disk = Torn \/ Sound(disk, n)
        /\ \A u \in Orders : order[u].at \in {"save", "write"} => Sound(order[u].saves, n)
    BY <1>1, <1>8, StillSound DEF n
  <2>2. \A p \in Processes : Sound(book'[p], n)
    BY <1>10, <1>14, <2>1
  <2>3. \A u \in Orders : order'[u].at \in {"save", "write"} => Sound(order'[u].saves, n)
    BY <1>6, <1>7, <1>10, <1>13, <2>1
  <2> QED
    BY <1>2, <2>1, <2>2, <2>3 DEF AllSound, n
<1> QED
  BY <1>15, <1>16 DEF FolioInv

\* A step of a save, or the end of it.
LEMMA SaveStep ==
  ASSUME FolioInv, NEW o \in Orders, order[o].at \in {"save", "write"}, NEW r \in OrderRecs,
         r.at = "over" \/ r = [order[o] EXCEPT !.at = "write"],
         order' = [order EXCEPT ![o] = r], book' = book, placed' = placed,
         disk' \in {disk, Torn, order[o].saves}
  PROVE  FolioInv'
<1>1. FolioType /\ AllSound /\ OrdersFit /\ OneAtATime
  BY DEF FolioInv
<1>2. order[o] \in OrderRecs /\ Active(order[o]) /\ Wanted(order[o])
  BY <1>1 DEF FolioType, Active, OrdersFit
<1> DEFINE w == [order[o] EXCEPT !.at = "write"]
<1>3. w.at = "write" /\ w.by = order[o].by /\ w.saves = order[o].saves /\ Wanted(w)
  BY <1>2 DEF OrderRecs, Wanted
<1> HIDE DEF w
<1>4. r.at = "over" \/ r = w
  BY DEF w
<1>5. /\ r.at \in {"write", "over"} /\ (Active(r) => r.by = order[o].by /\ Wanted(r))
      /\ r.at = "write" => r.saves = order[o].saves
  BY <1>3, <1>4 DEF Active
<1>6. /\ FolioType' /\ OrdersFit' /\ OneAtATime' /\ Past \subseteq Past'
      /\ order'[o] = r /\ \A u \in Orders \ {o} : order'[u] = order[u]
  <2>1. book' \in [Processes -> Books] /\ \A p \in Processes \ {order[o].by} : book'[p] = book[p]
    BY <1>1 DEF FolioType
  <2>2. r.at \notin {"new", "priced", "fill"}
    BY <1>5
  <2> QED
    BY <1>2, <1>5, <2>1, <2>2, OrderGoesOn
<1> DEFINE n == Cardinality(Past')
<1>7. /\ \A p \in Processes : Sound(book[p], n)
      /\ disk = Torn \/ Sound(disk, n)
      /\ \A u \in Orders : order[u].at \in {"save", "write"} => Sound(order[u].saves, n)
  BY <1>1, <1>6, StillSound
<1> HIDE DEF n
<1>8. \A u \in Orders : order'[u].at \in {"save", "write"} => Sound(order'[u].saves, n)
  BY <1>5, <1>6, <1>7
<1>9. disk' = Torn \/ Sound(disk', n)
  BY <1>7
<1>10. AllSound'
  BY <1>7, <1>8, <1>9 DEF AllSound, n
<1> QED
  BY <1>6, <1>10 DEF FolioInv

LEMMA SavesKeep ==
  ASSUME FolioInv, NEW o \in Orders, Truncates(o) \/ WritesFile(o) \/ SaveFails(o)
  PROVE  FolioInv'
<1>1. FolioType /\ order \in [Orders -> OrderRecs]
  BY DEF FolioInv, FolioType
<1>2. CASE Truncates(o)
  <2> DEFINE r == [order[o] EXCEPT !.at = "write"]
  <2>1. order[o].at = "save" /\ disk' = Torn /\ order' = [order EXCEPT ![o] = r] /\ book' = book /\ placed' = placed
    BY <1>1, <1>2 DEF Truncates, At
  <2>2. r \in OrderRecs
    <3>1. order[o] \in OrderRecs
      BY <1>1
    <3> QED
      BY <3>1 DEF OrderRecs, OrderStates
  <2>3. r = [order[o] EXCEPT !.at = "write"]
    OBVIOUS
  <2> HIDE DEF r
  <2> QED
    BY <2>1, <2>2, <2>3, SaveStep
<1>3. CASE WritesFile(o)
  <2>1. /\ order[o].at = "write" /\ disk' = order[o].saves /\ order' = [order EXCEPT ![o] = Over]
        /\ book' = book /\ placed' = placed
    BY <1>3 DEF WritesFile, At
  <2> QED
    BY <2>1, NoOrderIs, SaveStep
<1>4. CASE SaveFails(o)
  <2>1. /\ order[o].at \in {"save", "write"} /\ disk' = disk /\ order' = [order EXCEPT ![o] = Over]
        /\ book' = book /\ placed' = placed
    BY <1>4 DEF SaveFails
  <2> QED
    BY <2>1, NoOrderIs, SaveStep
<1> QED
  BY <1>2, <1>3, <1>4

LEMMA MarksKeeps ==
  ASSUME FolioInv, NEW p \in Processes, NEW a \in Assets, NEW price \in Prices, Marks(p, a, price)
  PROVE  FolioInv'
<1>1. FolioType /\ AllSound /\ OrdersFit /\ OneAtATime
  BY DEF FolioInv
<1> DEFINE b == book[p]
           new == [b EXCEPT !.pos[a].cur = price]
           n == Cardinality(Past)
<1>2. /\ b.pos[a].qty > 0 /\ book' = [book EXCEPT ![p] = new] /\ disk' = disk /\ order' = order /\ placed' = placed
  <2>1. /\ b.pos[a].qty > 0 /\ book' = [book EXCEPT ![p].pos[a].cur = price] /\ disk' = disk /\ order' = order
        /\ placed' = placed
    BY DEF Marks
  <2> QED
    BY <2>1
<1>3. Past' = Past /\ n \in Nat /\ n <= MaxOrders /\ price \in Nat
  <2>1. Past \in SUBSET Orders /\ Past' = Past
    BY <1>2 DEF Past
  <2> QED
    BY <2>1, OrdersAreFinite, PortfolioAssumption
<1> HIDE DEF n
<1>4. Sound(b, n)
  BY <1>1 DEF AllSound, n
<1>5. Sound(new, n)
  <2> HIDE DEF b
  <2> QED
    BY <1>2, <1>3, <1>4, MarkedIsSound
<1>6. /\ b \in Books /\ b.pos \in [Assets -> Positions] /\ \A x \in Assets : b.pos[x] \in Positions
  BY <1>4, FieldsOfBook DEF Sound
<1>7. new.cash = b.cash /\ \A x \in Assets : new.pos[x].qty = b.pos[x].qty /\ new.pos[x].side = b.pos[x].side
  <2> HIDE DEF b
  <2> DEFINE h == [b.pos[a] EXCEPT !.cur = price]
             pos == [b.pos EXCEPT ![a] = h]
  <2>1. h.qty = b.pos[a].qty /\ h.side = b.pos[a].side
    BY <1>6 DEF Positions
  <2>2. new = [b EXCEPT !.pos = pos]
    OBVIOUS
  <2> HIDE DEF h
  <2>3. \A x \in Assets : pos[x] = IF x = a THEN h ELSE b.pos[x]
    BY <1>6
  <2> HIDE DEF pos, new
  <2>4. new.cash = b.cash /\ new.pos = pos
    BY <1>6, <2>2 DEF Books
  <2> QED
    BY <2>1, <2>3, <2>4
<1> HIDE DEF new
<1>8. new \in Books
  BY <1>5 DEF Sound
<1>9. book'[p] = new /\ (\A u \in Processes \ {p} : book'[u] = book[u]) /\ book' \in [Processes -> Books]
  BY <1>1, <1>2, <1>8 DEF FolioType
<1>10. FolioType' /\ OneAtATime'
  BY <1>1, <1>2, <1>9 DEF FolioType, OneAtATime
<1>11. AllSound'
  BY <1>1, <1>2, <1>3, <1>5, <1>9 DEF AllSound, n
<1>12. OrdersFit'
  <2>1. ASSUME NEW o \in Orders, order[o].at = "fill", order[o].does # "close"
        PROVE  Covered(book'[order[o].by], order[o])
    <3>1. Covered(book[order[o].by], order[o])
      BY <1>1, <2>1 DEF OrdersFit
    <3>2. order[o].by \in Processes /\ order[o].asset \in Assets
      BY <1>1, FieldsOfOrder DEF FolioType
    <3> QED
      BY <1>7, <1>9, <3>1, <3>2 DEF Covered
  <2> QED
    BY <1>1, <1>2, <2>1 DEF OrdersFit
<1> QED
  BY <1>10, <1>11, <1>12 DEF FolioInv

LEMMA RestartsKeeps ==
  ASSUME FolioInv, NEW p \in Processes, Restarts(p)
  PROVE  FolioInv'
<1>1. FolioType /\ AllSound /\ OrdersFit /\ OneAtATime
  BY DEF FolioInv
<1> DEFINE new == IF disk = Torn THEN Fresh0 ELSE disk
<1>2. /\ book' = [book EXCEPT ![p] = new] /\ disk' = disk /\ placed' = placed
      /\ order' = [o \in Orders |-> IF o \in Threads(p) THEN Over ELSE order[o]]
  BY DEF Restarts
<1>3. \A o \in Orders : order'[o] = IF Active(order[o]) /\ order[o].by = p THEN Over ELSE order[o]
  BY <1>2 DEF Threads, Active
<1>4. Past \subseteq Past'
  BY <1>3, NoOrderIs DEF Past
<1> DEFINE n == Cardinality(Past')
<1>5. /\ \A u \in Processes : Sound(book[u], n)
      /\ disk = Torn \/ Sound(disk, n)
      /\ \A u \in Orders : order[u].at \in {"save", "write"} => Sound(order[u].saves, n)
  BY <1>1, <1>4, StillSound
<1> HIDE DEF n
<1>6. Sound(new, n) /\ new \in Books
  BY <1>5, FreshIsSound DEF Sound
<1> HIDE DEF new
<1>7. book'[p] = new /\ (\A u \in Processes \ {p} : book'[u] = book[u]) /\ book' \in [Processes -> Books]
  BY <1>1, <1>2, <1>6 DEF FolioType
<1>8. order' \in [Orders -> OrderRecs]
  BY <1>1, <1>2, NoOrderIs DEF FolioType
<1>9. FolioType'
  BY <1>1, <1>2, <1>7, <1>8 DEF FolioType
<1>10. \A o \in Orders : Active(order'[o]) \/ order'[o].at \in {"new", "save", "write"} =>
         order'[o] = order[o] /\ (Active(order[o]) => order[o].by # p)
  BY <1>3, NoOrderIs DEF Active
<1>11. AllSound'
  <2>1. \A u \in Processes : Sound(book'[u], n)
    BY <1>5, <1>6, <1>7
  <2>2. \A u \in Orders : order'[u].at \in {"save", "write"} => Sound(order'[u].saves, n)
    BY <1>5, <1>10
  <2> QED
    BY <1>2, <1>5, <2>1, <2>2 DEF AllSound, n
<1>12. OneAtATime'
  BY <1>1, <1>10 DEF OneAtATime
<1>13. OrdersFit'
  <2>1. ASSUME NEW o \in Orders, order'[o].at = "fill", order'[o].does # "close"
        PROVE  Covered(book'[order'[o].by], order'[o])
    <3>1. order'[o] = order[o] /\ order[o].by # p
      BY <1>10, <2>1 DEF Active
    <3>2. Covered(book[order[o].by], order[o]) /\ order[o].by \in Processes
      BY <1>1, <2>1, <3>1, FieldsOfOrder DEF OrdersFit, FolioType
    <3> QED
      BY <1>7, <3>1, <3>2
  <2>2. \A o \in Orders : Active(order'[o]) => Wanted(order'[o])
    BY <1>1, <1>10 DEF OrdersFit
  <2>3. \A o \in Orders : o > placed' => order'[o].at = "new"
    BY <1>1, <1>2, <1>3 DEF OrdersFit, Active
  <2> QED
    BY <2>1, <2>2, <2>3 DEF OrdersFit
<1> QED
  BY <1>9, <1>11, <1>12, <1>13 DEF FolioInv

LEMMA FolioKeeps ==
  ASSUME FolioInv, Parallel = 1, [FolioNext]_foliovars
  PROVE  FolioInv'
<1>1. CASE UNCHANGED foliovars
  BY <1>1 DEF foliovars, FolioInv, FolioType, AllSound, OrdersFit, OneAtATime, Past
<1>2. CASE FolioNext
  <2>1. CASE \E p \in Processes, a \in Assets, price \in Prices :
               Marks(p, a, price) \/ \E s \in Sides, q \in 1 .. MaxQty : PlaceOrder(p, a, s, q, price)
    BY <2>1, MarksKeeps, PlaceKeeps
  <2>2. CASE \E o \in Orders : Decides(o) \/ Fills(o) \/ Truncates(o) \/ WritesFile(o) \/ SaveFails(o)
    BY <2>2, DecidesKeeps, FillsKeeps, SavesKeep
  <2>3. CASE \E p \in Processes : Restarts(p)
    BY <2>3, RestartsKeeps
  <2> QED
    BY <1>2, <2>1, <2>2, <2>3 DEF FolioNext
<1> QED
  BY <1>1, <1>2

\* BooksBalance: with one order of a process at a time, no history of orders, averaged
\* and closed in part, marks, saves cut short and restarts makes or loses money, or
\* overdraws the cash, for any assets, prices and quantities, processes and orders.
THEOREM BooksStayBalanced == FolioSpec => []BooksBalance
<1>1. FolioInit => (Parallel = 1 => FolioInv)
  BY FolioStarts
<1>2. (Parallel = 1 => FolioInv) /\ [FolioNext]_foliovars => (Parallel = 1 => FolioInv)'
  BY FolioKeeps
<1>3. (Parallel = 1 => FolioInv) => BooksBalance
  BY DEF FolioInv, AllSound, Sound, BooksBalance
<1> QED
  BY <1>1, <1>2, <1>3, PTL DEF FolioSpec
===============================================================================
