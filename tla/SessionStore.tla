----------------------------- MODULE SessionStore -----------------------------
(***************************************************************************)
(* The daemon's sessions in memory and on disk (daemon/server.py,          *)
(* daemon/core.py): one object per open session, loaded from its state     *)
(* file, saved after every turn, deleted on request; an index lists them.  *)
(* Clients and turns hold on to the object they have, whatever happens to  *)
(* the table. What runs between two awaits is one step; the daemon can be  *)
(* killed between the writes of a step.                                    *)
(***************************************************************************)
EXTENDS Integers, Sequences, FiniteSets

CONSTANTS SessionNames, \* names without spaces around them
          Spellings,    \* other spellings of them, with spaces
          Stripped,     \* spelling -> name, _normalize_session_name
          Holders,      \* websockets and scheduled jobs
          MaxObjects,   \* bound: Session objects ever made
          MaxBegun      \* bound: turns ever asked for
ASSUME StoreAssumption ==
  /\ SessionNames \cap Spellings = {} /\ Stripped \in [Spellings -> SessionNames]
  /\ MaxObjects \in Nat /\ MaxBegun \in Nat

VARIABLES objects,  \* the Session objects so far: [name, chat], the turns in chat_history
          table,    \* name -> the object in self.sessions, or 0
          files,    \* name -> the state file: [here, chat]
          index,    \* the names in index.json
          holds,    \* client -> the object it is attached to, or 0
          turns,    \* run_input calls under way, [obj, turn, runs]
          begun,    \* turns asked for so far
          deletes,  \* names whose delete_session awaits stop_all
          kept,     \* ghost: name -> turns ended and saved, since it was last deleted
          shared    \* ghost: names that two objects in use have had at once
storevars == <<objects, table, files, index, holds, turns, begun, deletes, kept, shared>>

NoFile == [here |-> FALSE, chat |-> {}]
NameOf(raw) == IF raw \in SessionNames THEN raw ELSE Stripped[raw]
Exists(n) == files[n].here \/ n \in index
InUse(o) == (\E c \in Holders : holds[c] = o) \/ (\E t \in turns : t.obj = o)

\* Session.load, and Session.save: chat_history as it is now, then the index.
LoadedNot(n) == {}
Loaded(n) == files[n].chat
Writes(s) == files' = [files EXCEPT ![s.name] = [here |-> TRUE, chat |-> s.chat]]
Saves(s) == Writes(s) /\ index' = index \cup {s.name}

\* get_or_create_session looks a session up as it is spelt, and puts a new object
\* under the stripped name. Object is what it returns.
IsOpen(raw) == raw \in SessionNames /\ table[raw] # 0
Object(raw) == IF IsOpen(raw) THEN table[raw] ELSE Len(objects) + 1
GetOrCreate(raw, createIfMissing) ==
  \/ IsOpen(raw) /\ UNCHANGED <<objects, table, shared>>
  \/ LET n == NameOf(raw) IN
     /\ ~IsOpen(raw) /\ (createIfMissing \/ Exists(n)) /\ Len(objects) < MaxObjects
     /\ objects' = Append(objects, [name |-> n, chat |-> Loaded(n)])
     /\ table' = [table EXCEPT ![n] = Len(objects) + 1]
     /\ shared' = shared \cup {m \in {n} : \E o \in DOMAIN objects : objects[o].name = m /\ InUse(o)}
Touched(raw) == index' = IF IsOpen(raw) THEN index ELSE index \cup {NameOf(raw)}

-----------------------------------------------------------------------------
\* A websocket attaches; a job's trigger takes its session and runs one turn.
Attach(c, raw, createIfMissing) ==
  /\ holds[c] = 0 /\ GetOrCreate(raw, createIfMissing) /\ Touched(raw)
  /\ holds' = [holds EXCEPT ![c] = Object(raw)]
  /\ UNCHANGED <<files, turns, begun, deletes, kept>>
Detach(c) ==
  /\ holds[c] # 0 /\ holds' = [holds EXCEPT ![c] = 0]
  /\ UNCHANGED <<objects, table, files, index, turns, begun, deletes, kept, shared>>

\* The REST handlers: views of a session, and changes to its chart or watchlist,
\* which are saved with the chat as it is now.
View(raw) ==
  /\ GetOrCreate(raw, FALSE) /\ Touched(raw)
  /\ UNCHANGED <<files, holds, turns, begun, deletes, kept>>
Update(raw) ==
  /\ GetOrCreate(raw, FALSE) /\ Saves(objects'[Object(raw)])
  /\ UNCHANGED <<holds, turns, begun, deletes, kept>>
Create(raw) ==
  /\ table[NameOf(raw)] = 0 /\ ~Exists(NameOf(raw))
  /\ GetOrCreate(NameOf(raw), TRUE) /\ Saves(objects'[Object(NameOf(raw))])
  /\ UNCHANGED <<holds, turns, begun, deletes, kept>>

\* run_input: the turn waits for its object's lock, asks, answers, and saves in its
\* finally block; an error while saving is ignored.
RunInput(c) ==
  /\ holds[c] # 0 /\ begun < MaxBegun /\ begun' = begun + 1
  /\ turns' = turns \cup {[obj |-> holds[c], turn |-> begun + 1, runs |-> FALSE]}
  /\ UNCHANGED <<objects, table, files, index, holds, deletes, kept, shared>>
TurnStarts(t) ==
  /\ t \in turns /\ ~t.runs /\ \A u \in turns : u.obj = t.obj => ~u.runs
  /\ turns' = (turns \ {t}) \cup {[t EXCEPT !.runs = TRUE]}
  /\ objects' = [objects EXCEPT ![t.obj].chat = @ \cup {t.turn}]
  /\ UNCHANGED <<table, files, index, holds, begun, deletes, kept, shared>>
TurnEnds(t) ==
  /\ t \in turns /\ t.runs /\ turns' = turns \ {t}
  /\ \/ Saves(objects[t.obj]) /\ kept' = [kept EXCEPT ![objects[t.obj].name] = @ \cup {t.turn}]
     \/ UNCHANGED <<files, index, kept>>
  /\ UNCHANGED <<objects, table, holds, begun, deletes, shared>>

\* delete_session: out of the table, then an await, then off the disk. The turns and
\* clients of the object go on with it.
Removed(n) ==
  /\ files' = [files EXCEPT ![n] = NoFile] /\ index' = index \ {n}
  /\ kept' = [kept EXCEPT ![n] = {}]
Delete(raw) ==
  LET n == NameOf(raw) IN
  /\ table' = [table EXCEPT ![n] = 0]
  /\ \/ table[n] # 0 /\ deletes' = deletes \cup {n} /\ UNCHANGED <<files, index, kept>>
     \/ table[n] = 0 /\ Exists(n) /\ Removed(n) /\ UNCHANGED deletes
  /\ UNCHANGED <<objects, holds, turns, begun, shared>>
DeleteEnds(n) ==
  /\ n \in deletes /\ deletes' = deletes \ {n} /\ Removed(n)
  /\ UNCHANGED <<objects, table, holds, turns, begun, shared>>

\* The daemon is killed and started again: between two steps, after a state file was
\* written but not the index, or after it was unlinked but is still listed.
Kill ==
  /\ table' = [n \in SessionNames |-> 0] /\ holds' = [c \in Holders |-> 0]
  /\ turns' = {} /\ deletes' = {}
  /\ \/ UNCHANGED <<files, kept>>
     \/ \E t \in turns : t.runs /\ Writes(objects[t.obj]) /\ UNCHANGED kept
     \/ \E n \in deletes :
          files' = [files EXCEPT ![n] = NoFile] /\ kept' = [kept EXCEPT ![n] = {}]
  /\ UNCHANGED <<objects, index, begun, shared>>

-----------------------------------------------------------------------------
StoreInit ==
  /\ objects = << >> /\ table = [n \in SessionNames |-> 0]
  /\ files = [n \in SessionNames |-> NoFile] /\ index = {}
  /\ holds = [c \in Holders |-> 0] /\ turns = {} /\ begun = 0 /\ deletes = {}
  /\ kept = [n \in SessionNames |-> {}] /\ shared = {}
StoreNext ==
  \/ \E raw \in SessionNames \cup Spellings :
       \/ View(raw) \/ Update(raw) \/ Create(raw) \/ Delete(raw)
       \/ \E c \in Holders, create \in BOOLEAN : Attach(c, raw, create)
  \/ \E c \in Holders : Detach(c) \/ RunInput(c)
  \/ \E t \in turns : TurnStarts(t) \/ TurnEnds(t)
  \/ (\E n \in SessionNames : DeleteEnds(n)) \/ Kill
StoreSpec == StoreInit /\ [][StoreNext]_storevars

-----------------------------------------------------------------------------
\* What has been said is kept: as long as no two objects of a session were in use at
\* once, its file holds every turn that ended and was saved since the session was last
\* deleted, the index lists it, and the open session has all that its file has, through
\* kills, deletes that race with an attach, and turns that outlive their session.
ChatsAreKept ==
  \A n \in SessionNames \ shared :
    /\ kept[n] # {} => files[n].here /\ n \in index /\ kept[n] \subseteq files[n].chat
    /\ table[n] # 0 => files[n].chat \subseteq objects[table[n]].chat

\* "Delete a named session from memory, disk, and the session index"
\* (daemon/server.py:1279): what is deleted comes back only when somebody opens it.
DeletedStaysDeleted ==
  [][\A n \in SessionNames : n \notin deletes /\ table'[n] = 0 /\ ~Exists(n) => ~files'[n].here]_storevars
=============================================================================
