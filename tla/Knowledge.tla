------------------------------ MODULE Knowledge ------------------------------
(***************************************************************************)
(* What agent-kai's agents keep between sessions: memory files, one of     *)
(* each agent and one of the user that all share (agent/memory_store.py),  *)
(* and skill files of each agent (agent/skills_store.py). The tools run in *)
(* threads of the agents' processes, and the terminal's /learn writes the  *)
(* skill that the mentor drafts (agent/learning.py): calls interleave      *)
(* between the reads and writes they make, and a process may be killed.    *)
(*                                                                         *)
(* A note is the set of the words that occur in it; what is added is one   *)
(* note, or several with the delimiter between them. A skill's text is     *)
(* [name, words, good]: the name in its frontmatter, the strings in it,    *)
(* and whether frontmatter, size and scan find nothing wrong.              *)
(***************************************************************************)
EXTENDS Integers, Sequences, FiniteSets, SequencesExt

CONSTANTS Agents,     \* each has a process
          Words,
          Contents,   \* what is added: sequences of notes, of length 1 or more
          Limit,      \* characters of a file; a word and a delimiter are one
          SkillNames,
          ToolThreads,    \* the tool threads, and "learn"
          Owner,      \* thread -> its agent
          MaxCalls    \* bound: calls

User == "user"
Files == Agents \cup {User}
NoThread == "nobody"
ASSUME KnowledgeAssumption ==
  /\ User \notin Agents /\ Owner \in [ToolThreads -> Agents] /\ Limit \in Nat /\ MaxCalls \in Nat
  /\ NoThread \notin ToolThreads /\ IsFiniteSet(Words) /\ Contents \subseteq Seq(SUBSET Words)
  /\ \A c \in Contents : c # << >> /\ \A k \in DOMAIN c : c[k] # {}

VARIABLES
  file,     \* MEMORY.md of each agent and USER.md: a sequence of notes
  live,     \* agent -> memory_entries and user_entries, sequences of contents
  lock,     \* file -> the thread that holds its lock
  skill,    \* agent -> name -> the file's text, or NoSkill
  call,     \* thread -> the call it executes
  calls,    \* calls so far
  journal   \* history: file -> the changes in the order they were written
knowvars == <<file, live, lock, skill, call, calls, journal>>

NoSkill == [name |-> "", words |-> {}, good |-> FALSE]
Texts == [name : SkillNames, words : SUBSET Words, good : BOOLEAN]
Free == [at |-> "free", does |-> "none", on |-> User, content |-> << >>, word |-> "", text |-> NoSkill]

-----------------------------------------------------------------------------
(* Memory: the entries of a file, and the changes to them. *)

\* A file has no trace of where one content ended: read again, each note is an entry.
Read(notes) == LET once == FoldLeft(LAMBDA s, n : IF Contains(s, <<n>>) THEN s ELSE Append(s, <<n>>), << >>, notes)
               IN  once
Written(entries) == FlattenSeq(entries)
Length(entries) ==
  LET notes == Written(entries)
  IN  IF notes = << >> THEN 0
      ELSE FoldLeft(LAMBDA x, n : x + Cardinality(n), 0, notes) + Len(notes) - 1

Matches(entries, w) == {k \in DOMAIN entries : \E j \in DOMAIN entries[k] : w \in entries[k][j]}
Refused == <<"refused">>

\* add, replace and remove: the new entries, or Refused: a duplicate, too much, no entry
\* or several different ones that match.
Changed(entries, op, content, w) ==
  LET hits == Matches(entries, w)
      at == Min(hits)
      new == IF op = "add" THEN Append(entries, content)
             ELSE IF op = "replace" THEN [entries EXCEPT ![at] = content]
             ELSE RemoveAt(entries, at)
      unclear == hits = {} \/ Cardinality({entries[k] : k \in hits}) > 1
  IN  IF (op = "add" /\ Contains(entries, content)) \/ (op # "add" /\ unclear) THEN Refused
      ELSE IF op # "remove" /\ Length(new) > Limit THEN Refused
      ELSE new

NextCall == calls < MaxCalls /\ calls' = calls + 1
Ends(t) == [call EXCEPT ![t] = Free]

\* The memory tool is called, with what the scan lets pass.
Memory(t) ==
  /\ call[t] = Free /\ t # "learn" /\ NextCall
  /\ \E op \in {"add", "replace", "remove"}, on \in {Owner[t], User}, c \in Contents, w \in Words :
       /\ op = "add" => w = CHOOSE x \in Words : TRUE
       /\ op = "remove" => c = CHOOSE x \in Contents : TRUE
       /\ call' = [call EXCEPT ![t] = [Free EXCEPT !.at = "lock", !.does = op, !.on = on,
                                                   !.content = c, !.word = w]]
  /\ UNCHANGED <<file, live, lock, skill, journal>>

\* Under the lock the entries are read again, changed in memory and written.
ReloadNot(t) == IF call[t].on \in DOMAIN live[Owner[t]] THEN live[Owner[t]][call[t].on] ELSE << >>
Reload(t) == Read(file[call[t].on])
Locks(t) ==
  LET c == call[t]  entries == Reload(t)  new == Changed(entries, c.does, c.content, c.word) IN
  /\ c.at = "lock" /\ lock[c.on] = NoThread
  /\ live' = [live EXCEPT ![Owner[t]][c.on] = IF new = Refused THEN entries ELSE new]
  /\ IF new = Refused THEN call' = Ends(t) /\ UNCHANGED lock
     ELSE call' = [call EXCEPT ![t].at = "save"] /\ lock' = [lock EXCEPT ![c.on] = t]
  /\ UNCHANGED <<file, skill, calls, journal>>
\* The new file takes the old one's place in one step, or an error leaves that alone.
SavesFile(t) ==
  LET c == call[t] IN
  /\ c.at = "save" /\ lock' = [lock EXCEPT ![c.on] = NoThread] /\ call' = Ends(t)
  /\ \/ /\ file' = [file EXCEPT ![c.on] = Written(live[Owner[t]][c.on])]
        /\ journal' = [journal EXCEPT ![c.on] = Append(@, c)]
     \/ UNCHANGED <<file, journal>>
  /\ UNCHANGED <<live, skill, calls>>

-----------------------------------------------------------------------------
(* Skills: no lock; what is there is looked at first and written later. *)

SkillTool(t) ==
  /\ call[t] = Free /\ NextCall
  /\ \E op \in IF t = "learn" THEN {"create", "patch"} ELSE {"create", "edit", "patch", "delete"},
        n \in SkillNames, x \in Texts, w \in Words :
       /\ op # "patch" => w = CHOOSE y \in Words : TRUE
       /\ call' = [call EXCEPT ![t] = [Free EXCEPT !.at = "look", !.does = op, !.on = n, !.text = x, !.word = w]]
  /\ UNCHANGED <<file, live, lock, skill, journal>>

\* A patch puts a string for another that occurs in the skill.
Patched(old, c) == [c.text EXCEPT !.words = (old.words \ {c.word}) \cup @, !.name = old.name]
Checked(old, c) == IF c.does = "patch" THEN Patched(old, c) ELSE c.text
Looks(t) ==
  LET c == call[t]  old == skill[Owner[t]][c.on]  new == Checked(old, c) IN
  /\ c.at = "look" /\ c.does # "delete"
  /\ call' = IF /\ (c.does = "create") = (old = NoSkill)
                /\ c.does = "patch" => c.word \in old.words
                /\ new.good
             THEN [call EXCEPT ![t].at = "put", ![t].text = new]
             ELSE Ends(t)
  /\ UNCHANGED <<file, live, lock, skill, calls, journal>>
Puts(t) ==
  LET c == call[t] IN
  /\ c.at = "put" /\ call' = Ends(t)
  /\ skill' \in {skill, [skill EXCEPT ![Owner[t]][c.on] = c.text]}
  /\ UNCHANGED <<file, live, lock, calls, journal>>
Deletes(t) ==
  LET c == call[t] IN
  /\ c.at = "look" /\ c.does = "delete" /\ call' = Ends(t)
  /\ skill' = [skill EXCEPT ![Owner[t]][c.on] = NoSkill]
  /\ UNCHANGED <<file, live, lock, calls, journal>>

-----------------------------------------------------------------------------
\* load_from_disk, when an agent is made.
FromDisk(a) == [f \in {a, User} |-> Read(file[f])]
\* The process is killed, its locks with it, and started again.
AgentRestarts(a) ==
  LET mine == {t \in ToolThreads : Owner[t] = a} IN
  /\ live' = [live EXCEPT ![a] = FromDisk(a)]
  /\ call' = [t \in ToolThreads |-> IF t \in mine THEN Free ELSE call[t]]
  /\ lock' = [f \in Files |-> IF lock[f] \in mine THEN NoThread ELSE lock[f]]
  /\ UNCHANGED <<file, skill, calls, journal>>

KnowInit ==
  /\ file = [f \in Files |-> << >>] /\ live = [a \in Agents |-> [f \in {a, User} |-> << >>]]
  /\ lock = [f \in Files |-> NoThread] /\ skill = [a \in Agents |-> [n \in SkillNames |-> NoSkill]]
  /\ call = [t \in ToolThreads |-> Free] /\ calls = 0 /\ journal = [f \in Files |-> << >>]
KnowNext ==
  \/ \E t \in ToolThreads : Memory(t) \/ Locks(t) \/ SavesFile(t) \/ SkillTool(t) \/ Looks(t) \/ Puts(t) \/ Deletes(t)
  \/ \E a \in Agents : AgentRestarts(a)
KnowSpec == KnowInit /\ [][KnowNext]_knowvars

-----------------------------------------------------------------------------
\* "Whoever gets the lock second picks up what the first one wrote, then applies its own
\* change on top" (agent/memory_store.py:293): each memory file is what its changes make,
\* one after the other, within the limit, whatever threads and processes do at once;
\* and a skill that is not sound is never on the disk.
Replayed(f) ==
  FoldLeft(LAMBDA notes, c : Written(Changed(Read(notes), c.does, c.content, c.word)), << >>, journal[f])
NothingForgotten ==
  /\ \A f \in Files : file[f] = Replayed(f) /\ Length(<<file[f]>>) <= Limit
  /\ \A a \in Agents, n \in SkillNames : skill[a][n] = NoSkill \/ skill[a][n].good
=============================================================================
