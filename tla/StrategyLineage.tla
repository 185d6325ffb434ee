--------------------------- MODULE StrategyLineage ---------------------------
(***************************************************************************)
(* What the strategy store promises of one lineage: versions are numbered  *)
(* without gaps, a version that exists is never rewritten, its verdict is  *)
(* given once and after the evidence, and it moves between the pools only  *)
(* along the edges of the approval commands, from which the graveyard has  *)
(* no way out.                                                             *)
(***************************************************************************)
EXTENDS Integers, Sequences

CONSTANT Stages
VARIABLE versions   \* lineage name -> sequence of version records

Moves == {<<"candidates", "active">>, <<"active", "candidates">>,
          <<"active", "graveyard">>, <<"candidates", "graveyard">>}

Init == \A n \in DOMAIN versions : versions[n] = << >>

Extend(n, v) ==
  /\ v.parent \in 0 .. Len(versions[n])
  /\ v.evidence = {} /\ v.verdict = "none" /\ v.pool # "active"
  /\ versions' = [versions EXCEPT ![n] = @ \o <<v>>]

Move(n, i, to) ==
  /\ <<versions[n][i].pool, to>> \in Moves
  /\ versions' = [versions EXCEPT ![n][i].pool = to]

Measure(n, i, E) ==
  versions' = [versions EXCEPT ![n][i].evidence = @ \cup E]

Judge(n, i, verdict) ==
  /\ versions[n][i].verdict = "none"
  /\ Stages \subseteq versions[n][i].evidence
  /\ versions' = [versions EXCEPT ![n][i].verdict = verdict]

Next ==
  \E n \in DOMAIN versions :
    \/ Len(versions'[n]) = Len(versions[n]) + 1
         /\ Extend(n, versions'[n][Len(versions'[n])])
    \/ \E i \in DOMAIN versions[n] :
         \/ \E to \in {"active", "candidates", "graveyard"} : Move(n, i, to)
         \/ Measure(n, i, Stages)
         \/ \E verdict \in {"accepted", "rejected"} : Judge(n, i, verdict)

Spec == Init /\ [][Next]_versions
=============================================================================
