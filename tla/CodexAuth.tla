------------------------------ MODULE CodexAuth ------------------------------
(***************************************************************************)
(* The ChatGPT login that agents share (agent/codex_auth.py): processes    *)
(* load auth.json when they build a model, trade an expired token's        *)
(* refresh token for the next one and write the file back; nobody locks    *)
(* it. The issuer takes a refresh token once.                              *)
(***************************************************************************)
EXTENDS Integers

CONSTANTS Builders,  \* threads and processes that build models: daemon, terminal, codex
          MaxIssued  \* bound: tokens ever issued
ASSUME AuthAssumption == MaxIssued \in Nat

VARIABLES authFile, \* auth.json: the token in it, or 0
          issued,   \* tokens issued so far
          accepted, \* the refresh token the issuer accepts, or 0 (external)
          expired,  \* tokens whose access_token has expired
          build,    \* builder -> [at, token]
          model,    \* builder -> the token of the model it built last, or 0
          lost      \* ghost: a token was issued that nobody could write down
authvars == <<authFile, issued, accepted, expired, build, model, lost>>

Moves(b, at, token) == build' = [build EXCEPT ![b] = [at |-> at, token |-> token]]
Ends0(b) == Moves(b, "idle", 0)

\* get_valid_credentials, called when an agent is built or its model reloaded.
Load(b) ==
  /\ build[b].at = "idle"
  /\ IF authFile = 0 THEN UNCHANGED <<build, model>>
     ELSE IF authFile \in expired THEN Moves(b, "refresh", authFile) /\ UNCHANGED model
     ELSE model' = [model EXCEPT ![b] = authFile] /\ UNCHANGED build
  /\ UNCHANGED <<authFile, issued, accepted, expired, lost>>

\* refresh_credentials: the issuer answers with the next token, refuses, or its answer
\* does not arrive within 15 s.
Issued0 == issued' = issued + 1 /\ accepted' = issued + 1
RefreshKeepsOld(b) ==
  /\ build[b].at = "refresh"
  /\ \/ /\ build[b].token = accepted /\ issued < MaxIssued /\ Issued0
        /\ Moves(b, "save", build[b].token) /\ UNCHANGED lost
     \/ build[b].token # accepted /\ Ends0(b) /\ UNCHANGED <<issued, accepted, lost>>
  /\ UNCHANGED <<authFile, expired, model>>
Refresh(b) ==
  /\ build[b].at = "refresh"
  /\ \/ /\ build[b].token = accepted /\ issued < MaxIssued /\ Issued0
        /\ \/ Moves(b, "save", issued + 1) /\ UNCHANGED lost
           \/ Ends0(b) /\ lost' = TRUE
     \/ build[b].token # accepted /\ Ends0(b) /\ UNCHANGED <<issued, accepted, lost>>
     \/ Ends0(b) /\ UNCHANGED <<issued, accepted, lost>>
  /\ UNCHANGED <<authFile, expired, model>>

\* save_credentials, a rename; an OSError is only logged.
Save(b) ==
  /\ build[b].at = "save" /\ Ends0(b) /\ model' = [model EXCEPT ![b] = build[b].token]
  /\ \/ authFile' = build[b].token /\ UNCHANGED lost
     \/ lost' = TRUE /\ UNCHANGED authFile
  /\ UNCHANGED <<issued, accepted, expired>>

Killed(b) ==
  /\ build[b].at # "idle" /\ Ends0(b) /\ lost' = (lost \/ build[b].at = "save")
  /\ model' = [model EXCEPT ![b] = 0]
  /\ UNCHANGED <<authFile, issued, accepted, expired>>

\* The user logs in again, in a browser, while no agent is being built.
Login ==
  /\ \A b \in Builders : build[b].at = "idle"
  /\ issued < MaxIssued /\ Issued0 /\ authFile' = issued + 1 /\ lost' = FALSE
  /\ UNCHANGED <<expired, build, model>>

Expires ==
  /\ \E t \in 1 .. issued : t \notin expired /\ expired' = expired \cup {t}
  /\ UNCHANGED <<authFile, issued, accepted, build, model, lost>>

AuthInit ==
  /\ authFile = 0 /\ issued = 0 /\ accepted = 0 /\ expired = {} /\ lost = FALSE
  /\ build = [b \in Builders |-> [at |-> "idle", token |-> 0]] /\ model = [b \in Builders |-> 0]
AuthNext ==
  \/ \E b \in Builders : Load(b) \/ Refresh(b) \/ Save(b) \/ Killed(b)
  \/ Login \/ Expires
AuthSpec == AuthInit /\ [][AuthNext]_authvars

\* However many agents are built at once on one expired login, the login survives: the
\* token that the issuer accepts is in the file or on its way there with one builder, so
\* that the user need not log in again, unless an answer was lost, a write failed or a
\* builder was killed between the two.
Saving == {b \in Builders : build[b].at = "save"}
LoginSurvives ==
  ~lost => \/ authFile = accepted /\ Saving = {}
           \/ \E b \in Builders : Saving = {b} /\ build[b].token = accepted
=============================================================================
