----------------------------- MODULE ApiTokens ------------------------------
(***************************************************************************)
(* The API tokens of one user: those made in the profile                   *)
(* (src/routes/auth.ts) and by the set-up of the Jellyfin plugin           *)
(* (src/routes/jellyfin.ts).  Both count the tokens and then create one,   *)
(* without a transaction.                                                  *)
(***************************************************************************)
EXTENDS Naturals, FiniteSets

CONSTANTS
  Requests,            \* bound: requests of the user in flight
  Tokens,              \* bound: tokens ever created
  MAX_TOKENS_PER_USER

VARIABLES
  token,     \* the row of each token
  plugin,    \* tokens with the purpose "jellyfin-plugin"
  setupDue,  \* a minute has passed since the last set-up of the plugin
  creating   \* requests that have counted

tokenVars == <<token, plugin, setupDue, creating>>

TokenAssumption == IsFiniteSet(Requests) /\ IsFiniteSet(Tokens) /\ MAX_TOKENS_PER_USER \in Nat \ {0}

TokenTypeOK ==
  /\ token \in [Tokens -> [made: BOOLEAN, revoked: BOOLEAN, expired: BOOLEAN]]
  /\ plugin \subseteq Tokens /\ setupDue \in BOOLEAN
  /\ creating \in [Requests -> {"no", "token", "setup"}]

TokenInit ==
  /\ token = [t \in Tokens |-> [made |-> FALSE, revoked |-> FALSE, expired |-> FALSE]]
  /\ plugin = {} /\ setupDue = TRUE
  /\ creating = [r \in Requests |-> "no"]

\* An expired token that is not revoked still counts.
Unrevoked == {t \in Tokens : token[t].made /\ ~token[t].revoked}

\* The first form compares with "more than".
RoomForToken_OffByOne == Cardinality(Unrevoked) <= MAX_TOKENS_PER_USER
RoomForToken == Cardinality(Unrevoked) < MAX_TOKENS_PER_USER

\* POST /auth/api-tokens; POST /jellyfin/plugin/setup within its rate.
CountTokens(r) ==
  /\ creating[r] = "no" /\ RoomForToken
  /\ \/ creating' = [creating EXCEPT ![r] = "token"]
     \/ setupDue /\ creating' = [creating EXCEPT ![r] = "setup"]
  /\ UNCHANGED <<token, plugin, setupDue>>

\* The time of the set-up is noted when the token is there, so set-ups at the
\* same time pass the rate limit together.
CreateToken(r) ==
  /\ creating[r] # "no"
  /\ \E t \in Tokens :
       /\ ~token[t].made
       /\ token' = [token EXCEPT ![t].made = TRUE]
       /\ plugin' = IF creating[r] = "setup" THEN plugin \cup {t} ELSE plugin
  /\ setupDue' = (setupDue /\ creating[r] = "token")
  /\ creating' = [creating EXCEPT ![r] = "no"]

TokenFails(r) ==
  /\ creating[r] # "no"
  /\ creating' = [creating EXCEPT ![r] = "no"]
  /\ UNCHANGED <<token, plugin, setupDue>>

\* DELETE /auth/api-tokens/:id.
Revoke(t) ==
  /\ t \in Unrevoked
  /\ token' = [token EXCEPT ![t].revoked = TRUE]
  /\ UNCHANGED <<plugin, setupDue, creating>>

Expire(t) ==
  /\ token[t].made /\ ~token[t].expired
  /\ token' = [token EXCEPT ![t].expired = TRUE]
  /\ UNCHANGED <<plugin, setupDue, creating>>

MinutePasses ==
  /\ ~setupDue /\ setupDue' = TRUE
  /\ UNCHANGED <<token, plugin, creating>>

TokenNext ==
  \/ \E r \in Requests : CountTokens(r) \/ CreateToken(r) \/ TokenFails(r)
  \/ \E t \in Tokens : Revoke(t) \/ Expire(t)
  \/ MinutePasses

TokenSpec == TokenInit /\ [][TokenNext]_tokenVars

-----------------------------------------------------------------------------
(* Properties                                                              *)

\* Requests that count at the same time create a token each: the limit of
\* api-token.ts is exceeded, but by no more than the other requests in flight.
TokensBounded ==
  Cardinality(Unrevoked) <= MAX_TOKENS_PER_USER + Cardinality(Requests) - 1
=============================================================================
