----------------------------- MODULE HubTokens -----------------------------
(***************************************************************************)
(* The hub as its clients see it when they are about tokens: it issues     *)
(* pairs of an access token and a refresh token, numbered here in the      *)
(* order of issue, and exchanges a refresh token once (AuthTokens is the   *)
(* detailed model of that side).                                           *)
(***************************************************************************)
EXTENDS Naturals

CONSTANTS
    MaxCalls,      \* bound: logins in a browser, and calls that need a token
    MaxFaults      \* bound: crashes, failing requests, revocations, slow holders

ASSUME BoundAssumption == MaxCalls \in Nat /\ MaxFaults \in Nat

VARIABLES
    issued,        \* pairs issued so far; pair n is n
    live,          \* pairs whose refresh token can still be exchanged
    spent,         \* pairs whose refresh token has been exchanged
    good,          \* pairs whose access token is accepted
    calls,         \* calls still to be made
    faults         \* faults still to happen

hubVars == <<issued, live, spent, good>>
budget == <<calls, faults>>

None == 0
Pairs == Nat \ {None}

HubTypeOK ==
    /\ issued \in Nat
    /\ live \subseteq 1..issued /\ spent \subseteq 1..issued /\ good \subseteq 1..issued
    /\ calls \in 0..MaxCalls /\ faults \in 0..MaxFaults

HubInit ==
    /\ issued = 1 /\ live = {1} /\ spent = {} /\ good = {}   \* a login of some days ago
    /\ calls = MaxCalls /\ faults = MaxFaults

CountCall == calls > 0 /\ calls' = calls - 1 /\ UNCHANGED faults
CountFault == faults > 0 /\ faults' = faults - 1 /\ UNCHANGED calls

\* A login: a new pair.
Issue ==
    /\ issued' = issued + 1
    /\ live' = live \cup {issued'} /\ good' = good \cup {issued'}
    /\ UNCHANGED spent

\* validateAndRotate and the new session: n is spent, and there is a new pair.
Exchange(n) ==
    /\ n \in live
    /\ issued' = issued + 1
    /\ live' = (live \ {n}) \cup {issued'} /\ good' = good \cup {issued'}
    /\ spent' = spent \cup {n}

\* 401: the token was spent, revoked, has expired, or never was one.
Refuse(n) == n \notin live /\ UNCHANGED hubVars

\* A session ends after a day; the refresh token that came with it stays good.
ExpireAccess(n) ==
    /\ n \in good /\ CountFault
    /\ good' = good \ {n}
    /\ UNCHANGED <<issued, live, spent>>

\* A change of the password ends everything the account has.
RevokeAll ==
    /\ live # {} /\ CountFault
    /\ live' = {} /\ good' = {}
    /\ UNCHANGED <<issued, spent>>
=============================================================================
