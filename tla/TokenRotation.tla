--------------------------- MODULE TokenRotation ----------------------------
(***************************************************************************)
(* What refresh tokens promise, whatever tables and requests are behind    *)
(* them.  A token is born once, dies once and never comes back.  It is     *)
(* born by a grant (somebody proved who they are) or as the successor of a *)
(* token that its request claimed while it was alive and that was dead     *)
(* when the successor appeared.  Several requests may have claimed one     *)
(* token before it died.                                                   *)
(***************************************************************************)
CONSTANTS Tokens, NULL

VARIABLES
    life,   \* token -> "unborn", "alive" or "dead" (revoked or expired)
    claim   \* token -> the token whose successor it is to be, or NULL

rotationVars == <<life, claim>>

Init ==
    /\ life = [t \in Tokens |-> "unborn"]
    /\ claim = [t \in Tokens |-> NULL]

\* t is born without an ancestor.
Grant(t) ==
    /\ life[t] = "unborn" /\ claim[t] = NULL
    /\ life' = [life EXCEPT ![t] = "alive"]
    /\ UNCHANGED claim

\* t is to be the successor of old, which is alive.
Claim(t, old) ==
    /\ life[t] = "unborn" /\ claim[t] = NULL
    /\ life[old] = "alive"
    /\ claim' = [claim EXCEPT ![t] = old]
    /\ UNCHANGED life

Living == {t \in Tokens : life[t] = "alive"}

\* Some of the living die.
Kill(S) ==
    /\ life' = [t \in Tokens |-> IF t \in S THEN "dead" ELSE life[t]]
    /\ UNCHANGED claim

\* t succeeds the token it claimed.
Succeed(t) ==
    /\ life[t] = "unborn" /\ claim[t] # NULL
    /\ life[claim[t]] = "dead"
    /\ life' = [life EXCEPT ![t] = "alive"]
    /\ UNCHANGED claim

Next ==
    \/ \E t \in Tokens : Grant(t) \/ Succeed(t)
    \/ \E t, old \in Tokens : Claim(t, old)
    \/ \E S \in SUBSET Living : Kill(S)

Spec == Init /\ [][Next]_rotationVars

=============================================================================
