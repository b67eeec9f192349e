----------------------------- MODULE Directory ------------------------------
(***************************************************************************)
(* What sign-up promises, whatever tables and requests are behind it.  A   *)
(* directory says which account has which address, which account a person  *)
(* known to Google has, and which addresses are proved.  It only grows: an *)
(* account keeps its address, an address its account, a person the account *)
(* that was opened for that very person.                                   *)
(***************************************************************************)
CONSTANTS Ids, Addresses, People, NULL

VARIABLES
    members,  \* the accounts there are
    address,  \* account -> its address, or NULL
    opened,   \* account -> the person it was opened for, or NULL
    account,  \* person -> the account that signing in leads to, or NULL
    verified  \* the accounts whose address is proved

directoryVars == <<members, address, opened, account, verified>>

Free(e) == e # NULL => \A v \in members : address[v] # e

\* Nobody signed in with Google yet.
Init ==
    /\ members \subseteq Ids /\ verified \subseteq members
    /\ address \in [Ids -> Addresses \cup {NULL}]
    /\ \A u, v \in members : address[u] = address[v] /\ address[u] # NULL => u = v
    /\ opened = [u \in Ids |-> NULL]
    /\ account = [p \in People |-> NULL]

\* An account is opened with an address that no other has, or with none, for a
\* person who signs in with Google, or for nobody in particular.
Open(u, e, p) ==
    /\ u \notin members /\ Free(e)
    /\ members' = members \cup {u}
    /\ address' = [address EXCEPT ![u] = e]
    /\ opened' = [opened EXCEPT ![u] = p]
    /\ \/ UNCHANGED verified
       \/ e # NULL /\ verified' = verified \cup {u}
    /\ UNCHANGED account

\* From now on signing in leads p to u.
Link(p, u) ==
    /\ account[p] = NULL
    /\ u \in members /\ opened[u] = p
    /\ account' = [account EXCEPT ![p] = u]
    /\ UNCHANGED <<members, address, opened, verified>>

\* The owner of the address of u was heard of.
Prove(u) ==
    /\ u \in members /\ address[u] # NULL
    /\ verified' = verified \cup {u}
    /\ UNCHANGED <<members, address, opened, account>>

Next ==
    \/ \E u \in Ids, e \in Addresses \cup {NULL}, p \in People \cup {NULL} : Open(u, e, p)
    \/ \E p \in People, u \in Ids : Link(p, u)
    \/ \E u \in Ids : Prove(u)

Spec == Init /\ [][Next]_directoryVars

=============================================================================
