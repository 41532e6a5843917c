------------------------------- MODULE MCAccess -------------------------------
(***************************************************************************)
(* An instance of Access for TLC: a user who is the admin of the first     *)
(* installation and a member of both, or so far of the second only, and    *)
(* the static admin token.                                                 *)
(***************************************************************************)
EXTENDS Access, TLC

CONSTANTS alice, ta, root, p1, p2, r1, r2

MCOwner == (ta :> alice) @@ (root :> root)
MCFirst == {alice :> {1, 2}, alice :> {2}}
MCRoles == (1 :> (alice :> "admin")) @@ (2 :> (alice :> None))

Once == [h \in Happenings |-> IF h = "request" THEN 3 ELSE 1]

Ask(kind, login, role) == [kind |-> kind, inst |-> 1, login |-> login, role |-> role]
MCAsked == {Ask("read", None, None), Ask("requeue", None, None), Ask("revoke", alice, None),
            Ask("grant", alice, "operator"), Ask("grant", alice, None)}

\* Processes are alike, and so are requests.
Alike == Permutations({p1, p2}) \cup Permutations({r1, r2})
=============================================================================
