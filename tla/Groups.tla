------------------------------- MODULE Groups -------------------------------
(***************************************************************************)
(* What the parties of game_data/operate/operate.cpp promise to a player,  *)
(* without the array of entries and the fields of the players: there are   *)
(* groups, a player is in at most one of them, a group has a leader among  *)
(* its members and holds invitations, nobody gets in without one, and a    *)
(* leader who goes is followed by another member.  Party implements this.  *)
(***************************************************************************)
CONSTANT Player

VARIABLE groups    \* records with a leader, members and invited players

GroupOf(l, M, I) == [leader |-> l, members |-> M, invited |-> I]

\* In no group.
Alone(p) == \A X \in groups : p \notin X.members

\* Group X becomes Y.
Becomes(X, Y) == groups' = (groups \ {X}) \cup {Y}

Ends(X) == groups' = groups \ {X}

\* A new group, with the first invitation.
Found(h, g) ==
    /\ h # g /\ Alone(h) /\ Alone(g)
    /\ groups' = groups \cup {GroupOf(h, {h}, {g})}

Invite(X, g) ==
    /\ Alone(g)
    /\ Becomes(X, GroupOf(X.leader, X.members, X.invited \cup {g}))

\* A leader without followers and invitations is no group.
Revoke(X, g) ==
    /\ g \in X.invited
    /\ IF X.members = {X.leader} /\ X.invited = {g} THEN Ends(X)
       ELSE Becomes(X, GroupOf(X.leader, X.members, X.invited \ {g}))

Join(X, g) ==
    /\ Alone(g) /\ g \in X.invited
    /\ Becomes(X, GroupOf(X.leader, X.members \cup {g}, X.invited \ {g}))

\* The invitations of the old leader are void.
Pass(X, l) ==
    /\ l \in X.members \ {X.leader}
    /\ Becomes(X, GroupOf(l, X.members, {}))

\* A pair that expects nobody else ends with either of the two.
Leave(X, m) ==
    /\ m \in X.members
    /\ IF X.members = {m} \/ (X.invited = {} /\ \E q \in X.members : X.members = {m, q}) THEN Ends(X)
       ELSE IF m # X.leader THEN Becomes(X, GroupOf(X.leader, X.members \ {m}, X.invited))
       ELSE \E l \in X.members \ {m} : Becomes(X, GroupOf(l, X.members \ {m}, {}))

GroupsInit == groups = {}

GroupsNext ==
    \/ \E h, g \in Player : Found(h, g)
    \/ \E X \in groups, p \in Player : Invite(X, p) \/ Revoke(X, p) \/ Join(X, p) \/ Pass(X, p) \/ Leave(X, p)

GroupsSpec == GroupsInit /\ [][GroupsNext]_groups

=============================================================================
