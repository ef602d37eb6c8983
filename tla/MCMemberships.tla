--------------------------- MODULE MCMemberships ---------------------------
EXTENDS Memberships, TLC

CONSTANTS p1, w1

InW1 == [p \in Projects |-> w1]

Share(s) == {c \in [Requests -> s] : s = {c[r] : r \in Requests}}
Staff == {"MEMBER", "MANAGER"}

\* One request after the other asks for everything; one adds members while
\* another removes them; or one changes and removes them while ownership moves.
Everything == Share({OrgOps \union WsOps \union PrjOps \union {"MANAGER"}, {}})
Additions == Share({{"orgAdd", "wsAdd", "prjAdd"} \union Staff, {"orgRemove", "wsAdd", "MEMBER"}})
Owners == Share({{"orgUpdate", "orgRemove", "MEMBER", "OWNER"}, {"transfer"}})
Mixes == Everything \union Additions \union Owners

Symmetry == Permutations(Requests)
=============================================================================
