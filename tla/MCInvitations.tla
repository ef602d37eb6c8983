--------------------------- MODULE MCInvitations ---------------------------
EXTENDS Invitations, TLC

CONSTANTS p1, w1

InW1 == [p \in Projects |-> w1]

Share(s) == {c \in [Requests -> s] : s = {c[r] : r \in Requests}}

\* One request after the other does anything with invitations and removes
\* members; one accepts while members come and go; or two answer and resend.
Everything == Share({InviteOps \union {"orgRemove", "MEMBER"}, {}})
              \union Share({{"invite", "accept", "orgRemove", "resend", "MEMBER", "MANAGER"}, {}})
Accepts == Share({{"invite", "accept", "MEMBER", "MANAGER"}, {"orgRemove", "prjAdd", "MEMBER"}})
           \union Share({{"invite", "accept", "MEMBER"}, {"wsRemove", "MEMBER"}})
Answers == Share({{"invite", "accept", "decline", "MEMBER"}, {"accept", "MEMBER"}})
           \union Share({{"invite", "accept", "decline", "MEMBER"}, {"resend", "invite", "MEMBER"}})
Mixes == Everything \union Accepts \union Answers

Symmetry == Permutations(Requests) \union Permutations(Invites)
=============================================================================
