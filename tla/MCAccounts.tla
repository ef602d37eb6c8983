----------------------------- MODULE MCAccounts -----------------------------
(***************************************************************************)
(* The accounts on the server: what two requests at once are for.          *)
(***************************************************************************)
EXTENDS Accounts, TLC

SessionOps == {"login", "register", "refresh", "logout", "forgot", "reset", "status",
               "sendReset", "remove"}

\* One request after the other does what a does, or two at once do a and b.
Both(a, b) == {m \in [Requests -> {a, b}] : {m[r] : r \in Requests} = {a, b}}

\* Every client asks for sessions; or one signs in while the other administers,
\* or both do some of each.
Mixes ==
  {[r \in Requests |-> SessionOps]}
  \union Both({"login", "sso", "role"}, {"login", "setup", "role", "patch", "status"})
  \union Both({"login", "sso"}, {"sso", "setup", "delete", "role"})
  \union Both({"login", "setup", "delete"}, {"sso", "delete", "role"})
Demotions == {[r \in Requests |-> {"login", "sso", "setup", "role", "delete"}]}

Symmetry == Permutations(Requests)
=============================================================================
