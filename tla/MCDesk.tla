------------------------------- MODULE MCDesk -------------------------------
(***************************************************************************)
(* The workspace tree, the synchronisation with Jira and Trello, and the   *)
(* mail inbox.  They share no state that their properties tell apart: a    *)
(* behaviour works one of them, and the others stay as they begin.         *)
(***************************************************************************)
EXTENDS Spaces, IssueSync, MailInbox, TLC

\* One request after the other does what a does, or two at once do a and b.
Both(a, b) == {m \in [Requests -> {a, b}] : {m[r] : r \in Requests} = {a, b}}

Slugs == {<<"app">>}
SpaceMixes ==
  Both({"createSpace", "moveSpace"}, {"moveSpace"})
  \union Both({"createSpace", "moveSpace"}, {"removeSpace", "createSpace"})
  \union Both(ArchiveOps, ArchiveOps \union {"createProject"})
  \union Both({"createProject"}, {"createProject", "createOrg", "removeProject"})
  \union Both({"createSpace"}, {"createOrg", "updateSpace", "removeOrg", "archiveOrg", "createSpace"})

SyncMixes ==
  Both({"sync"}, {"tick", "remoteEdit"})
  \union Both({"sync"}, {"sync", "tick"})
  \union Both({"sync"}, {"manualTask", "deleteCopy", "tick"})
  \union Both({"sync"}, {"connect", "disconnect"})
  \union Both({"schedule"}, {"tick", "remoteEdit", "remoteClose"})
  \union Both({"schedule"}, {"configure", "sync"})
  \union Both({"schedule"}, {"import", "tick"})
  \union Both({"import"}, {"remoteEdit", "remoteDelete", "tick"})

InboxMixes ==
  Both({"syncAll"}, {"arrive", "midnight"})
  \union Both({"syncAll"}, {"midnight", "restart", "syncJob"})
  \union Both({"syncAll"}, {"syncAll", "setAuto"})
  \union Both({"syncAll"}, {"convert", "deleteMailTask"})
  \union Both({"syncAll", "convert"}, {"convert"})
  \union Both({"syncAll"}, {"convert", "setStatus"})
  \union Both({"send"}, {"send", "restart"})

DeskMixes == SpaceMixes \union SyncMixes \union InboxMixes

\* The parts a behaviour does not work begin in one way.
DeskInit ==
  /\ HandlersInit /\ SpacesInit /\ SyncInit /\ InboxInit
  /\ mix \notin SyncMixes => service = "jira" /\ \A i \in Issues : ~Exists(i)
  /\ mix \notin InboxMixes => Arrived = {}

DeskNext ==
  \E r \in Requests :
    /\ \/ mix[r] \subseteq SpaceOps /\ SpaceStep(r)
          /\ UNCHANGED <<syncVars, inboxVars>>
       \/ mix[r] \subseteq SyncOps /\ SyncStep(r)
          /\ UNCHANGED <<spaceVars, inboxVars>>
       \/ mix[r] \subseteq InboxOps /\ InboxStep(r)
          /\ UNCHANGED <<spaceVars, syncVars>>
    /\ UNCHANGED mix

deskVars == <<handlerVars, spaceVars, syncVars, inboxVars>>
DeskSpec == DeskInit /\ [][DeskNext]_deskVars
DeskSymmetry == Permutations(Requests)
=============================================================================
