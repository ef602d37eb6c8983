------------------------------ MODULE IssueSync ------------------------------
(***************************************************************************)
(* JiraSyncService and TrelloSyncService: the issues of a project in Jira, *)
(* or the cards of a Trello board, copied into tasks by a client's request *)
(* or by the scheduler.  Jira is asked for what changed since the last     *)
(* sync, page after page of a list that changes meanwhile; Trello for all  *)
(* cards.  A page is one batch: its tasks are looked up, then written in   *)
(* one transaction; the failure of a batch is counted and the sync goes    *)
(* on.  When it ends, well or badly, its end becomes lastSyncAt.           *)
(*                                                                         *)
(* Time is in minutes, the precision of the query.  An issue is its        *)
(* version; its fields, and how its status is mapped, are left out.        *)
(***************************************************************************)
EXTENDS Handlers, SequencesExt

CONSTANTS
  Issues,       \* the issues (cards), numbered as they were created
  BatchSize,    \* issues per page
  MaxTime,      \* bound on the minutes
  MaxVersion,   \* bound on the changes of an issue
  MaxLinks,     \* bound on the times a project is connected
  Linked,       \* the projects that get connected,
  First         \* the one that is already

ASSUME IssueSyncAssumption ==
  /\ Issues \subseteq Nat \ {0} /\ IsFiniteSet(Issues) /\ BatchSize \in Nat \ {0}
  /\ MaxTime \in Nat /\ MaxVersion \in Nat /\ MaxLinks \in Nat
  /\ Linked \subseteq Projects /\ First \in Linked

VARIABLES
  service,   \* what this behaviour connects projects to
  minute,    \* now
  remote,    \* the issues there: version 0 before it is created, gone when deleted
  copy,      \* the tasks made of issues
  manual,    \* per project: the numbers of its other tasks
  link,      \* the jira_syncs (trello_syncs) table, per project
  missed     \* per project: the issues whose last change a sync left out, for a reason

syncVars == <<service, minute, remote, copy, manual, link, missed>>
RemoteOps == {"remoteEdit", "remoteClose", "remoteDelete", "tick"}
SyncOps == RemoteOps \union {"sync", "schedule", "connect", "import", "disconnect", "configure",
                             "manualTask", "deleteCopy"}

Never == -1
NoCopy == [project |-> NoData, ver |-> 0, number |-> 0]

\* A record of the table has a new id each time a project is connected.
NewLink(l) == [on |-> TRUE, enabled |-> TRUE, last |-> Never, id |-> l.id + 1]
NoLink == [on |-> FALSE, enabled |-> FALSE, last |-> Never, id |-> 0]

SyncInit ==
  /\ service \in {"jira", "trello"}
  /\ minute = 0
  /\ \E n \in Issues \union {0} :
       remote = [i \in Issues |-> [ver |-> IF i <= n THEN 1 ELSE 0, updated |-> 0,
                                  closed |-> FALSE, gone |-> FALSE]]
  /\ copy = [i \in Issues |-> NoCopy]
  /\ manual = [p \in Linked |-> {}]
  /\ link = [p \in Linked |-> IF p = First THEN NewLink(NoLink) ELSE NoLink]
  /\ missed = [p \in Linked |-> {}]

Exists(i) == remote[i].ver > 0 /\ ~remote[i].gone
TaskNumbers(p) == manual[p] \union {copy[i].number : i \in {i \in Issues : copy[i].project = p}}
LastNumber(p) == CHOOSE n \in TaskNumbers(p) \union {0} : \A m \in TaskNumbers(p) : m <= n

-----------------------------------------------------------------------------
\* The service, and the tasks, as others change them.

Minute(r) ==
  /\ minute < MaxTime /\ Once(r, "tick")
  /\ minute' = minute + 1
  /\ UNCHANGED <<service, remote, copy, manual, link, missed>>

RemoteEdit(r) ==
  \E i \in Issues :
    /\ remote[i].ver < MaxVersion /\ ~remote[i].gone
    /\ \A j \in Issues : j < i => remote[j].ver > 0
    /\ Once(r, "remoteEdit")
    /\ remote' = [remote EXCEPT ![i].ver = @ + 1, ![i].updated = minute]
    /\ UNCHANGED <<service, minute, copy, manual, link>>
    /\ missed' = [p \in Linked |-> missed[p] \ {i}]

\* A Trello card is archived, or taken back.
RemoteClose(r) ==
  \E i \in Issues :
    /\ service = "trello" /\ Exists(i) /\ remote[i].ver < MaxVersion /\ Once(r, "remoteClose")
    /\ remote' = [remote EXCEPT ![i].ver = @ + 1, ![i].updated = minute, ![i].closed = ~@]
    /\ UNCHANGED <<service, minute, copy, manual, link>>
    /\ missed' = [p \in Linked |-> missed[p] \ {i}]

RemoteDelete(r) ==
  \E i \in Issues :
    /\ Exists(i) /\ Once(r, "remoteDelete")
    /\ remote' = [remote EXCEPT ![i].gone = TRUE]
    /\ UNCHANGED <<service, minute, copy, manual, link, missed>>

\* A task created by hand takes the next number.
ManualTask(r) ==
  \E p \in Linked :
    /\ manual[p] = {} /\ Once(r, "manualTask")
    /\ manual' = [manual EXCEPT ![p] = @ \union {LastNumber(p) + 1}]
    /\ UNCHANGED <<service, minute, remote, copy, link, missed>>

\* What was imported and deleted here comes back only when it changes there.
\* (The guard on the number keeps the numbers of those that come back bounded.)
DeleteCopy(r) ==
  \E i \in Issues :
    /\ copy[i] # NoCopy /\ copy[i].number <= Cardinality(Issues) /\ Once(r, "deleteCopy")
    /\ copy' = [copy EXCEPT ![i] = NoCopy]
    /\ missed' = [p \in Linked |-> missed[p] \union {i}]
    /\ UNCHANGED <<service, minute, remote, manual, link>>

-----------------------------------------------------------------------------
\* connect, disconnect, updateConfig

Connect(r) ==
  \E p \in Linked :
    /\ ~link[p].on /\ link[p].id < MaxLinks /\ Once(r, "connect")
    /\ link' = [link EXCEPT ![p] = NewLink(@)]
    /\ missed' = [missed EXCEPT ![p] = {}]
    /\ UNCHANGED <<service, minute, remote, copy, manual>>

Disconnect(r) ==
  \E p \in Linked :
    /\ link[p].on /\ Once(r, "disconnect")
    /\ link' = [link EXCEPT ![p].on = FALSE, ![p].enabled = FALSE, ![p].last = Never]
    /\ UNCHANGED <<service, minute, remote, copy, manual, missed>>

Configure(r) ==
  \E p \in Linked :
    /\ link[p].on /\ Once(r, "configure")
    /\ link' = [link EXCEPT ![p].enabled = ~@]
    /\ UNCHANGED <<service, minute, remote, copy, manual, missed>>

-----------------------------------------------------------------------------
\* runSync

\* What a sync reads first: its record, as it was found, and the last number;
\* due: what the scheduler has still to do after it.
Sync(p, l, due) ==
  [p |-> p, id |-> l.id, last |-> l.last, number |-> LastNumber(p), begun |-> minute,
   at |-> 0, page |-> <<>>, found |-> {}, due |-> due]

\* triggerSync
AskSync(r) ==
  \E p \in Linked :
    /\ link[p].on
    /\ Ask(r, "sync", "fetch", Sync(p, link[p], {}))
    /\ UNCHANGED syncVars

\* processScheduledSyncs, with a syncInterval of a minute: the due records are
\* found, then synced one after the other.
Due(p) == link[p].on /\ link[p].enabled /\ (link[p].last = Never \/ link[p].last < minute)

AskSchedule(r) ==
  /\ \E p \in Linked : Due(p)
  /\ Ask(r, "schedule", "next", [due |-> {<<p, link[p]>> : p \in {p \in Linked : Due(p)}}])
  /\ UNCHANGED syncVars

NextScheduled(r) ==
  /\ At(r, "schedule", "next")
  /\ \E d \in req[r].with.due : GoOn(r, "fetch", Sync(d[1], d[2], req[r].with.due \ {d}))
  /\ UNCHANGED syncVars

\* importProjectsToWorkspace, for one project of the service: a new project
\* here, connected and synced at once.
AskImport(r) ==
  \E p \in Linked :
    /\ ~link[p].on /\ link[p].id < MaxLinks
    /\ Ask(r, "import", "fetch", Sync(p, NewLink(link[p]), {}))
    /\ link' = [link EXCEPT ![p] = NewLink(@)]
    /\ missed' = [missed EXCEPT ![p] = {}]
    /\ UNCHANGED <<service, minute, remote, copy, manual>>

Syncing(r, step) == req[r].op \in {"sync", "schedule", "import"} /\ req[r].step = step

ChangedAfter(h) == {i \in Issues : Exists(i) /\ (h.last # Never => remote[i].updated > h.last)}  \* mutant

\* getIssuesBatch: updated >= lastSyncAt
ChangedSince(h) == {i \in Issues : Exists(i) /\ (h.last # Never => remote[i].updated >= h.last)}

\* The n-th issue of a set that is sorted, from 0 on: the oldest first, or the
\* newest; and how many a page has that begins at an offset.
Oldest(S, n) == CHOOSE i \in S : Cardinality({j \in S : j < i}) = n
Newest(S, n) == CHOOSE i \in S : Cardinality({j \in S : j > i}) = n
Size(S, offset) ==
  IF Cardinality(S) > offset + BatchSize THEN BatchSize ELSE Cardinality(S) - offset

\* Jira's pages begin at an offset, in order of creation; Trello's, newest
\* first, before the last card of the page before.
JiraPage(h) == LET S == ChangedSince(h) IN [n \in 1..Size(S, h.at) |-> Oldest(S, h.at + n - 1)]
CardsBefore(h) == {i \in Issues : Exists(i) /\ (h.at # 0 => i < h.at)}
TrelloPage(h) == LET S == CardsBefore(h) IN [n \in 1..Size(S, 0) |-> Newest(S, n - 1)]
Page(h) == IF service = "jira" THEN JiraPage(h) ELSE TrelloPage(h)

FetchPage(r) ==
  /\ Syncing(r, "fetch")
  /\ LET h == req[r].with
         page == Page(h)
     IN IF page = <<>> THEN GoOn(r, "done", h)
        ELSE GoOn(r, "match",
                  [h EXCEPT !.page = [n \in DOMAIN page |-> [i |-> page[n], ver |-> remote[page[n]].ver,
                                                             closed |-> remote[page[n]].closed]],
                            !.at = IF service = "jira" THEN @ + Len(page) ELSE Last(page)])
  /\ UNCHANGED syncVars

Copied(i) == copy[i] # NoCopy
BatchIssues(h) == {h.page[n].i : n \in DOMAIN h.page}

\* The tasks of a page's issues, with their projects.
MatchTasks(r) ==
  /\ Syncing(r, "match")
  /\ LET h == req[r].with IN
       GoOn(r, "write", [h EXCEPT !.found = {<<i, copy[i].project>> : i \in {i \in BatchIssues(h) : Copied(i)}}])
  /\ UNCHANGED syncVars

Found(h, i) == \E f \in h.found : f[1] = i

\* Tasks created, and those moved here from another project (Jira only), take
\* numbers one after the other; a closed card makes no task.
Numbered(h) ==
  {n \in DOMAIN h.page :
     LET e == h.page[n] IN
       IF Found(h, e.i) THEN service = "jira" /\ <<e.i, h.p>> \notin h.found ELSE ~e.closed}
NumberOf(h, n) == h.number + Cardinality({m \in Numbered(h) : m <= n})

\* The batch is refused when a task to update is gone, one to create is there,
\* or a number is taken.
Accepted(h) ==
  \A n \in DOMAIN h.page :
    LET i == h.page[n].i IN
      /\ Found(h, i) => Copied(i)
      /\ n \in Numbered(h) => /\ Copied(i) => Found(h, i)
                              /\ NumberOf(h, n) \notin TaskNumbers(h.p)

Written(h) ==
  [i \in Issues |->
     IF i \in BatchIssues(h)
       THEN LET n == CHOOSE n \in DOMAIN h.page : h.page[n].i = i IN
            IF n \in Numbered(h)
              THEN [project |-> h.p, ver |-> h.page[n].ver, number |-> NumberOf(h, n)]
            ELSE IF Found(h, i) THEN [copy[i] EXCEPT !.ver = h.page[n].ver]
            ELSE copy[i]
     ELSE copy[i]]

\* What was written as it was before another sync.
Outdated(h) == {i \in BatchIssues(h) : copy'[i].ver # remote[i].ver}
Overtakers == {"sync", "schedule", "import", "manualTask", "deleteCopy"}

WriteBatch(r) ==
  /\ Syncing(r, "write")
  /\ LET h == req[r].with
         next == [h EXCEPT !.page = <<>>, !.found = {}, !.number = @ + Cardinality(Numbered(h))]
     IN IF Accepted(h)
          THEN /\ copy' = Written(h)
               /\ missed' = [p \in Linked |->
                               (missed[p] \ BatchIssues(h)) \union
                               (IF Alone(r, Overtakers) THEN {} ELSE Outdated(h))]
               /\ CommitAnd(r, "fetch", next)
          ELSE /\ missed' = IF Alone(r, Overtakers) THEN missed
                            ELSE [missed EXCEPT ![h.p] = @ \union BatchIssues(h)]
               /\ GoOn(r, "fetch", next)
               /\ UNCHANGED copy
  /\ UNCHANGED <<service, minute, remote, manual, link>>

\* The service does not answer: the sync breaks off.  The record is written all
\* the same, unless the project was disconnected.
Unsynced == {i \in Issues : Exists(i) /\ ~(remote[i].closed /\ ~Copied(i)) /\ copy[i].ver # remote[i].ver}

Record(r, lost) ==
  LET h == req[r].with IN
    /\ link' = IF link[h.p].on /\ link[h.p].id = h.id THEN [link EXCEPT ![h.p].last = minute] ELSE link
    /\ missed' = [missed EXCEPT ![h.p] = @ \union lost]
    /\ IF h.due = {} THEN Commit(r) ELSE CommitAnd(r, "next", [due |-> h.due])
    /\ UNCHANGED <<service, minute, remote, copy, manual>>

BreakOff(r) == Syncing(r, "fetch") /\ Record(r, Unsynced)

\* Done.  What changed after its page was read and before this minute is older
\* than lastSyncAt; and a deletion there, between two pages, moves what follows
\* up a place.
Finish(r) ==
  /\ Syncing(r, "done")
  /\ Record(r, IF "remoteDelete" \in req[r].over THEN Unsynced
               ELSE {i \in Unsynced : remote[i].updated >= req[r].with.begun /\ remote[i].updated < minute})

SyncStep(r) ==
  \/ Minute(r) \/ RemoteEdit(r) \/ RemoteClose(r) \/ RemoteDelete(r) \/ ManualTask(r) \/ DeleteCopy(r)
  \/ Connect(r) \/ Disconnect(r) \/ Configure(r)
  \/ AskSync(r) \/ AskSchedule(r) \/ NextScheduled(r) \/ AskImport(r)
  \/ FetchPage(r) \/ MatchTasks(r) \/ WriteBatch(r) \/ BreakOff(r) \/ Finish(r)

\* The synchronisation by itself.
SyncNext == (\E r \in Requests : SyncStep(r)) /\ UNCHANGED mix
SyncSpec == HandlersInit /\ SyncInit /\ [][SyncNext]_<<handlerVars, syncVars>>

-----------------------------------------------------------------------------
\* A change older than lastSyncAt, which no incremental sync asks for any more,
\* is in the task; but for changes made while a sync ran, syncs that broke off,
\* batches that another request made fail or wrote before, pages that a deletion
\* moved, and tasks deleted here.
NothingSkipped ==
  \A p \in Linked : \A i \in Unsynced :
    link[p].on /\ remote[i].updated < link[p].last => i \in missed[p]
=============================================================================
