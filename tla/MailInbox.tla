------------------------------ MODULE MailInbox ------------------------------
(***************************************************************************)
(* EmailSyncService, ProjectInboxService and EmailReplyService: the mails  *)
(* of a project's mailbox become inbox messages, and these comments or     *)
(* tasks; comments are sent as mails.  A scheduled sync asks the mailbox   *)
(* for what arrived since the day of lastSyncAt (IMAP's SINCE knows no     *)
(* hours) and works through it mail by mail; two may overlap.              *)
(*                                                                         *)
(* Mails are numbered as they arrive.  A thread is named by its first mail,*)
(* or, when a reply comes without references, by the mail it answers; a    *)
(* reply in a thread whose first mail is not here has its own number.      *)
(***************************************************************************)
EXTENDS Handlers

CONSTANTS Mails,      \* mails a behaviour can have
          MaxDay,     \* bound on the days
          MaxSends,   \* bound on the times a comment is sent
          Comments    \* the comments of a task written by hand

ASSUME InboxAssumption == Mails \subseteq Nat \ {0} /\ MaxDay \in Nat /\ MaxSends \in Nat

VARIABLES
  day,       \* today
  mail,      \* the mailbox
  message,   \* the inbox_messages table
  made,      \* per mail: the task made of it
  note,      \* per mail: the task it is a comment of, 0 for none
  account,   \* autoCreateTask, and lastSyncAt, which the cursor is
  letters,   \* per comment: whether it is marked as sent, and how often it was
  threaded,  \* the task written by hand has a message, hence a thread
  lost,      \* mails that a sync left out, for a reason
  twice      \* what may be used or sent again, because its request was overtaken or broke off

inboxVars == <<day, mail, message, made, note, account, letters, threaded, lost, twice>>
boxVars == <<message, made, note, account, lost, twice>>
InboxOps == {"arrive", "midnight", "restart", "syncAll", "syncJob", "setAuto", "setStatus",
             "convert", "deleteMailTask", "send"}

Never0 == -1
Arrived == {m \in Mails : mail[m].day # Never0}
Kept == {m \in Mails : message[m].status # "none"}
Late == Arrived \ Kept
LiveTasks == {m \in Mails : made[m] = "live"}

\* A mail opens a thread, or answers one that came before it.
NoMail(m) == [day |-> Never0, answers |-> 0, thread |-> m]
Letters(m, box) ==
  {[day |-> 0, answers |-> 0, thread |-> m]}
  \union UNION {[day : {0}, answers : {k}, thread : {k, box[k].thread, m}] :
                  k \in {k \in Mails : k < m /\ box[k].day # Never0}}

\* The mailbox is not empty when it is connected.
InboxInit ==
  /\ day = 0
  /\ mail \in {box \in [Mails -> [day : {Never0, 0}, answers : Mails \union {0}, thread : Mails]] :
                \A m \in Mails : \/ box[m] = NoMail(m)
                                \/ /\ box[m] \in Letters(m, box)
                                   /\ \A k \in Mails : k < m => box[k].day # Never0}
  /\ message = [m \in Mails |-> [status |-> "none", converted |-> FALSE]]
  /\ made = [m \in Mails |-> "none"]
  /\ note = [m \in Mails |-> 0]
  /\ account = [auto |-> TRUE, last |-> Never0]
  /\ letters = [c \in Comments |-> [marked |-> FALSE, sent |-> 0]]
  /\ threaded = FALSE
  /\ lost = {} /\ twice = {}

-----------------------------------------------------------------------------
\* Around the server: mail arrives, days pass, the server restarts.

Arrive(r) ==
  \E m \in Mails \ Arrived :
    /\ \A k \in Mails : k < m => k \in Arrived
    /\ Once(r, "arrive")
    /\ \E l \in Letters(m, mail) : mail' = [mail EXCEPT ![m] = [l EXCEPT !.day = day]]
    /\ UNCHANGED <<day, boxVars, letters, threaded>>

Midnight(r) ==
  /\ day < MaxDay /\ Once(r, "midnight")
  /\ day' = day + 1
  /\ UNCHANGED <<mail, boxVars, letters, threaded>>

\* What a sync had read when it ended, it counts from its end until the next
\* statement takes it back; what was used is not yet marked.
Unmarked == {m \in Kept : (note[m] # 0 \/ made[m] # "none") /\ ~message[m].converted}
Restart(r) ==
  /\ ~Active(r) /\ "restart" \in mix[r] /\ \E q \in Requests : Active(q)
  /\ req' = [q \in Requests |-> Idle]
  /\ lost' = lost \union {m \in Late : \E q \in Requests : At(q, "syncAll", "stamp")}
  /\ twice' = twice \union Unmarked \union {c \in Comments : letters[c].sent > 0 /\ ~letters[c].marked}
  /\ UNCHANGED <<day, mail, message, made, note, account, letters, threaded>>

-----------------------------------------------------------------------------
\* syncAllInboxes

AskSyncAll(r) ==
  /\ Ask(r, "syncAll", "fetch", [start |-> day, last |-> account.last, list |-> {}, m |-> 0, task |-> 0])
  /\ UNCHANGED inboxVars

AtMail(r, step) == At(r, "syncAll", step)
NextMail(h) == CHOOSE m \in h.list : \A k \in h.list : m <= k
Rest(h) == [h EXCEPT !.list = @ \ {NextMail(h)}]

SinceTime(h) == {m \in Arrived : mail[m].day > h.last}                   \* mutant

\* fetchMessagesBasic
Since(h) == {m \in Arrived : mail[m].day >= h.last}

Fetch(r) ==
  /\ AtMail(r, "fetch")
  /\ LET h == req[r].with IN
       GoOn(r, IF Since(h) = {} THEN "end" ELSE "store", [h EXCEPT !.list = Since(h)])
  /\ UNCHANGED inboxVars

\* The mailbox cannot be read: syncInbox keeps the error to itself, and its
\* caller takes the sync for done.
FetchFails(r) ==
  /\ AtMail(r, "fetch")
  /\ GoOn(r, "stamp", req[r].with)
  /\ lost' = lost \union {m \in Late : mail[m].day < req[r].with.start}
  /\ UNCHANGED <<day, mail, message, made, note, account, letters, threaded, twice>>

Onward(r, h) == GoOn(r, IF Rest(h).list = {} THEN "end" ELSE "store", Rest(h))

\* createAndProcessMessage: the row is inserted unless there is one, ...
StoreMail(r) ==
  /\ AtMail(r, "store")
  /\ LET h == req[r].with
         m == NextMail(h)
     IN IF m \in Kept THEN Onward(r, h) /\ UNCHANGED message
        ELSE /\ message' = [message EXCEPT ![m].status = "PENDING"]
             /\ CommitAnd(r, "rules", h)
  /\ UNCHANGED <<day, mail, made, note, account, letters, threaded, lost, twice>>

\* ... the rules may make it spam, ...
ApplyRules(r) ==
  /\ AtMail(r, "rules")
  /\ LET h == req[r].with
         m == NextMail(h)
     IN \/ /\ message' = [message EXCEPT ![m].status = "IGNORED"]
           /\ CommitAnd(r, "auto", h)
        \/ GoOn(r, "auto", h) /\ UNCHANGED message
  /\ UNCHANGED <<day, mail, made, note, account, letters, threaded, lost, twice>>

\* ... and, unless ignored, it becomes a comment of its thread's task, or of the
\* task that what it answers is a comment of, or was made into.  For no such
\* task, the creation of one is refused by the database client, whose relations
\* to persons have no id to connect.
ThreadTasks(m) == {t \in LiveTasks : mail[t].thread = mail[m].thread}
AnsweredTasks(m) ==
  LET k == mail[m].answers IN
    IF k = 0 THEN {}
    ELSE IF note[k] \in LiveTasks THEN {note[k]}
    ELSE {k} \intersect {t \in LiveTasks : message[t].converted}

AutoCreate(r) ==
  /\ AtMail(r, "auto")
  /\ LET h == req[r].with
         m == NextMail(h)
         tasks == IF ThreadTasks(m) # {} THEN ThreadTasks(m) ELSE AnsweredTasks(m)
     IN IF account.auto /\ message[m].status # "IGNORED" /\ tasks # {}
          THEN \E t \in tasks : GoOn(r, "comment", [h EXCEPT !.m = m, !.task = t])
          ELSE Onward(r, h)
  /\ UNCHANGED inboxVars

\* A message is one comment at most, and one task.
Takers == {"convert", "syncAll", "send"}
Apart(r) == Alone(r, Takers) /\ \A q \in Requests \ {r} : req[q].op \notin Takers
Noted(r, m, t) ==
  /\ note' = [note EXCEPT ![m] = t]
  /\ twice' = IF made[m] # "none" /\ ~Apart(r) THEN twice \union {m} ELSE twice
Converted(m) == message' = [message EXCEPT ![m].status = "CONVERTED", ![m].converted = TRUE]

CommentMail(r) ==
  /\ AtMail(r, "comment")
  /\ LET h == req[r].with IN
       IF note[h.m] = 0 /\ h.task \in LiveTasks
         THEN Noted(r, h.m, h.task) /\ CommitAnd(r, "mark", h)
         ELSE Onward(r, h) /\ UNCHANGED <<note, twice>>
  /\ UNCHANGED <<day, mail, message, made, account, letters, threaded, lost>>

MarkMail(r) ==
  /\ AtMail(r, "mark")
  /\ Converted(req[r].with.m)
  /\ CommitAnd(r, IF Rest(req[r].with).list = {} THEN "end" ELSE "store", Rest(req[r].with))
  /\ UNCHANGED <<day, mail, made, note, account, letters, threaded, lost, twice>>

\* An error in any of this is logged, and the next mail taken up.
MailFails(r) ==
  /\ \E step \in {"store", "rules", "mark"} : AtMail(r, step)
  /\ LET h == req[r].with IN
       /\ Onward(r, h)
       /\ lost' = lost \union ({NextMail(h)} \ Kept)
       /\ twice' = twice \union ({NextMail(h)} \intersect Unmarked)
  /\ UNCHANGED <<day, mail, message, made, note, account, letters, threaded>>

\* lastSyncAt: syncInbox writes its end, syncAllInboxes its start.
EndSync(r) ==
  /\ AtMail(r, "end")
  /\ account' = [account EXCEPT !.last = day]
  /\ CommitAnd(r, "stamp", req[r].with)
  /\ UNCHANGED <<day, mail, message, made, note, letters, threaded, lost, twice>>

StampSync(r) ==
  /\ AtMail(r, "stamp")
  /\ account' = [account EXCEPT !.last = req[r].with.start]
  /\ lost' = IF Alone(r, {"syncAll", "syncJob"}) THEN lost ELSE lost \union Late
  /\ Commit(r)
  /\ UNCHANGED <<day, mail, message, made, note, letters, threaded, twice>>

\* EmailSyncProcessor, which a manual sync is queued for, moves the cursor and
\* reads nothing.
SyncJob(r) ==
  /\ Once(r, "syncJob")
  /\ account' = [account EXCEPT !.last = day]
  /\ lost' = lost \union Late
  /\ UNCHANGED <<day, mail, message, made, note, letters, threaded, twice>>

-----------------------------------------------------------------------------
\* ProjectInboxService

SetAuto(r) ==
  /\ Once(r, "setAuto")
  /\ account' = [account EXCEPT !.auto = ~@]
  /\ UNCHANGED <<day, mail, message, made, note, letters, threaded, lost, twice>>

SetStatus(r) ==
  \E m \in Kept, status \in {"PENDING", "IGNORED"} :
    /\ Once(r, "setStatus")
    /\ message' = [message EXCEPT ![m].status = status]
    /\ UNCHANGED <<day, mail, made, note, account, letters, threaded, lost, twice>>

DeleteMailTask(r) ==
  \E t \in LiveTasks :
    /\ Once(r, "deleteMailTask")
    /\ made' = [made EXCEPT ![t] = "gone"]
    /\ UNCHANGED <<day, mail, message, note, account, letters, threaded, lost, twice>>

Convertible(m) == m \in Kept                                           \* mutant

\* convertToTask
NotConverted(m) == m \in Kept /\ ~message[m].converted

AskConvert(r) ==
  \E m \in Mails :
    /\ NotConverted(m)
    /\ Ask(r, "convert", "find", [m |-> m, task |-> 0])
    /\ UNCHANGED inboxVars

FindThread(r) ==
  /\ At(r, "convert", "find")
  /\ LET h == req[r].with IN
       \/ \E t \in ThreadTasks(h.m) : GoOn(r, "comment", [h EXCEPT !.task = t])
       \/ ThreadTasks(h.m) = {} /\ GoOn(r, "create", h)
  /\ UNCHANGED inboxVars

CommentMessage(r) ==
  /\ At(r, "convert", "comment")
  /\ LET h == req[r].with IN
       IF note[h.m] = 0 /\ h.task \in LiveTasks
         THEN Noted(r, h.m, h.task) /\ CommitAnd(r, "mark", h)
         ELSE Answer(r) /\ UNCHANGED <<note, twice>>
  /\ UNCHANGED <<day, mail, message, made, account, letters, threaded, lost>>

\* Refused when the message has a task, or another has taken the number.
CreateFromMessage(r) ==
  /\ At(r, "convert", "create")
  /\ LET h == req[r].with IN
       \/ /\ made[h.m] # "live"
          /\ made' = [made EXCEPT ![h.m] = "live"]
          /\ twice' = IF Apart(r) THEN twice ELSE twice \union {h.m}
          /\ CommitAnd(r, "mark", h)
       \/ /\ made[h.m] = "live" \/ ~Alone(r, {"convert"})
          /\ Answer(r)
          /\ UNCHANGED <<made, twice>>
  /\ UNCHANGED <<day, mail, message, note, account, letters, threaded, lost>>

MarkMessage(r) ==
  /\ At(r, "convert", "mark")
  /\ Converted(req[r].with.m)
  /\ Commit(r)
  /\ UNCHANGED <<day, mail, made, note, account, letters, threaded, lost, twice>>

-----------------------------------------------------------------------------
\* sendCommentAsEmail: in the task's thread, unless it was sent; or as the first
\* mail of a new thread, with an inbox message for the task.

AskSend(r) ==
  \E c \in Comments :
    /\ letters[c].sent < MaxSends /\ (threaded => ~letters[c].marked)
    /\ Ask(r, "send", IF threaded THEN "reply" ELSE "first", c)
    /\ UNCHANGED inboxVars

SendMail(r) ==
  /\ At(r, "send", "reply") \/ At(r, "send", "first")
  /\ LET c == req[r].with IN
       /\ letters' = [letters EXCEPT ![c].sent = @ + 1]
       /\ twice' = IF Apart(r) THEN twice ELSE twice \union {c}
       /\ CommitAnd(r, IF req[r].step = "first" THEN "link" ELSE "mark", c)
  /\ UNCHANGED <<day, mail, message, made, note, account, threaded, lost>>

LinkThread(r) ==
  /\ At(r, "send", "link")
  /\ threaded' = TRUE
  /\ CommitAnd(r, "mark", req[r].with)
  /\ UNCHANGED <<day, mail, message, made, note, account, letters, lost, twice>>

MarkSent(r) ==
  /\ At(r, "send", "mark")
  /\ letters' = [letters EXCEPT ![req[r].with].marked = TRUE]
  /\ Commit(r)
  /\ UNCHANGED <<day, mail, message, made, note, account, threaded, lost, twice>>

InboxStep(r) ==
  \/ Arrive(r) \/ Midnight(r) \/ Restart(r)
  \/ AskSyncAll(r) \/ Fetch(r) \/ FetchFails(r) \/ StoreMail(r) \/ ApplyRules(r) \/ AutoCreate(r)
  \/ CommentMail(r) \/ MarkMail(r) \/ MailFails(r) \/ EndSync(r) \/ StampSync(r) \/ SyncJob(r)
  \/ SetAuto(r) \/ SetStatus(r) \/ DeleteMailTask(r)
  \/ AskConvert(r) \/ FindThread(r) \/ CommentMessage(r) \/ CreateFromMessage(r) \/ MarkMessage(r)
  \/ AskSend(r) \/ SendMail(r) \/ LinkThread(r) \/ MarkSent(r)

InboxNext == (\E r \in Requests : InboxStep(r)) /\ UNCHANGED mix
InboxSpec == HandlersInit /\ InboxInit /\ [][InboxNext]_<<handlerVars, inboxVars>>

-----------------------------------------------------------------------------
\* A mail older than the day the next sync asks from is in the inbox: but for
\* mails whose sync failed, or was overtaken, and those that a manual sync, or a
\* restart before the cursor was taken back, left behind.
MailKept ==
  (\A r \in Requests : ~AtMail(r, "stamp")) =>
    \A m \in Late : mail[m].day < account.last => m \in lost

\* A message becomes one task or one comment, a thread one task, and a comment
\* one mail, unless another request used it at the same time, or the server
\* stopped before it was marked.
MailUsedOnce ==
  /\ \A m \in Mails : note[m] # 0 /\ made[m] # "none" => m \in twice
  /\ \A t, u \in LiveTasks : t # u /\ mail[t].thread = mail[u].thread => {t, u} \intersect twice # {}
  /\ \A c \in Comments : letters[c].sent > 1 => c \in twice

\* Every mail is handled, and handled once: neither of the two goes wrong.
MailHandledOnce == MailKept /\ MailUsedOnce
=============================================================================
