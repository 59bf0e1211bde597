-------------------------------- MODULE Notices --------------------------------
(***************************************************************************)
(* NotificationsService.  Every reading of the list or of the count of     *)
(* unread notices first generates the automatic ones: the conditions are   *)
(* counted together, then each one that holds is looked up and inserted,   *)
(* title by title, outside any transaction.                                *)
(***************************************************************************)
EXTENDS Accounts, Sequences

CONSTANTS
    Notice,     \* ids of Notification rows
    Titles,     \* the automatic notices, in the order the code tries them
    Alarms      \* the sets of titles whose conditions may hold together

Automatic == {Titles[i] : i \in DOMAIN Titles}

ASSUME NoticeAssumption ==
    /\ Titles \in Seq(Automatic)
    /\ Alarms \subseteq SUBSET Automatic
    /\ {None, "written"} \cap Automatic = {}   \* what is written has a title of its own

VARIABLES
    notice,     \* committed Notification rows
    noticing    \* the titles that the reader r has still to look up

noticeVars == <<notice, noticing>>

NoNotice == [title |-> None, to |-> None, read |-> FALSE]

Posted == {n \in Notice : notice[n] # NoNotice}
Unread(title) == {n \in Posted : notice[n].title = title /\ ~notice[n].read}
\* Notices without a recipient are for everyone.
Reaches(n, u) == notice[n].to \in {u, None}

Remaining(titles, alarms) ==
    LET Raised(title) == title \in alarms IN SelectSeq(titles, Raised)

-----------------------------------------------------------------------------
(* findAll, unreadCount *)

\* The four counts, by one Promise.all.  For a reader who is no administrator
\* nothing is generated.
StartNotices(r, alarms) ==
    /\ Step(r, "idle", "findNotice")
    /\ MayAdminister(r)
    /\ noticing' = [noticing EXCEPT ![r] = Remaining(Titles, alarms)]
    /\ UNCHANGED notice

FindNotice(r) ==
    /\ noticing[r] # <<>>
    /\ \/ /\ Unread(Head(noticing[r])) = {}
          /\ Step(r, "findNotice", "createNotice")
          /\ UNCHANGED noticing
       \/ /\ Unread(Head(noticing[r])) # {}
          /\ Step(r, "findNotice", "findNotice")
          /\ noticing' = [noticing EXCEPT ![r] = Tail(@)]
    /\ UNCHANGED notice

CreateNotice(r, n) ==
    /\ Step(r, "createNotice", "findNotice")
    /\ n \notin Posted
    /\ notice' = [notice EXCEPT ![n] =
         [title |-> Head(noticing[r]), to |-> None, read |-> FALSE]]
    /\ noticing' = [noticing EXCEPT ![r] = Tail(@)]

\* The list or the count is answered.  An error in between is swallowed, and
\* the titles that remain wait for the next reading.
AnswerNotices(r) ==
    /\ pc[r] \in {"findNotice", "createNotice"}
    /\ pc' = [pc EXCEPT ![r] = "idle"]
    /\ noticing' = [noticing EXCEPT ![r] = <<>>]
    /\ UNCHANGED notice

-----------------------------------------------------------------------------
(* create, markRead, readAll, remove *)

\* A notice an administrator writes, under a title of their own.
PostNotice(r, n, to) ==
    /\ Idle(r)
    /\ MayAdminister(r)
    /\ n \notin Posted
    /\ notice' = [notice EXCEPT ![n] = [title |-> "written", to |-> to, read |-> FALSE]]
    /\ UNCHANGED <<pc, noticing>>

\* The notice may be another user's for an administrator only.
MarkRead(r, n) ==
    /\ Idle(r)
    /\ n \in Posted
    /\ Reaches(n, userOf[r]) \/ MayAdminister(r)
    /\ notice' = [notice EXCEPT ![n].read = TRUE]
    /\ UNCHANGED <<pc, noticing>>

ReadAll(r) ==
    /\ Idle(r)
    /\ notice' = [n \in Notice |->
         IF n \in Posted /\ Reaches(n, userOf[r]) THEN [notice[n] EXCEPT !.read = TRUE]
                                                  ELSE notice[n]]
    /\ UNCHANGED <<pc, noticing>>

RemoveNotice(r, n) ==
    /\ Idle(r)
    /\ n \in Posted
    /\ Reaches(n, userOf[r]) \/ MayAdminister(r)
    /\ notice' = [notice EXCEPT ![n] = NoNotice]
    /\ UNCHANGED <<pc, noticing>>

-----------------------------------------------------------------------------
StartNotice(r) ==
    \/ \E alarms \in Alarms : StartNotices(r, alarms)
    \/ \E n \in Notice :
         \/ \E to \in Existing \cup {None} : PostNotice(r, n, to)
         \/ MarkRead(r, n)
         \/ RemoveNotice(r, n)
    \/ ReadAll(r)

NoticeStep(r) ==
    \/ FindNotice(r) \/ AnswerNotices(r)
    \/ \E n \in Notice : CreateNotice(r, n)

NoticesInit ==
    /\ notice = [n \in Notice |-> NoNotice]
    /\ noticing = [r \in Request |-> <<>>]

-----------------------------------------------------------------------------
(* Properties *)

\* An automatic notice that nobody has read is not posted again, however often
\* and by whomever the list is read: true while the readings do not overlap,
\* since nothing but the lookup prevents a second row.
OneUnreadPerTitle ==
    \A i \in DOMAIN Titles, m, n \in Notice : {m, n} \subseteq Unread(Titles[i]) => m = n
=============================================================================
