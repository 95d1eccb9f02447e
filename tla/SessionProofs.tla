--------------------------- MODULE SessionProofs ----------------------------
(***************************************************************************)
(* Proofs about Session: what svn rm and svn up, started by 'r' and 'u',   *)
(* do to the files, and that the list is what is in the files, for any     *)
(* number of paths, any lines and any number of changes by other programs. *)
(***************************************************************************)
EXTENDS Session, SvnCursesProofs

-----------------------------------------------------------------------------
(***************************************************************************)
(* The inductive invariant.                                                *)
(***************************************************************************)
\* handler has its fields, whatever is in them.
Fields(h) == [op : {h.op}, items : {h.items}, keepLocal : {h.keepLocal},
              agreed : {h.agreed}, ran : {h.ran}]
Records == handler \in Fields(handler)

Files ==
  /\ node \in [Path -> WC!Node] /\ disk \in [Path -> WC!Disk]
  /\ queue \in [Path -> WC!Work] /\ changes \in Nat

\* svn is only run after 'y'.
Agreed ==
  /\ pc = "keep" => handler.op = "r" /\ handler.agreed
  /\ pc = "run" => handler.agreed

\* svn add, svn rm and svn up are each run by their own key.
Steps ==
  /\ job.step # "idle" => pc = "run"
  /\ job.step = "add" => handler.op = "a"
  /\ job.step \in {"restore", "edit"} => handler.op = "u"
  /\ job.step = "work" => handler.op \in {"r", "u"}

\* The text of the file is one that svn rm may erase.
lost(p) == WC!unsaved(p) => before[p] = "deleted" \/ p \in raced

\* A path is marked as one that svn rm has found deletable.
marked(p) == p \in targets(handler.items) => node[p] = WC!afterDelete(before[p])

\* What svn rm has done so far.
Removing ==
  /\ job.step = "check" =>
       /\ handler.op = "r" /\ ~handler.keepLocal
       /\ job.targets = targets(handler.items)
       /\ node = before
       /\ \A p \in Path : p \in job.targets \ job.todo => lost(p)
  /\ job.step = "work" /\ handler.op = "r" => \A p \in Path : marked(p)
  /\ RemovesAllOrNone

\* What is queued: svn up writes over no unsaved text but one it has not
\* seen, or one that it has merged; svn rm erases only what it may.
Queued(p) ==
  queue[p] # "none" =>
    /\ job.step \in {"restore", "edit", "work"} /\ p \notin job.todo
    /\ \/ /\ handler.op = "u"
          /\ queue[p] = "merge" \/ (WC!unsaved(p) => p \in raced)
       \/ /\ handler.op = "r" /\ ~handler.keepLocal /\ queue[p] = "remove"
          /\ p \in targets(handler.items) /\ lost(p)

SInv ==
  /\ Records /\ Files /\ Agreed /\ Steps /\ Removing
  /\ \A p \in Path : Queued(p)

-----------------------------------------------------------------------------
LEMMA InitSInv == SessionInit => SInv
<1> SUFFICES ASSUME SessionInit PROVE SInv
  OBVIOUS
<1>1. Records
  BY DEF SessionInit, Init, NoHandler, Records, Fields
<1>2. Files /\ \A p \in Path : Queued(p)
  BY DEF SessionInit, WC!Init, WC!Node, WC!Disk, WC!Work, Files, Queued
<1>3. Agreed /\ Steps /\ Removing
  BY DEF SessionInit, Init, WC!Init, WC!Idle, WC!process, Agreed, Steps, Removing,
         RemovesAllOrNone
<1> QED BY <1>1, <1>2, <1>3 DEF SInv

\* While exec waits for svn, nothing else of the program happens.
LEMMA ProgramWaits ==
  ASSUME pc = "run" \/ pc = "st"
  PROVE  ~(Boot \/ User \/ Timeout \/ Terminated)
<1>1. CASE pc = "run"
  BY <1>1 DEF Boot, User, Timeout, Terminated, KeyQuit, KeyMove, KeyG, SecondG,
         SwallowKey, KeySpace, KeySpaceStray, KeyHidden, KeyStatus, KeyAdd,
         KeyRemove, KeyUpdate, ask, AnswerYes, Refuse, LeaveOutput, AnswerKeep,
         Ended
<1>2. CASE pc = "st"
  BY <1>2 DEF Boot, User, Timeout, Terminated, KeyQuit, KeyMove, KeyG, SecondG,
         SwallowKey, KeySpace, KeySpaceStray, KeyHidden, KeyStatus, KeyAdd,
         KeyRemove, KeyUpdate, ask, AnswerYes, Refuse, LeaveOutput, AnswerKeep,
         Ended
<1> QED BY <1>1, <1>2

\* Steps that neither start svn nor change the handler.
Aside == handler' = handler /\ pc' \notin {"keep", "run"}

LEMMA AskRecords ==
  ASSUME NEW key, NEW its, NEW w, NEW ms, ask(key, its, w, ms)
  PROVE  Records'
<1>1. handler' \in [op : {key}, items : {its}, keepLocal : {FALSE},
                    agreed : {FALSE}, ran : {FALSE}]
  BY DEF ask, NoHandler
<1> QED BY <1>1 DEF Records, Fields

\* The handler keeps its fields, and svn rm is only run after 'y'.
LEMMA ProgramAgreed ==
  ASSUME Records, Agreed,
         Boot \/ User \/ Timeout \/ Terminated \/ PopenFails
  PROVE  Agreed' /\ Records'
<1>1. CASE Boot \/ KeyQuit \/ KeyG \/ SwallowKey \/ KeyHidden \/ LeaveOutput
           \/ PopenFails
  <2>1. Aside
    BY <1>1 DEF Boot, KeyQuit, KeyG, SwallowKey, KeyHidden, LeaveOutput,
                PopenFails, goto, refreshStatusItems, Aside
  <2> QED BY <2>1 DEF Aside, Agreed, Records, Fields
<1>2. CASE KeyMove \/ SecondG \/ KeySpace \/ KeySpaceStray
  <2>1. Aside
    BY <1>2 DEF KeyMove, SecondG, KeySpace, KeySpaceStray, moveAndPrint,
                printAllStatus, Aside
  <2> QED BY <2>1 DEF Aside, Agreed, Records, Fields
<1>3. CASE KeyStatus \/ KeyAdd \/ KeyRemove \/ KeyUpdate
  <2>1. pc' \in {"st", "ask"}
    BY <1>3 DEF KeyStatus, KeyAdd, KeyRemove, KeyUpdate, ask, refreshStatusItems
  <2>2. Records'
    <3>1. CASE KeyStatus
      BY <3>1 DEF KeyStatus, NoHandler, Records, Fields
    <3>2. CASE KeyAdd \/ KeyRemove \/ KeyUpdate
      BY <3>2, AskRecords DEF KeyAdd, KeyRemove, KeyUpdate
    <3> QED BY <1>3, <3>1, <3>2
  <2> QED BY <2>1, <2>2 DEF Agreed
<1>4. CASE AnswerYes
  BY <1>4 DEF AnswerYes, Agreed, Records, Fields
<1>5. CASE \E keep \in BOOLEAN : AnswerKeep(keep)
  BY <1>5 DEF AnswerKeep, Agreed, Records, Fields
<1>6. CASE Refuse
  BY <1>6 DEF Refuse, listAgain, refreshStatusItems, NoHandler, Agreed,
              Records, Fields
<1>7. CASE Terminated
  BY <1>7 DEF Terminated, vars, Agreed, Records, Fields
<1>8. FALSE \in BOOLEAN
  OBVIOUS
<1> QED BY <1>1, <1>2, <1>3, <1>4, <1>5, <1>6, <1>7, <1>8 DEF User, Timeout

LEMMA ProgramSInv ==
  ASSUME SInv, Program
  PROVE  SInv'
<1>1. UNCHANGED <<node, disk, job, queue, changes, raced, before>>
  BY DEF Program, wc, others
<1>2. job.step = "idle"
  <2>1. CASE PopenFails /\ job = WC!Idle
    BY <2>1 DEF WC!Idle, WC!process
  <2>2. CASE Boot \/ User \/ Timeout \/ Terminated
    <3>1. pc # "run"
      BY <2>2, ProgramWaits
    <3> QED BY <3>1 DEF SInv, Steps
  <2> QED BY <2>1, <2>2 DEF Program
<1>3. Records' /\ Agreed'
  BY <1>1, ProgramAgreed DEF Program, SInv, Records
<1>4. Files' /\ Steps' /\ Removing'
  BY <1>1, <1>2 DEF SInv, Files, Steps, Removing, RemovesAllOrNone
<1>5. \A p \in Path : Queued(p)'
  BY <1>1, <1>2 DEF SInv, Queued
<1> QED BY <1>3, <1>4, <1>5 DEF SInv

-----------------------------------------------------------------------------
(***************************************************************************)
(* The svn processes.                                                      *)
(***************************************************************************)
\* Steps that change nothing of all this.
LEMMA SameSInv ==
  ASSUME SInv, UNCHANGED <<vars, wc, changes, raced, before>>
  PROVE  SInv'
<1>1. UNCHANGED <<pc, handler, node, disk, job, queue, changes, raced, before>>
  BY DEF vars, wc
<1>2. Records' /\ Files' /\ Agreed' /\ Steps'
  BY <1>1 DEF SInv, Records, Fields, Files, Agreed, Steps
<1>3. Removing'
  BY <1>1 DEF SInv, Removing, RemovesAllOrNone, lost, marked, WC!unsaved,
              WC!afterDelete
<1>4. \A p \in Path : Queued(p)'
  BY <1>1 DEF SInv, Queued, lost, WC!unsaved
<1> QED BY <1>2, <1>3, <1>4 DEF SInv

\* A listing leaves the files alone and ends the handler.
LEMMA StatusSInv ==
  ASSUME SInv, SvnStatus
  PROVE  SInv'
<1>1. UNCHANGED <<node, disk, job, queue, changes, raced, before>> /\ pc = "st"
  BY DEF SvnStatus, wc, ListingDone, EmptyListing
<1>2. \/ handler' = NoHandler /\ pc' \in {"key", "failed"}
      \/ handler' = handler /\ pc' = "killed"
  BY DEF SvnStatus, ListingDone, EmptyListing, showListing, printAllStatus
<1>3. job.step = "idle"
  BY <1>1 DEF SInv, Steps
<1>4. Records' /\ Agreed' /\ Files' /\ Steps' /\ Removing'
  BY <1>1, <1>2, <1>3
     DEF SInv, Records, Fields, NoHandler, Agreed, Files, Steps, Removing,
         RemovesAllOrNone
<1>5. \A p \in Path : Queued(p)'
  BY <1>1, <1>3 DEF SInv, Queued
<1> QED BY <1>4, <1>5 DEF SInv

\* An edited file that svn rm does not refuse is scheduled for deletion.
LEMMA DeletableEdited ==
  ASSUME Files, NEW p \in Path, WC!deletable(p), WC!unsaved(p)
  PROVE  node[p] = "deleted"
<1>1. node[p] \in WC!Node /\ disk[p] = "edited"
  BY DEF Files, WC!unsaved
<1> QED BY <1>1 DEF WC!deletable, WC!status, WC!letter, WC!Node

\* Nothing is queued unless svn up or svn rm is at work.
LEMMA NothingQueued ==
  ASSUME SInv, job.step \notin {"restore", "edit", "work"}
  PROVE  \A p \in Path : queue[p] = "none"
BY DEF SInv, Queued

\* What svn add, svn rm and svn up leave alone when they are started.
StartFrame == pc = "run" /\ UNCHANGED <<vars, walk, changes, listed, stale, raced>>

\* svn add and svn up.
LEMMA StartOtherSInv ==
  ASSUME SInv, StartFrame,
         \/ handler.op = "a" /\ WC!StartAdd(targets(handler.items))
         \/ handler.op = "u" /\ WC!StartUpdate
  PROVE  SInv'
<1>1. /\ pc' = pc /\ handler' = handler /\ changes' = changes /\ raced' = raced
      /\ node' = node /\ disk' = disk /\ queue' = queue
      /\ handler.op # "r" /\ pc = "run" /\ job.step = "idle"
  BY DEF StartFrame, vars, WC!StartAdd, WC!StartUpdate, WC!files
<1>2. /\ job'.step \in {"add", "restore", "done"}
      /\ job'.step = "add" => handler.op = "a"
      /\ job'.step = "restore" => handler.op = "u"
  BY DEF WC!StartAdd, WC!StartUpdate, WC!process
<1>3. Records' /\ Files' /\ Agreed' /\ Steps'
  BY <1>1, <1>2 DEF SInv, Records, Fields, Files, Agreed, Steps
<1>4. Removing'
  BY <1>1, <1>2 DEF Removing, RemovesAllOrNone
<1>5. \A p \in Path : Queued(p)'
  BY <1>1, NothingQueued DEF Queued
<1> QED BY <1>3, <1>4, <1>5 DEF SInv

\* mark keeps the fields and the values.
LEMMA MarkFacts ==
  ASSUME SInv, NEW ts, NEW keep, WC!mark(ts, keep)
  PROVE  /\ node' \in [Path -> WC!Node] /\ queue' \in [Path -> WC!Work]
         /\ \A p \in Path : p \in ts => node'[p] = WC!afterDelete(node[p])
         /\ \A p \in Path : queue'[p] # queue[p] =>
                              p \in ts /\ ~keep /\ queue'[p] = "remove"
         /\ job'.step = "work" /\ job'.todo = {}
         /\ disk' = disk
<1>1. /\ node' = [p \in Path |-> IF p \in ts THEN WC!afterDelete(node[p])
                                            ELSE node[p]]
      /\ queue' = [p \in Path |-> IF p \in ts /\ ~keep THEN "remove"
                                                      ELSE queue[p]]
      /\ disk' = disk
  BY DEF WC!mark
<1>2. job'.step = "work" /\ job'.todo = {}
  BY DEF WC!mark, WC!process
<1> QED BY <1>1, <1>2 DEF SInv, Files, WC!afterDelete, WC!Node, WC!Work

LEMMA StartRemoveSInv ==
  ASSUME SInv, StartFrame, handler.op = "r", before' = node,
         WC!StartRemove(targets(handler.items), handler.keepLocal)
  PROVE  SInv'
<1> DEFINE ts == targets(handler.items)
<1>1. /\ pc' = "run" /\ handler' = handler /\ changes' = changes
      /\ raced' = raced /\ pc = "run" /\ job.step = "idle"
  BY DEF StartFrame, vars, WC!StartRemove
<1>2. \A p \in Path : queue[p] = "none"
  BY <1>1, NothingQueued
<1>3. CASE handler.keepLocal /\ ts # {}
  <2>1. WC!mark(ts, TRUE)
    BY <1>3 DEF WC!StartRemove
  <2>2. /\ node' \in [Path -> WC!Node] /\ queue' \in [Path -> WC!Work]
        /\ disk' = disk
        /\ \A p \in Path : p \in ts => node'[p] = WC!afterDelete(node[p])
        /\ \A p \in Path : queue'[p] = queue[p]
        /\ job'.step = "work"
    BY <2>1, MarkFacts
  <2>3. Records' /\ Agreed' /\ Files' /\ Steps'
    BY <1>1, <2>2 DEF SInv, Records, Fields, Agreed, Files, Steps
  <2>4. \A p \in Path : marked(p)'
    BY <1>1, <2>2 DEF marked, targets, WC!afterDelete
  <2>5. Removing'
    BY <1>1, <2>2, <2>4 DEF Removing, RemovesAllOrNone
  <2>6. \A p \in Path : Queued(p)'
    BY <1>2, <2>2 DEF Queued
  <2> QED BY <2>3, <2>5, <2>6 DEF SInv
<1>4. CASE ~(handler.keepLocal /\ ts # {})
  <2>1. node' = node /\ disk' = disk /\ queue' = queue
    BY <1>4 DEF WC!StartRemove, WC!files
  <2>2. /\ job'.step = IF ts = {} THEN "done" ELSE "check"
        /\ job'.targets = ts /\ job'.todo = ts
    <3>1. job' = WC!process(IF ts = {} THEN "done" ELSE "check", ts, ts, FALSE)
      BY <1>4 DEF WC!StartRemove
    <3> HIDE DEF ts
    <3> QED BY <3>1 DEF WC!process
  <2>3. Records' /\ Agreed' /\ Files' /\ Steps'
    BY <1>1, <2>1, <2>2 DEF SInv, Records, Fields, Agreed, Files, Steps
  <2>4. Removing'
    BY <1>1, <1>4, <2>1, <2>2 DEF Removing, RemovesAllOrNone, targets
  <2>5. \A p \in Path : Queued(p)'
    BY <1>2, <2>1 DEF Queued
  <2> QED BY <2>3, <2>4, <2>5 DEF SInv
<1> QED BY <1>3, <1>4

\* What the steps of svn leave alone.
StepFrame ==
  /\ UNCHANGED <<vars, walk, changes, listed, stale, before>>
  /\ raced' = {p \in raced : WC!looked(p)'}

LEMMA AddOneSInv ==
  ASSUME SInv, NEW p \in Path, WC!AddOne(p), StepFrame
  PROVE  SInv'
<1>1. /\ pc' = pc /\ handler' = handler /\ changes' = changes /\ disk' = disk
      /\ queue' = queue
      /\ job.step = "add" /\ job'.step \in {"add", "done"}
  BY DEF StepFrame, vars, WC!AddOne, WC!done, WC!process
<1>2. node' \in [Path -> WC!Node]
  BY DEF SInv, Files, WC!AddOne, WC!Node
<1>3. Records' /\ Agreed' /\ Files' /\ Steps'
  BY <1>1, <1>2 DEF SInv, Records, Fields, Agreed, Files, Steps
<1>4. Removing'
  BY <1>1 DEF SInv, Steps, Removing, RemovesAllOrNone
<1>5. \A x \in Path : Queued(x)'
  BY <1>1, NothingQueued DEF Queued
<1> QED BY <1>3, <1>4, <1>5 DEF SInv

\* A target passes only if its text is not lost, and one that does not pass
\* ends svn rm with the database as it was.
LEMMA CheckOneSInv ==
  ASSUME SInv, NEW p \in Path, WC!CheckOne(p), StepFrame
  PROVE  SInv'
<1>1. /\ pc' = pc /\ handler' = handler /\ changes' = changes
      /\ before' = before /\ node' = node /\ disk' = disk /\ queue' = queue
      /\ job.step = "check" /\ p \in job.todo
      /\ raced' = {x \in raced : WC!looked(x)'}
  BY DEF StepFrame, vars, WC!CheckOne, WC!files
<1>2. Records' /\ Agreed' /\ Files'
  BY <1>1 DEF SInv, Records, Fields, Agreed, Files
<1>3. \A x \in Path : Queued(x)'
  BY <1>1, NothingQueued DEF Queued
<1>4. CASE WC!deletable(p)
  <2>1. /\ job'.step = "check" /\ job'.targets = job.targets
        /\ job'.todo = job.todo \ {p}
    BY <1>4 DEF WC!CheckOne, WC!process
  <2>2. lost(p)
    BY <1>1, <1>4, DeletableEdited DEF SInv, Removing, lost
  <2>3. \A x \in Path : x \in job'.targets \ job'.todo => lost(x)'
    BY <1>1, <2>1, <2>2 DEF SInv, Removing, lost, WC!unsaved, WC!looked
  <2>4. Removing' /\ Steps'
    BY <1>1, <2>1, <2>3 DEF SInv, Removing, RemovesAllOrNone, Steps
  <2> QED BY <1>2, <1>3, <2>4 DEF SInv
<1>5. CASE ~WC!deletable(p)
  <2>1. job'.step = "done"
    BY <1>5 DEF WC!CheckOne, WC!process
  <2>2. Removing' /\ Steps'
    BY <1>1, <2>1 DEF SInv, Removing, RemovesAllOrNone, Steps
  <2> QED BY <1>2, <1>3, <2>2 DEF SInv
<1> QED BY <1>4, <1>5

\* All targets are marked in one step, of a database that is as it was.
LEMMA MarkAllSInv ==
  ASSUME SInv, WC!MarkAll, StepFrame
  PROVE  SInv'
<1>1. /\ pc' = pc /\ handler' = handler /\ changes' = changes
      /\ before' = before /\ job.step = "check" /\ job.todo = {}
      /\ WC!mark(job.targets, ~job.exists)
      /\ raced' = {x \in raced : WC!looked(x)'}
  BY DEF StepFrame, vars, WC!MarkAll
<1>2. /\ node' \in [Path -> WC!Node] /\ queue' \in [Path -> WC!Work]
      /\ \A p \in Path : p \in job.targets =>
                           node'[p] = WC!afterDelete(node[p])
      /\ \A p \in Path : queue'[p] # queue[p] =>
                           p \in job.targets /\ queue'[p] = "remove"
      /\ job'.step = "work" /\ job'.todo = {} /\ disk' = disk
  BY <1>1, MarkFacts
<1>3. handler.op = "r" /\ ~handler.keepLocal /\ job.targets = targets(handler.items)
  BY <1>1 DEF SInv, Removing
<1>4. Records' /\ Agreed' /\ Files' /\ Steps'
  BY <1>1, <1>2, <1>3 DEF SInv, Records, Fields, Agreed, Files, Steps
<1>5. \A p \in Path : p \in job.targets =>
         node'[p] = WC!afterDelete(before[p]) /\ lost(p)
  BY <1>1, <1>2 DEF SInv, Removing
<1>6. Removing'
  BY <1>1, <1>2, <1>3, <1>5 DEF Removing, RemovesAllOrNone, marked, WC!afterDelete
<1>7. ASSUME NEW p \in Path PROVE Queued(p)'
  <2>1. queue[p] = "none"
    BY <1>1, NothingQueued
  <2> QED BY <1>1, <1>2, <1>3, <1>5, <2>1 DEF Queued, lost, WC!unsaved, WC!looked
<1> QED BY <1>4, <1>6, <1>7 DEF SInv

\* An item of the queue is run: svn rm's erases a file.
LEMMA RunItemSInv ==
  ASSUME SInv, NEW p \in Path, WC!RunItem(p), StepFrame
  PROVE  SInv'
<1>1. /\ pc' = pc /\ handler' = handler /\ changes' = changes /\ job' = job
      /\ before' = before /\ node' = node /\ queue[p] # "none"
      /\ disk' = [disk EXCEPT ![p] = WC!written(queue[p])]
      /\ queue' = [queue EXCEPT ![p] = "none"]
      /\ raced' = {x \in raced : WC!looked(x)'}
  BY DEF StepFrame, vars, WC!RunItem, WC!queued
<1>2. queue[p] \in WC!Work \ {"none"}
  BY <1>1 DEF SInv, Files
<1>3. WC!written(queue[p]) \in WC!Disk
  BY <1>2 DEF WC!written, WC!Work, WC!Disk
<1>4. Files'
  BY <1>1, <1>3 DEF SInv, Files, WC!Work
<1>5. Records' /\ Agreed' /\ Steps'
  BY <1>1 DEF SInv, Records, Fields, Agreed, Steps
<1>6. job.step \in {"restore", "edit", "work"}
  BY <1>1 DEF SInv, Queued
<1>7. Removing'
  BY <1>1, <1>6 DEF SInv, Removing, RemovesAllOrNone, marked, WC!afterDelete
<1>8. ASSUME NEW x \in Path PROVE Queued(x)'
  <2>1. CASE x = p
    BY <1>1, <2>1 DEF Queued, SInv, Files
  <2>2. CASE x # p
    <3>1. disk'[x] = disk[x] /\ queue'[x] = queue[x]
      BY <1>1, <2>2 DEF SInv, Files
    <3> QED BY <1>1, <3>1 DEF SInv, Queued, lost, WC!unsaved, WC!looked
  <2> QED BY <2>1, <2>2
<1> QED BY <1>4, <1>5, <1>7, <1>8 DEF SInv

\* svn up queues something for a file it has just looked at.
LEMMA QueueSInv ==
  ASSUME SInv, StepFrame, NEW p \in Path, NEW n \in WC!Node, NEW work \in WC!Work,
         job.step \in {"restore", "edit"}, job'.step = job.step,
         job'.todo = job.todo \ {p},
         node' = [node EXCEPT ![p] = n], disk' = disk, WC!queued(p, work),
         work \in {"install", "remove"} => ~WC!unsaved(p)
  PROVE  SInv'
<1>1. /\ pc' = pc /\ handler' = handler /\ changes' = changes
      /\ before' = before /\ queue' = [queue EXCEPT ![p] = work]
      /\ raced' = {x \in raced : WC!looked(x)'} /\ handler.op = "u"
  BY DEF StepFrame, vars, WC!queued, SInv, Steps
<1>2. Records' /\ Agreed' /\ Steps' /\ Files'
  BY <1>1 DEF SInv, Records, Fields, Agreed, Steps, Files
<1>3. Removing'
  BY <1>1 DEF Removing, RemovesAllOrNone
<1>4. ASSUME NEW x \in Path PROVE Queued(x)'
  <2>1. CASE x = p
    BY <1>1, <2>1 DEF Queued, SInv, Files, WC!Work, WC!unsaved
  <2>2. CASE x # p
    <3>1. queue'[x] = queue[x]
      BY <1>1, <2>2 DEF SInv, Files
    <3> QED BY <1>1, <3>1 DEF SInv, Queued, lost, WC!unsaved, WC!looked
  <2> QED BY <2>1, <2>2
<1> QED BY <1>2, <1>3, <1>4 DEF SInv

LEMMA RestoreSInv ==
  ASSUME SInv, NEW p \in Path, WC!Restore(p), StepFrame
  PROVE  SInv'
<1> DEFINE work == IF disk[p] = "absent" THEN "install" ELSE "none"
<1>1. /\ WC!queued(p, work) /\ node' = node /\ disk' = disk
      /\ job.step = "restore"
  BY DEF WC!Restore, WC!files
<1>2. job'.step = "restore" /\ job'.todo = job.todo \ {p}
  BY DEF WC!Restore, WC!process
<1>3. work \in WC!Work /\ (work \in {"install", "remove"} => ~WC!unsaved(p))
  BY DEF WC!Work, WC!unsaved
<1>4. node[p] \in WC!Node /\ node' = [node EXCEPT ![p] = node[p]]
  BY <1>1 DEF SInv, Files
<1> HIDE DEF work
<1> QED BY <1>1, <1>2, <1>3, <1>4, QueueSInv

\* A change of the repository to a file.
LEMMA EditSInv ==
  ASSUME SInv, NEW p \in Path, StepFrame,
         WC!delete_entry(p) \/ WC!add_file(p) \/ WC!merge_file(p)
  PROVE  SInv'
<1>1. PICK n \in WC!Node, work \in WC!Work :
        /\ WC!edit(p, n, work)
        /\ work \in {"install", "remove"} => ~WC!unsaved(p)
  <2>1. CASE WC!delete_entry(p)
    BY <2>1 DEF WC!delete_entry, WC!Node, WC!Work
  <2>2. CASE WC!add_file(p)
    BY <2>2 DEF WC!add_file, WC!Node, WC!Work, WC!unsaved
  <2>3. CASE WC!merge_file(p)
    BY <2>3 DEF WC!merge_file, WC!Node, WC!Work
  <2> QED BY <2>1, <2>2, <2>3
<1>2. job.step = "edit" /\ job'.step = "edit" /\ job'.todo = job.todo \ {p}
  BY <1>1 DEF WC!edit, WC!process
<1>3. /\ node' = [node EXCEPT ![p] = n] /\ disk' = disk /\ WC!queued(p, work)
  BY <1>1 DEF WC!edit
<1> QED BY <1>1, <1>2, <1>3, QueueSInv

\* Steps of svn up and the end of svn rm that change no file.
LEMMA OnwardSInv ==
  ASSUME SInv, StepFrame, WC!Report \/ WC!CloseEdit \/ WC!EndWork
  PROVE  SInv'
<1>1. /\ pc' = pc /\ handler' = handler /\ changes' = changes
      /\ before' = before /\ node' = node /\ disk' = disk /\ queue' = queue
      /\ raced' = {x \in raced : WC!looked(x)'}
  BY DEF StepFrame, vars, WC!Report, WC!CloseEdit, WC!EndWork, WC!files
<1>2. \/ /\ job.step = "restore" /\ job'.step = "edit"
         /\ \A p \in Path : queue[p] = "none"
      \/ job.step = "edit" /\ job'.step = "work" /\ job'.todo = {}
      \/ /\ job.step = "work" /\ job'.step = "done"
         /\ \A p \in Path : queue[p] = "none"
  BY DEF WC!Report, WC!CloseEdit, WC!EndWork, WC!process, WC!idleQueue
<1>3. Records' /\ Agreed' /\ Files' /\ Steps'
  BY <1>1, <1>2 DEF SInv, Records, Fields, Agreed, Files, Steps
<1>4. Removing'
  BY <1>1, <1>2 DEF SInv, Steps, Removing, RemovesAllOrNone, marked, WC!afterDelete
<1>5. \A x \in Path : Queued(x)'
  BY <1>1, <1>2 DEF SInv, Queued, lost, WC!unsaved, WC!looked
<1> QED BY <1>3, <1>4, <1>5 DEF SInv

\* exec returns and there is no process any more.
LEMMA EndSInv ==
  ASSUME SInv, EndSvn
  PROVE  SInv'
<1>1. /\ node' = node /\ disk' = disk /\ changes' = changes /\ job' = WC!Idle
      /\ queue' = queue /\ job.step = "done"
      /\ handler' = [handler EXCEPT !.ran = TRUE] /\ pc' \in {"st", "show"}
  BY DEF EndSvn, RunDone, listAgain, refreshStatusItems, WC!Reap, WC!files
<1>2. Records' /\ Agreed' /\ Files'
  BY <1>1 DEF SInv, Records, Fields, Agreed, Files
<1>3. Removing' /\ Steps'
  BY <1>1 DEF Removing, RemovesAllOrNone, Steps, WC!Idle, WC!process
<1>4. \A x \in Path : Queued(x)'
  BY <1>1, NothingQueued DEF Queued
<1> QED BY <1>2, <1>3, <1>4 DEF SInv

\* A file that svn has looked at and that is changed then is raced; nothing
\* else changes what svn has found out.
LEMMA OtherSInv ==
  ASSUME SInv, OtherProgram
  PROVE  SInv'
<1>1. PICK p \in Path : /\ WC!Save(p) \/ WC!Erase(p) \/ WC!Commit(p)
                        /\ raced' = IF WC!looked(p) THEN raced \cup {p} ELSE raced
  BY DEF OtherProgram
<1>2. /\ pc' = pc /\ handler' = handler /\ before' = before /\ job' = job
      /\ queue' = queue /\ changes' = changes + 1
      /\ job.step # "idle" => node' = node
  BY <1>1 DEF OtherProgram, vars, WC!Save, WC!Erase, WC!Commit
<1>3. node' \in [Path -> WC!Node] /\ disk' \in [Path -> WC!Disk]
  BY <1>1 DEF SInv, Files, WC!Save, WC!Erase, WC!Commit, WC!Node, WC!Disk
<1>4. \A x \in Path : x # p => disk'[x] = disk[x]
  BY <1>1 DEF SInv, Files, WC!Save, WC!Erase, WC!Commit
<1>5. Records' /\ Agreed' /\ Files' /\ Steps'
  BY <1>2, <1>3 DEF SInv, Records, Fields, Agreed, Files, Steps
<1>6. ASSUME NEW x \in Path, WC!looked(x), lost(x) PROVE lost(x)'
  BY <1>1, <1>2, <1>4, <1>6 DEF lost, WC!unsaved
<1>7. \A x \in Path : Queued(x)'
  BY <1>1, <1>2, <1>4, <1>6 DEF SInv, Queued, WC!looked, WC!unsaved
<1>8. Removing'
  <2>1. CASE job.step = "idle"
    BY <1>2, <2>1 DEF Removing, RemovesAllOrNone
  <2>2. CASE job.step # "idle"
    <3>1. RemovesAllOrNone' /\ \A x \in Path : marked(x) => marked(x)'
      BY <1>2, <2>2 DEF SInv, Removing, RemovesAllOrNone, marked, WC!afterDelete
    <3>2. job.step = "check" =>
            \A x \in Path : x \in job.targets \ job.todo => lost(x)'
      BY <1>6 DEF SInv, Removing, WC!looked
    <3> QED BY <1>2, <2>2, <3>1, <3>2 DEF SInv, Removing
  <2> QED BY <2>1, <2>2
<1> QED BY <1>5, <1>7, <1>8 DEF SInv

LEMMA SInvStep == SInv /\ [SessionNext]_sessionVars => SInv'
<1> SUFFICES ASSUME SInv, [SessionNext]_sessionVars PROVE SInv'
  OBVIOUS
<1>1. CASE Program
  BY <1>1, ProgramSInv
<1>2. CASE SvnStatus
  BY <1>2, StatusSInv
<1>3. CASE StartSvn
  BY <1>3, StartOtherSInv, StartRemoveSInv DEF StartSvn, StartFrame
<1>4. CASE SvnStep
  <2>1. StepFrame
    BY <1>4 DEF SvnStep, StepFrame
  <2> QED BY <1>4, <2>1, AddOneSInv, CheckOneSInv, MarkAllSInv, RunItemSInv,
             RestoreSInv, EditSInv, OnwardSInv DEF SvnStep, WC!Step
<1>5. CASE EndSvn
  BY <1>5, EndSInv
<1>6. CASE OtherProgram
  BY <1>6, OtherSInv
<1>7. CASE \/ StartStatus \/ ReadInfo \/ one_child_status
           \/ UNCHANGED sessionVars
  <2>1. UNCHANGED <<vars, wc, changes, raced, before>>
    BY <1>7 DEF StartStatus, ReadInfo, one_child_status, sessionVars, others
  <2> QED BY <2>1, SameSInv
<1> QED BY <1>1, <1>2, <1>3, <1>4, <1>5, <1>6, <1>7 DEF SessionNext, SvnRuns

LEMMA SInvAlways == SessionSpec => []SInv
BY InitSInv, SInvStep, PTL DEF SessionSpec

-----------------------------------------------------------------------------
(***************************************************************************)
(* Theorems.                                                               *)
(***************************************************************************)
\* 'r' never leaves half of a selection removed, however many paths are
\* selected and whatever other programs do while svn rm is at work.
THEOREM RemoveIsAtomic == SessionSpec => []RemovesAllOrNone
<1>1. SInv => RemovesAllOrNone
  BY DEF SInv, Removing
<1> QED BY <1>1, SInvAlways, PTL

\* svn, run by the program, erases or overwrites an unsaved text only after
\* the user agreed, and only if it was saved after svn had looked at the file,
\* or by svn rm, if the user did not keep the files and this one was scheduled
\* for deletion before.
THEOREM UnsavedTextIsKept == SessionSpec => UnsavedTextSurvives
<1> DEFINE Allowed(p) ==
      /\ handler.agreed
      /\ \/ handler.op = "u" /\ p \in raced
         \/ /\ handler.op = "r" /\ ~handler.keepLocal
            /\ p \in targets(handler.items)
            /\ p \in raced \/ before[p] = "deleted"
<1>1. SInv /\ [SessionNext]_sessionVars
        => [\A p \in Path : loses(p) => Allowed(p)]_sessionVars
  <2> SUFFICES ASSUME SInv, SessionNext, NEW p \in Path, loses(p)
               PROVE  Allowed(p)
    OBVIOUS
  <2>1. /\ disk[p] = "edited" /\ changes' = changes
        /\ disk'[p] # "edited" \/ (queue[p] = "merge" /\ queue'[p] # "merge")
        /\ queue[p] = "merge" => disk'[p] # "edited" \/ p \in raced
    BY DEF loses, WC!unsaved
  <2>2. ~(Program \/ StartStatus \/ ReadInfo \/ one_child_status \/ SvnStatus \/ EndSvn)
    BY <2>1 DEF Program, StartStatus, ReadInfo, one_child_status, SvnStatus,
                EndSvn, WC!Reap, WC!files, wc
  <2>3. ~OtherProgram
    BY <2>1 DEF OtherProgram, SInv, Files
  <2>4. disk' = disk => job.step \in {"restore", "edit", "work"} /\ p \notin job.todo
    BY <2>1 DEF SInv, Queued
  <2>5. ~StartSvn
    BY <2>4 DEF StartSvn, WC!StartAdd, WC!StartRemove, WC!StartUpdate, WC!mark, WC!files
  <2>6. PICK x \in Path : WC!RunItem(x)
    <3>1. ~WC!MarkAll /\ \A x \in Path : ~WC!AddOne(x) /\ ~WC!CheckOne(x)
      BY <2>4 DEF WC!MarkAll, WC!mark, WC!AddOne, WC!CheckOne, WC!files
    <3>2. ~WC!Report /\ ~WC!CloseEdit /\ ~WC!EndWork
      BY <2>1 DEF WC!Report, WC!CloseEdit, WC!EndWork, WC!files
    <3>3. ASSUME NEW x \in Path, NEW work, disk' = disk, x \in job.todo,
                 WC!queued(x, work)
          PROVE  FALSE
      BY <2>1, <2>4, <3>3 DEF WC!queued, SInv, Files
    <3>4. \A x \in Path : ~WC!Restore(x)
      BY <3>3 DEF WC!Restore, WC!files
    <3>5. \A x \in Path : ~WC!delete_entry(x) /\ ~WC!add_file(x) /\ ~WC!merge_file(x)
      BY <3>3 DEF WC!delete_entry, WC!add_file, WC!merge_file, WC!edit
    <3> QED BY <2>2, <2>3, <2>5, <3>1, <3>2, <3>4, <3>5
            DEF SessionNext, SvnRuns, SvnStep, WC!Step
  <2>7. x = p
    BY <2>1, <2>6 DEF WC!RunItem, WC!queued, SInv, Files
  <2>8. queue[p] # "none" /\ disk' = [disk EXCEPT ![p] = WC!written(queue[p])]
    BY <2>6, <2>7 DEF WC!RunItem
  <2>9. queue[p] = "merge" => p \in raced
    BY <2>1, <2>8 DEF WC!written, SInv, Files
  <2>10. handler.agreed
    BY <2>8 DEF SInv, Queued, Steps, Agreed
  <2> QED BY <2>1, <2>8, <2>9, <2>10 DEF SInv, Queued, lost, WC!unsaved
<1> QED BY <1>1, SInvAlways, PTL DEF SessionSpec, UnsavedTextSurvives

-----------------------------------------------------------------------------
(***************************************************************************)
(* The svn st process.                                                     *)
(***************************************************************************)
LEMMA CutFacts ==
  ASSUME NEW o \in Seq(Line), NEW k \in 0..Len(o)
  PROVE  /\ SubSeq(o, 1, k) \in Seq(Line)
         /\ Len(SubSeq(o, 1, k)) = k
         /\ \A i \in 1..k : SubSeq(o, 1, k)[i] = o[i]
OBVIOUS

LEMMA NamesFacts ==
  /\ Names \in Seq(Path) /\ Len(Names) \in Nat /\ DOMAIN Names = 1..Len(Names)
  /\ \A i \in 1..Len(Names) : Names[i] \in Path
<1>1. Names \in Seq(Path)
  BY SessionAssumption
<1> QED BY <1>1

\* The line for a path is one of those that Outputs has room for.
LEMMA ReportedLetter ==
  ASSUME NEW p \in Path, NEW n \in WC!Node, NEW d \in WC!Disk
  PROVE  WC!reported(p, n, d) \in Letter \cup {" "}
<1>1. \A e \in WC!Disk : WC!letter(n, e) \in Letter \cup {" "}
  BY DEF WC!letter, WC!Node, WC!Disk, Letter
<1> QED BY <1>1 DEF WC!reported, WC!Disk

\* It is the status if nothing has changed since.
LEMMA ReportedStatus ==
  ASSUME NEW p \in Path
  PROVE  WC!reported(p, node[p], disk[p]) = WC!status(p)
BY DEF WC!reported, WC!status

\* A path is in the output if it has a status.
told(L, p) ==
  WC!status(p) # " " => \E k \in DOMAIN L : L[k] = entry(p, WC!status(p))

\* The inductive invariant of the walk: what it has read is still so, and
\* what it has printed is true, of every path that is not stale.
WalkTypes ==
  /\ st \in {"none", "dirents", "walk"} /\ next \in 1..(Len(Names) + 1)
  /\ st # "walk" => out = <<>> /\ next = 1
  /\ st # "none" => pc = "st" /\ dirents \in [Path -> WC!Disk]
  /\ st = "walk" => info \in [Path -> WC!Node]
  /\ out \in Outputs /\ Len(out) < next
  /\ \A k \in DOMAIN out : \E j \in 1..(next - 1) : out[k].path = Names[j]

WalkTells ==
  /\ st # "none" => \A p \in Path \ stale : dirents[p] = disk[p]
  /\ st = "walk" => \A p \in Path \ stale : info[p] = node[p]
  /\ \A k \in DOMAIN out : tells(out[k])
  /\ \A j \in 1..(next - 1) : Names[j] \in stale \/ told(out, Names[j])

Walk == WalkTypes /\ WalkTells

\* Steps that leave the process and the paths it has dealt with alone.
LEMMA SameWalk ==
  ASSUME Walk, UNCHANGED walk, st # "none" => pc' = pc,
         stale \subseteq stale',
         st # "none" => \A p \in Path \ stale' : node'[p] = node[p] /\ disk'[p] = disk[p]
  PROVE  Walk'
<1>1. UNCHANGED <<st, dirents, info, next, out>>
  BY DEF walk
<1>2. WalkTypes'
  BY <1>1 DEF Walk, WalkTypes
<1>3. CASE st = "none"
  <2>1. out = <<>> /\ next = 1
    BY <1>3 DEF Walk, WalkTypes
  <2>2. DOMAIN out = {} /\ 1..(next - 1) = {}
    BY <2>1
  <2>3. WalkTells'
    BY <1>1, <1>3, <2>2 DEF WalkTells
  <2> QED BY <1>2, <2>3 DEF Walk
<1>4. CASE st # "none"
  <2>1. \A p \in Path \ stale' : WC!status(p)' = WC!status(p)
    BY <1>4 DEF WC!status, WC!letter
  <2>2. \A k \in DOMAIN out : tells(out[k])'
    BY <1>1, <2>1 DEF Walk, WalkTells, tells
  <2>3. \A j \in 1..(next - 1) : Names[j] \in Path
    BY NamesFacts DEF Walk, WalkTypes
  <2>4. \A j \in 1..(next - 1) : Names[j] \in stale' \/ told(out, Names[j])'
    BY <1>1, <2>1, <2>3 DEF Walk, WalkTells, told
  <2>5. WalkTells'
    BY <1>1, <1>4, <2>2, <2>4 DEF Walk, WalkTells
  <2> QED BY <1>2, <2>5 DEF Walk
<1> QED BY <1>3, <1>4

LEMMA StartWalk ==
  ASSUME Walk, SInv, StartStatus \/ ReadInfo
  PROVE  Walk'
<1>1. /\ pc = "st" /\ pc' = pc /\ node' = node /\ disk' = disk
      /\ out' = out /\ next' = next
  BY DEF Walk, WalkTypes, StartStatus, ReadInfo, vars, wc
<1>2. out = <<>> /\ next = 1
  BY DEF Walk, WalkTypes, StartStatus, ReadInfo
<1>3. DOMAIN out = {} /\ 1..(next - 1) = {}
  BY <1>2
<1>4. CASE StartStatus
  <2>1. st' = "dirents" /\ dirents' = disk /\ disk \in [Path -> WC!Disk]
    BY <1>4 DEF StartStatus, SInv, Files
  <2>2. WalkTypes'
    BY <1>1, <1>2, <2>1 DEF Walk, WalkTypes
  <2>3. WalkTells'
    BY <1>1, <1>3, <2>1 DEF WalkTells
  <2> QED BY <2>2, <2>3 DEF Walk
<1>5. CASE ReadInfo
  <2>1. /\ st = "dirents" /\ st' = "walk" /\ info' = node /\ dirents' = dirents
        /\ stale' = stale /\ node \in [Path -> WC!Node]
    BY <1>5 DEF ReadInfo, others, SInv, Files
  <2>2. WalkTypes'
    BY <1>1, <2>1 DEF Walk, WalkTypes
  <2>3. WalkTells'
    BY <1>1, <1>3, <2>1 DEF Walk, WalkTells
  <2> QED BY <2>2, <2>3 DEF Walk
<1> QED BY <1>4, <1>5

\* The name that is dealt with next.
LEMMA NextFacts ==
  ASSUME Walk, next <= Len(Names)
  PROVE  /\ next \in 1..Len(Names) /\ next \in Nat /\ next + 1 \in 1..(Len(Names) + 1)
         /\ (next + 1) - 1 = next /\ next \in 1..next
         /\ \A j \in 1..next : j \in 1..(next - 1) \/ j = next
         /\ Names[next] \in Path
         /\ out \in Outputs /\ out \in Seq(Line)
         /\ Len(out) \in Nat /\ DOMAIN out = 1..Len(out) /\ Len(out) < next
<1>1. next \in 1..(Len(Names) + 1) /\ out \in Outputs /\ Len(out) < next
  BY DEF Walk, WalkTypes
<1>2. out \in Seq(Line)
  BY <1>1, SvnCursesAssumption
<1> QED BY <1>1, <1>2, NamesFacts

\* One more name is dealt with.
LEMMA OneChildWalk ==
  ASSUME Walk, SInv, one_child_status
  PROVE  Walk'
<1> DEFINE p == Names[next]
           letter == WC!reported(p, info[p], dirents[p])
<1>1. /\ pc' = pc /\ node' = node /\ disk' = disk /\ stale' = stale
      /\ st' = st /\ dirents' = dirents /\ info' = info /\ st = "walk"
      /\ next' = next + 1 /\ next <= Len(Names)
  BY DEF one_child_status, vars, wc, others
<1>2. out' = IF letter = " " THEN out ELSE Append(out, entry(p, letter))
  BY DEF one_child_status
<1>3. /\ next \in 1..Len(Names) /\ next \in Nat /\ next + 1 \in 1..(Len(Names) + 1)
      /\ (next + 1) - 1 = next /\ next \in 1..next
      /\ \A j \in 1..next : j \in 1..(next - 1) \/ j = next
      /\ p \in Path
      /\ out \in Outputs /\ out \in Seq(Line)
      /\ Len(out) \in Nat /\ DOMAIN out = 1..Len(out) /\ Len(out) < next
  BY <1>1, NextFacts
<1>4. info[p] \in WC!Node /\ dirents[p] \in WC!Disk
  BY <1>1, <1>3 DEF Walk, WalkTypes
<1>5. letter \in Letter \cup {" "}
  BY <1>3, <1>4, ReportedLetter
<1>6. p \in stale \/ letter = WC!status(p)
  BY <1>1, <1>3, ReportedStatus DEF Walk, WalkTells
<1>7. /\ \A k \in DOMAIN out : \E j \in 1..(next - 1) : out[k].path = Names[j]
      /\ \A k \in DOMAIN out : tells(out[k])
      /\ \A j \in 1..(next - 1) : Names[j] \in stale \/ told(out, Names[j])
      /\ \A x \in Path \ stale : dirents[x] = disk[x] /\ info[x] = node[x]
      /\ pc = "st" /\ dirents \in [Path -> WC!Disk] /\ info \in [Path -> WC!Node]
  BY <1>1 DEF Walk, WalkTypes, WalkTells
<1>8. \A x : WC!status(x)' = WC!status(x)
  BY <1>1 DEF WC!status, WC!letter
<1>9. \A l : tells(l) => tells(l)'
  BY <1>1, <1>8 DEF tells
<1>10. next' - 1 = next /\ 1..(next - 1) \subseteq 1..next
  BY <1>1, <1>3
<1> HIDE DEF p, letter
<1>11. CASE letter = " "
  <2>1. out' = out
    BY <1>2, <1>11
  <2>2. \A k \in DOMAIN out : \E j \in 1..next : out[k].path = Names[j]
    BY <1>7, <1>10
  <2>3. Len(out) < next'
    BY <1>1, <1>3
  <2>4. WalkTypes'
    BY <1>1, <1>3, <1>7, <1>10, <2>1, <2>2, <2>3 DEF WalkTypes
  <2>5. \A j \in 1..next : Names[j] \in stale \/ told(out, Names[j])
    BY <1>3, <1>6, <1>7, <1>11 DEF told, p
  <2>6. \A j \in 1..next : Names[j] \in stale' \/ told(out, Names[j])'
    BY <1>1, <1>8, <2>1, <2>5 DEF told
  <2>7. \A k \in DOMAIN out : tells(out[k])'
    BY <1>7, <1>9, <2>1
  <2>8. WalkTells'
    BY <1>1, <1>7, <1>10, <2>1, <2>6, <2>7 DEF WalkTells
  <2> QED BY <2>4, <2>8 DEF Walk
<1>12. CASE letter # " "
  <2> DEFINE l == entry(p, letter)
  <2>1. out' = Append(out, l) /\ letter \in Letter
    BY <1>2, <1>5, <1>12
  <2>2. Append(out, l) \in Outputs
    <3>1. next \in DOMAIN Names /\ p = Names[next]
      BY <1>3, NamesFacts DEF p
    <3> QED BY <1>3, <1>7, <2>1, <3>1, SessionAssumption
  <2>3. l.path = p /\ (p \in stale \/ l = entry(p, WC!status(p)))
    BY <1>6 DEF entry
  <2> HIDE DEF l
  <2>4. Append(out, l) \in Seq(Line)
    BY <2>2, SvnCursesAssumption
  <2>5. Len(Append(out, l)) = Len(out) + 1 /\ Append(out, l)[Len(out) + 1] = l
        /\ \A k \in 1..Len(out) : Append(out, l)[k] = out[k]
    <3>1. DOMAIN Append(out, l) = 1..(Len(out) + 1)
      BY <1>3
    <3> QED BY <1>3, <3>1
  <2>6. /\ Len(out') = Len(out) + 1 /\ DOMAIN out' = 1..(Len(out) + 1)
        /\ \A k \in 1..Len(out) : out'[k] = out[k]
        /\ out'[Len(out) + 1] = l
        /\ \A k \in 1..(Len(out) + 1) : k \in 1..Len(out) \/ k = Len(out) + 1
        /\ Len(out) + 1 \in 1..(Len(out) + 1)
        /\ 1..Len(out) \subseteq 1..(Len(out) + 1)
        /\ Len(out) + 1 < next + 1
    BY <1>3, <2>1, <2>4, <2>5
  <2>7. \A k \in DOMAIN out' : \E j \in 1..next : out'[k].path = Names[j]
    BY <1>3, <1>7, <1>10, <2>3, <2>6 DEF p
  <2>8. WalkTypes'
    BY <1>1, <1>3, <1>7, <1>10, <2>1, <2>2, <2>6, <2>7 DEF WalkTypes
  <2>9. \A k \in DOMAIN out' : tells(out[k])'
    <3>1. tells(l)
      BY <1>3, <2>3 DEF tells
    <3>2. \A k \in DOMAIN out' : tells(out'[k])
      BY <1>3, <1>7, <2>6, <3>1
    <3> QED BY <1>9, <3>2
  <2>10. ASSUME NEW j \in 1..next PROVE Names[j] \in stale' \/ told(out, Names[j])'
    <3>1. CASE j = next
      BY <1>1, <1>8, <2>3, <2>6, <3>1 DEF told, p
    <3>2. CASE j # next
      <4>1. Names[j] \in stale \/ told(out, Names[j])
        BY <1>3, <1>7, <3>2
      <4> QED BY <1>1, <1>3, <1>8, <2>6, <4>1 DEF told
    <3> QED BY <3>1, <3>2
  <2>11. WalkTells'
    BY <1>1, <1>7, <1>10, <2>9, <2>10 DEF WalkTells
  <2> QED BY <2>8, <2>11 DEF Walk
<1> QED BY <1>11, <1>12

LEMMA InitWalk == SessionInit => Walk
<1> SUFFICES ASSUME SessionInit PROVE Walk
  OBVIOUS
<1>1. st = "none" /\ next = 1 /\ out = <<>>
  BY DEF SessionInit
<1>2. DOMAIN out = {} /\ 1..(next - 1) = {} /\ Len(out) < next
  BY <1>1
<1>3. out \in Outputs /\ next \in 1..(Len(Names) + 1)
  <2>1. <<>> \in Outputs
    BY SessionAssumption
  <2> QED BY <1>1, <2>1, NamesFacts
<1>4. WalkTypes /\ WalkTells
  BY <1>1, <1>2, <1>3 DEF WalkTypes, WalkTells
<1> QED BY <1>4 DEF Walk

\* Without a process there is nothing to be wrong.
LEMMA NoWalk ==
  ASSUME Walk, st' = "none", next' = 1, out' = <<>>
  PROVE  Walk'
<1>1. DOMAIN out' = {} /\ 1..(next' - 1) = {} /\ Len(out') < next'
  OBVIOUS
<1>2. out' \in Outputs /\ next' \in 1..(Len(Names) + 1)
  <2>1. <<>> \in Outputs
    BY SessionAssumption
  <2> QED BY <2>1, NamesFacts
<1>3. WalkTypes' /\ WalkTells'
  BY <1>1, <1>2 DEF WalkTypes, WalkTells
<1> QED BY <1>3 DEF Walk

\* A step of svn is one of a process.
LEMMA SvnIsRun ==
  ASSUME SInv, StartSvn \/ SvnStep \/ EndSvn
  PROVE  pc = "run"
<1>1. CASE StartSvn \/ EndSvn
  BY <1>1 DEF StartSvn, EndSvn, RunDone
<1>2. CASE SvnStep
  <2>1. job.step # "idle"
    <3>1. CASE \E p \in Path : WC!RunItem(p)
      BY <3>1 DEF WC!RunItem, SInv, Queued
    <3>2. CASE ~\E p \in Path : WC!RunItem(p)
      BY <1>2, <3>2
         DEF SvnStep, WC!Step, WC!AddOne, WC!CheckOne, WC!MarkAll, WC!Restore,
             WC!delete_entry, WC!add_file, WC!merge_file, WC!edit, WC!Report,
             WC!CloseEdit, WC!EndWork
    <3> QED BY <3>1, <3>2
  <2> QED BY <2>1 DEF SInv, Steps
<1> QED BY <1>1, <1>2

\* What other programs do is recorded in stale.
LEMMA OtherFacts ==
  ASSUME SInv, OtherProgram
  PROVE  /\ stale \subseteq stale'
         /\ \A p \in Path \ stale' : node'[p] = node[p] /\ disk'[p] = disk[p]
         /\ UNCHANGED <<vars, walk, listed>>
<1>1. PICK x \in Path : /\ WC!Save(x) \/ WC!Erase(x) \/ WC!Commit(x)
                        /\ stale' = stale \cup {x}
  BY DEF OtherProgram
<1>2. \A p \in Path : p # x => node'[p] = node[p] /\ disk'[p] = disk[p]
  BY <1>1 DEF SInv, Files, WC!Save, WC!Erase, WC!Commit
<1> QED BY <1>1, <1>2 DEF OtherProgram

LEMMA WalkStep == SInv /\ Walk /\ [SessionNext]_sessionVars => Walk'
<1> SUFFICES ASSUME SInv, Walk, [SessionNext]_sessionVars PROVE Walk'
  OBVIOUS
<1>1. CASE Program
  <2>1. st = "none"
    BY <1>1, ProgramWaits DEF Program, Walk, WalkTypes
  <2>2. UNCHANGED walk /\ stale' = stale
    BY <1>1 DEF Program, others
  <2> QED BY <2>1, <2>2, SameWalk
<1>2. CASE StartStatus \/ ReadInfo
  BY <1>2, StartWalk
<1>3. CASE one_child_status
  BY <1>3, OneChildWalk
<1>4. CASE SvnStatus
  BY <1>4, NoWalk DEF SvnStatus
<1>5. CASE StartSvn \/ SvnStep \/ EndSvn
  <2>1. st = "none"
    BY <1>5, SvnIsRun DEF Walk, WalkTypes
  <2>2. UNCHANGED walk /\ stale' = stale
    BY <1>5 DEF StartSvn, SvnStep, EndSvn
  <2> QED BY <2>1, <2>2, SameWalk
<1>6. CASE OtherProgram
  <2>1. pc' = pc /\ UNCHANGED walk
    BY <1>6 DEF OtherProgram, vars
  <2> QED BY <1>6, <2>1, OtherFacts, SameWalk
<1>7. CASE UNCHANGED sessionVars
  <2>1. UNCHANGED walk /\ UNCHANGED <<pc, node, disk, stale>>
    BY <1>7 DEF sessionVars, vars, wc, others
  <2> QED BY <2>1, SameWalk
<1> QED BY <1>1, <1>2, <1>3, <1>4, <1>5, <1>6, <1>7 DEF SessionNext, SvnRuns

LEMMA WalkAlways == SessionSpec => []Walk
BY InitWalk, WalkStep, SInvAlways, PTL DEF SessionSpec

-----------------------------------------------------------------------------
(***************************************************************************)
(* The program of a session is SvnCurses.                                  *)
(***************************************************************************)
\* Whatever exec returns of a listing is among Outputs.
LEMMA ReturnedOutput ==
  ASSUME Walk, NEW got \in {out} \cup cuts(out) \cup tears(out)
  PROVE  got \in Outputs
<1>1. out \in Outputs
  BY DEF Walk, WalkTypes
<1>2. cuts(out) \cup tears(out) \subseteq Outputs
  BY <1>1, SessionAssumption
<1> QED BY <1>1, <1>2

LEMMA SessionStep == Walk /\ [SessionNext]_sessionVars => [Next]_vars
<1> SUFFICES ASSUME Walk, [SessionNext]_sessionVars PROVE Next \/ UNCHANGED vars
  OBVIOUS
<1>1. CASE Program
  BY <1>1 DEF Program, Next
<1>2. CASE SvnStatus
  BY <1>2, ReturnedOutput DEF SvnStatus, Next, SvnReturns
<1>3. CASE EndSvn
  BY <1>3 DEF EndSvn, Next, SvnReturns
<1>4. CASE \/ StartStatus \/ ReadInfo \/ one_child_status
           \/ StartSvn \/ SvnStep \/ OtherProgram \/ UNCHANGED sessionVars
  BY <1>4 DEF StartStatus, ReadInfo, one_child_status, StartSvn, SvnStep,
              OtherProgram, sessionVars
<1> QED BY <1>1, <1>2, <1>3, <1>4 DEF SessionNext, SvnRuns

(***************************************************************************)
(* On any working copy, with any other programs at work on it and with     *)
(* listings that may be cut or out of date, the program does what it does  *)
(* for arbitrary listings: all theorems about Spec hold in a session.      *)
(***************************************************************************)
THEOREM SessionImplements == SessionSpec => Spec
<1>1. SessionInit => Init
  BY DEF SessionInit
<1> QED BY <1>1, WalkAlways, SessionStep, PTL DEF SessionSpec, Spec

-----------------------------------------------------------------------------
(***************************************************************************)
(* The list on the screen.                                                 *)
(***************************************************************************)
Lines(list) == [i \in DOMAIN list |-> list[i].line]

\* Printing changes no text, and split makes the texts of the lines.
LEMMA LinesPadded ==
  ASSUME NEW list \in Seq(Item), NEW pos \in Nat
  PROVE  Lines(padded(list, pos)) = Lines(list)
<1>1. padded(list, pos) \in Seq(Item) /\ Len(padded(list, pos)) = Len(list)
  BY PaddedFacts
<1>2. DOMAIN padded(list, pos) = 1..Len(list) /\ DOMAIN list = 1..Len(list)
  BY <1>1
<1> QED BY <1>2, PaddedFacts DEF Lines

LEMMA LinesFresh ==
  ASSUME NEW o \in Seq(Line)
  PROVE  Lines([i \in 1..Len(o) |-> fresh(o[i])]) = o
<1>1. \A i \in 1..Len(o) : fresh(o[i]).line = o[i]
  BY DEF fresh
<1> QED BY <1>1 DEF Lines

\* The waits between a listing and a command that may change files.
Idling == pc \in {"key", "g", "ask", "keep"}

\* What ListIsCurrent says of the lines of a list and how it was returned.
ListTells(L, kind) ==
  /\ \A i \in DOMAIN L :
       (kind = "torn" => \E j \in DOMAIN L : i < j) => tells(L[i])
  /\ kind = "whole" => \A p \in Path \ stale : told(L, p)

\* Inductive form of ListIsCurrent.
Current == Idling /\ ~undefined => ListTells(Lines(statusItems), listed)

\* printAllStatus in a handler that does not list again.
LEMMA MoveKeepsLines ==
  ASSUME TypeInv, TypeInv', NEW movement, NEW sel, moveAndPrint(movement, sel)
  PROVE  Lines(statusItems') = Lines(statusItems)
<1>1. /\ statusItems \in Seq(Item) /\ padPos' \in Nat
      /\ printAllStatus(statusItems, sel, cursorPosition', padPos')
  BY DEF moveAndPrint, TypeInv, TypeOK
<1>2. statusItems' \in {statusItems, padded(statusItems, padPos')}
  BY <1>1 DEF printAllStatus
<1> QED BY <1>1, <1>2, LinesPadded

\* No step of the program on its own comes back to the main loop from a
\* command, or changes a text of the list.
LEMMA ProgramKeepsList ==
  ASSUME TypeInv, TypeInv', Program, Idling', ~undefined'
  PROVE  Idling /\ ~undefined /\ Lines(statusItems') = Lines(statusItems)
<1>1. Boot \/ User \/ Timeout \/ Terminated \/ PopenFails
  BY DEF Program
<1>2. ~(Boot \/ PopenFails \/ Terminated \/ KeyQuit \/ KeyStatus \/ LeaveOutput)
  BY DEF Idling, Boot, PopenFails, Terminated, vars, Ended, KeyQuit, KeyStatus,
         LeaveOutput, refreshStatusItems
<1>3. CASE KeyMove \/ SecondG \/ KeySpace
  <2>1. pc \in {"key", "g"} /\ undefined' = undefined
    BY <1>3 DEF KeyMove, SecondG, KeySpace
  <2> QED BY <1>3, <2>1, MoveKeepsLines DEF KeyMove, SecondG, KeySpace, Idling
<1>4. ~KeySpaceStray
  BY DEF KeySpaceStray
<1>5. CASE \/ KeyG \/ SwallowKey \/ KeyHidden
           \/ AnswerYes \/ \E keep \in BOOLEAN : AnswerKeep(keep)
  <2>1. pc \in {"key", "g", "ask", "keep"} /\ UNCHANGED <<lists, history>>
    BY <1>5 DEF KeyG, SwallowKey, goto, KeyHidden, AnswerYes, AnswerKeep
  <2> QED BY <2>1 DEF lists, history, Idling, Lines
<1>6. CASE KeyAdd \/ KeyRemove \/ KeyUpdate
  BY <1>6 DEF KeyAdd, KeyRemove, KeyUpdate, ask, lists, history, Idling, Lines
<1>7. CASE Refuse
  BY <1>7 DEF Refuse, listAgain, refreshStatusItems, lists, history, Idling, Lines
<1>8. FALSE \in BOOLEAN
  OBVIOUS
<1> QED BY <1>1, <1>2, <1>3, <1>4, <1>5, <1>6, <1>7, <1>8 DEF User, Timeout

\* What exec returns of a listing is true: a cut one up to its end, a torn
\* one but for its last line, and a whole one of every path.
LEMMA ReturnedTells ==
  ASSUME Walk, NEW got, NEW kind, returns(got, kind)
  PROVE  ListTells(got, kind)
<1>1. /\ out \in Seq(Line) /\ Len(out) \in Nat /\ DOMAIN out = 1..Len(out)
      /\ \A k \in 1..Len(out) : tells(out[k])
  <2>1. out \in Seq(Line)
    BY SvnCursesAssumption DEF Walk, WalkTypes
  <2> QED BY <2>1 DEF Walk, WalkTells
<1>2. CASE kind = "whole" /\ next = Len(Names) + 1 /\ got = out
  <2>1. \A p \in Path : \E j \in 1..Len(Names) : p = Names[j]
    BY NamesFacts DEF Path, Range
  <2>2. \A j \in 1..Len(Names) : Names[j] \in stale \/ told(out, Names[j])
    <3>1. next - 1 = Len(Names)
      BY <1>2, NamesFacts
    <3> QED BY <3>1 DEF Walk, WalkTells
  <2>3. \A p \in Path \ stale : told(out, p)
    BY <2>1, <2>2
  <2> QED BY <1>1, <1>2, <2>3 DEF ListTells
<1>3. CASE kind = "cut" /\ got \in cuts(out)
  <2>1. PICK k \in 0..Len(out) : got = SubSeq(out, 1, k)
    BY <1>3 DEF cuts
  <2>2. DOMAIN got = 1..k /\ \A i \in 1..k : got[i] = out[i] /\ i \in 1..Len(out)
    BY <1>1, <2>1, CutFacts
  <2> QED BY <1>1, <1>3, <2>2 DEF ListTells
<1>4. CASE kind = "torn" /\ got \in tears(out)
  <2>1. PICK k \in 1..Len(out) : \E l : got = Append(SubSeq(out, 1, k - 1), l)
    BY <1>1, <1>4 DEF tears
  <2>2. k - 1 \in 0..Len(out) /\ k \in Nat
    BY <1>1
  <2> DEFINE s == SubSeq(out, 1, k - 1)
  <2>3. /\ s \in Seq(Line) /\ Len(s) = k - 1
        /\ \A i \in 1..(k - 1) : s[i] = out[i]
    BY <1>1, <2>2, CutFacts
  <2> HIDE DEF s
  <2>4. DOMAIN got = 1..k /\ \A i \in 1..(k - 1) : got[i] = s[i]
    <3>1. PICK l : got = Append(s, l)
      BY <2>1 DEF s
    <3> QED BY <2>2, <2>3, <3>1
  <2>5. \A i \in 1..k : (\E j \in 1..k : i < j) => i \in 1..(k - 1) /\ i \in 1..Len(out)
    BY <1>1, <2>2
  <2> QED BY <1>1, <1>4, <2>3, <2>4, <2>5 DEF ListTells
<1> QED BY <1>2, <1>3, <1>4 DEF returns

\* A list stays true for what no other program changes.
LEMMA ListStays ==
  ASSUME NEW L, NEW kind, ListTells(L, kind), stale \subseteq stale',
         \A p \in Path \ stale' : node'[p] = node[p] /\ disk'[p] = disk[p]
  PROVE  ListTells(L, kind)'
<1>1. \A p \in Path \ stale' : WC!status(p)' = WC!status(p)
  BY DEF WC!status, WC!letter
<1>2. \A l : tells(l) => tells(l)'
  BY <1>1 DEF tells
<1>3. \A p \in Path \ stale' : told(L, p) => told(L, p)'
  BY <1>1 DEF told
<1> QED BY <1>2, <1>3 DEF ListTells

\* A listing that gets onto the screen is what exec has returned.
LEMMA StatusIsCurrent ==
  ASSUME TypeInv, Walk, SvnStatus, Idling', ~undefined'
  PROVE  ListTells(Lines(statusItems'), listed')
<1>1. PICK got \in {out} \cup cuts(out) \cup tears(out) :
        returns(got, listed') /\ ListingDone(got)
  BY DEF SvnStatus, EmptyListing
<1>2. got \in Seq(Line)
  <2>1. got \in Outputs
    BY ReturnedOutput
  <2> QED BY <2>1, SvnCursesAssumption
<1> DEFINE list == [i \in 1..Len(got) |-> fresh(got[i])]
<1>3. list \in Seq(Item) /\ padPos \in Nat
  BY <1>2, FreshFacts DEF TypeInv, TypeOK
<1>4. printAllStatus(list, selectedItems, cursorPosition, padPos)
  BY <1>1 DEF ListingDone, showListing
<1>5. Lines(list) = got
  BY <1>2, LinesFresh
<1> HIDE DEF list
<1>6. statusItems' = padded(list, padPos)
  BY <1>4 DEF printAllStatus, Idling
<1>7. Lines(statusItems') = got
  BY <1>3, <1>5, <1>6, LinesPadded
<1> QED BY <1>1, <1>7, ReturnedTells

LEMMA CurrentStep ==
  /\ TypeInv /\ TypeInv' /\ SInv /\ Walk /\ Current /\ [SessionNext]_sessionVars
  => Current'
<1> SUFFICES ASSUME TypeInv, TypeInv', SInv, Walk, Current,
                    [SessionNext]_sessionVars, Idling', ~undefined'
             PROVE  ListTells(Lines(statusItems), listed)'
  BY DEF Current
<1>1. ASSUME NEW L, NEW kind, L = Lines(statusItems'), kind = listed',
             ListTells(L, kind), stale \subseteq stale',
             \A p \in Path \ stale' : node'[p] = node[p] /\ disk'[p] = disk[p]
      PROVE  ListTells(Lines(statusItems), listed)'
  <2>1. ListTells(L, kind)'
    BY <1>1, ListStays
  <2>2. Lines(statusItems)' = L
    BY <1>1 DEF Lines
  <2> QED BY <1>1, <2>1, <2>2 DEF ListTells
<1>2. CASE Program
  <2>1. UNCHANGED <<node, disk, stale, listed>>
    BY <1>2 DEF Program, wc, others
  <2>2. Idling /\ ~undefined /\ Lines(statusItems') = Lines(statusItems)
    BY <1>2, ProgramKeepsList
  <2>3. ListTells(Lines(statusItems'), listed')
    BY <2>1, <2>2 DEF Current
  <2> QED BY <1>1, <2>1, <2>3
<1>3. CASE SvnStatus
  <2>1. UNCHANGED <<node, disk, stale>>
    BY <1>3 DEF SvnStatus, wc
  <2>2. ListTells(Lines(statusItems'), listed')
    BY <1>3, StatusIsCurrent
  <2> QED BY <1>1, <2>1, <2>2
<1>4. ~StartStatus /\ ~ReadInfo /\ ~one_child_status
  BY DEF StartStatus, ReadInfo, one_child_status, vars, Walk, WalkTypes, Idling
<1>5. ~StartSvn /\ ~SvnStep /\ ~EndSvn
  <2>1. pc' = pc => pc # "run"
    BY DEF Idling
  <2>2. ~StartSvn /\ ~SvnStep
    BY <2>1, SvnIsRun DEF StartSvn, SvnStep, vars
  <2>3. ~EndSvn
    BY DEF EndSvn, RunDone, listAgain, refreshStatusItems, Idling
  <2> QED BY <2>2, <2>3
<1>6. CASE OtherProgram \/ UNCHANGED sessionVars
  <2>1. /\ UNCHANGED <<vars, listed>> /\ stale \subseteq stale'
        /\ \A p \in Path \ stale' : node'[p] = node[p] /\ disk'[p] = disk[p]
    BY <1>6, OtherFacts DEF sessionVars, wc, others
  <2>2. UNCHANGED <<pc, undefined, statusItems>>
    BY <2>1 DEF vars, lists, history
  <2>3. ListTells(Lines(statusItems'), listed')
    BY <2>1, <2>2 DEF Current, Idling
  <2> QED BY <1>1, <2>1, <2>3
<1> QED BY <1>2, <1>3, <1>4, <1>5, <1>6 DEF SessionNext, SvnRuns

(***************************************************************************)
(* For any number of paths: when the main loop waits for a key, every line *)
(* of the list is what "svn st" would print for its path now, and no path  *)
(* with a status is missing, except for what other programs have changed   *)
(* since the listing was begun and for the end of a listing that was cut;  *)
(* after every command and every refusal.                                  *)
(***************************************************************************)
THEOREM ListAlwaysCurrent == SessionSpec => []ListIsCurrent
<1>1. SessionInit => Current
  BY DEF SessionInit, Init, Current, Idling
<1>2. TypeInv /\ Current => ListIsCurrent
  <2> SUFFICES ASSUME TypeInv, ListTells(Lines(statusItems), listed)
               PROVE  ListIsCurrent
    BY DEF Current, Idling, ListIsCurrent
  <2>1. /\ Len(statusItems) \in Nat
        /\ DOMAIN statusItems = 1..Len(statusItems)
        /\ DOMAIN Lines(statusItems) = DOMAIN statusItems
        /\ \A i \in DOMAIN statusItems : Lines(statusItems)[i] = statusItems[i].line
    BY DEF TypeInv, TypeOK, Lines
  <2>2. \A i \in DOMAIN statusItems : i < Len(statusItems) =>
          \E j \in DOMAIN statusItems : i < j
    BY <2>1
  <2>3. \A i \in DOMAIN statusItems :
         (listed = "torn" => i < Len(statusItems)) => tells(statusItems[i].line)
    BY <2>1, <2>2 DEF ListTells
  <2>4. listed = "whole" =>
         \A p \in Path \ stale : WC!status(p) # " " =>
           \E i \in DOMAIN statusItems :
             statusItems[i].line = entry(p, WC!status(p))
    BY <2>1 DEF ListTells, told
  <2> QED BY <2>3, <2>4 DEF ListIsCurrent
<1> QED BY <1>1, <1>2, SInvAlways, WalkAlways, SessionImplements, Invariance,
           CurrentStep, PTL DEF SessionSpec

-----------------------------------------------------------------------------
(***************************************************************************)
(* Types of a session.  SessionTypeOK is inductive with SInv, Walk and     *)
(* TypeInv once it says that a process that is idle is Idle.               *)
(***************************************************************************)
JobOK ==
  /\ job \in WC!Job
  /\ job.step = "idle" => job = WC!Idle
  /\ job.step # "idle" => before \in [Path -> WC!Node]
  /\ listed \in {"whole", "cut", "torn"}
  /\ stale \subseteq Path /\ raced \subseteq Path

\* The steps of a process that is not idle.
Busily == {"add", "check", "restore", "edit", "work", "done"}

LEMMA ProcessFacts ==
  ASSUME NEW step \in Busily \cup {"idle"},
         NEW ts \in SUBSET Path, NEW todo \in SUBSET Path, NEW exists \in BOOLEAN
  PROVE  /\ WC!process(step, ts, todo, exists) \in WC!Job
         /\ WC!process(step, ts, todo, exists).step = step
BY DEF WC!process, WC!Job, Busily

\* svn is given paths only.
LEMMA TargetsArePaths ==
  ASSUME TypeInv
  PROVE  targets(handler.items) \subseteq Path
<1>1. \A item \in handler.items : item.line \in Line
  BY DEF TypeInv, TypeOK, Handler, Item
<1> QED BY <1>1, SessionAssumption DEF targets

\* svn starts with the targets of the handler.
LEMMA StartJob ==
  ASSUME TypeInv, SInv, StartSvn
  PROVE  job' \in WC!Job /\ job'.step # "idle" /\ before' \in [Path -> WC!Node]
<1> DEFINE ts == targets(handler.items)
           missing == {p \in Path : node[p] = "normal" /\ disk[p] = "absent"}
<1>1. ts \in SUBSET Path /\ {} \in SUBSET Path /\ missing \in SUBSET Path
  BY TargetsArePaths
<1>2. before' \in [Path -> WC!Node]
  BY DEF StartSvn, SInv, Files
<1>3. \E step \in Busily, t \in SUBSET Path, todo \in SUBSET Path,
         e \in BOOLEAN : job' = WC!process(step, t, todo, e)
  <2>1. CASE WC!StartAdd(ts)
    BY <1>1, <2>1 DEF WC!StartAdd, Busily
  <2>2. CASE WC!StartRemove(ts, handler.keepLocal)
    BY <1>1, <2>2 DEF WC!StartRemove, WC!mark, Busily
  <2>3. CASE WC!StartUpdate
    BY <1>1, <2>3 DEF WC!StartUpdate, Busily
  <2> QED BY <2>1, <2>2, <2>3 DEF StartSvn
<1> HIDE DEF ts, missing
<1>4. \A step \in Busily : step # "idle"
  BY DEF Busily
<1> QED BY <1>2, <1>3, <1>4, ProcessFacts

\* Its steps leave it with paths to deal with.
LEMMA StepJob ==
  ASSUME SInv, JobOK, WC!Step
  PROVE  job' \in WC!Job /\ job.step # "idle" /\ job'.step # "idle"
<1>1. /\ job.targets \in SUBSET Path /\ job.todo \in SUBSET Path
      /\ job.exists \in BOOLEAN /\ {} \in SUBSET Path /\ Path \in SUBSET Path
      /\ job.step \in Busily \cup {"idle"}
      /\ \A p : job.todo \ {p} \in SUBSET Path
  BY DEF JobOK, WC!Job, Busily
<1>2. \A step \in Busily : step # "idle"
  BY DEF Busily
<1> DEFINE Goes == \E step \in Busily, t \in SUBSET Path, todo \in SUBSET Path,
                      e \in BOOLEAN : job' = WC!process(step, t, todo, e)
<1>3. ASSUME Goes PROVE job' \in WC!Job /\ job'.step # "idle"
  BY <1>2, <1>3, ProcessFacts
<1>4. CASE \E p \in Path : WC!RunItem(p)
  BY <1>4 DEF WC!RunItem, SInv, Queued, JobOK
<1>5. CASE \E p \in Path : WC!AddOne(p)
  BY <1>1, <1>3, <1>5 DEF WC!AddOne, WC!done, Busily
<1>6. CASE \E p \in Path : WC!CheckOne(p)
  <2>1. PICK p \in Path : WC!CheckOne(p)
    BY <1>6
  <2>2. (job.exists \/ WC!status(p) # "!") \in BOOLEAN
    BY <1>1
  <2> QED BY <1>1, <1>3, <2>1, <2>2 DEF WC!CheckOne, Busily
<1>7. CASE WC!MarkAll
  BY <1>1, <1>3, <1>7 DEF WC!MarkAll, WC!mark, Busily
<1>8. CASE \E p \in Path : WC!Restore(p)
  BY <1>1, <1>3, <1>8 DEF WC!Restore, Busily
<1>9. CASE \E p \in Path : WC!delete_entry(p) \/ WC!add_file(p) \/ WC!merge_file(p)
  <2>1. PICK p \in Path : \E n, w : WC!edit(p, n, w)
    BY <1>9 DEF WC!delete_entry, WC!add_file, WC!merge_file
  <2> QED BY <1>1, <1>3, <2>1 DEF WC!edit, Busily
<1>10. CASE WC!Report \/ WC!CloseEdit \/ WC!EndWork
  BY <1>1, <1>3, <1>10 DEF WC!Report, WC!CloseEdit, WC!EndWork, Busily
<1> QED BY <1>4, <1>5, <1>6, <1>7, <1>8, <1>9, <1>10 DEF WC!Step

LEMMA JobStep ==
  TypeInv /\ SInv /\ JobOK /\ [SessionNext]_sessionVars => JobOK'
<1> SUFFICES ASSUME TypeInv, SInv, JobOK, [SessionNext]_sessionVars PROVE JobOK'
  OBVIOUS
<1>1. CASE Program \/ StartStatus \/ ReadInfo \/ one_child_status
           \/ UNCHANGED sessionVars
  <2>1. UNCHANGED <<job, before, listed, raced>> /\ stale' \in {stale, {}}
    BY <1>1 DEF Program, StartStatus, ReadInfo, one_child_status, sessionVars,
                wc, others
  <2> QED BY <2>1 DEF JobOK
<1>2. CASE SvnStatus
  <2>1. UNCHANGED <<job, before, raced, stale>> /\ listed' \in {"whole", "cut", "torn"}
    BY <1>2 DEF SvnStatus, wc
  <2> QED BY <2>1 DEF JobOK
<1>3. CASE StartSvn
  BY <1>3, StartJob DEF StartSvn, JobOK
<1>4. CASE SvnStep
  <2>1. UNCHANGED <<listed, stale, before>> /\ raced' \subseteq raced
    BY <1>4 DEF SvnStep
  <2> QED BY <1>4, <2>1, StepJob DEF SvnStep, JobOK
<1>5. CASE EndSvn
  <2>1. job' = WC!Idle /\ raced' = raced /\ stale' = stale /\ listed' = listed
    BY <1>5 DEF EndSvn, WC!Reap
  <2>2. WC!Idle \in WC!Job /\ WC!Idle.step = "idle"
    BY ProcessFacts DEF WC!Idle
  <2> QED BY <2>1, <2>2 DEF JobOK
<1>6. CASE OtherProgram
  <2>1. job' = job /\ before' = before /\ listed' = listed
    BY <1>6 DEF OtherProgram, WC!Save, WC!Erase, WC!Commit
  <2>2. stale' \subseteq Path /\ raced' \subseteq Path
    BY <1>6 DEF OtherProgram, JobOK
  <2> QED BY <2>1, <2>2 DEF JobOK
<1> QED BY <1>1, <1>2, <1>3, <1>4, <1>5, <1>6 DEF SessionNext, SvnRuns

(***************************************************************************)
(* The files and the svn processes keep their types, svn is given paths    *)
(* only, and there is an svn process only while exec waits for it.         *)
(***************************************************************************)
THEOREM SessionTypeCorrect == SessionSpec => []SessionTypeOK
<1>1. SessionInit => JobOK
  <2>1. WC!Idle \in WC!Job /\ WC!Idle.step = "idle"
    BY ProcessFacts DEF WC!Idle
  <2> QED BY <2>1 DEF SessionInit, WC!Init, JobOK
<1>2. SInv /\ Walk /\ JobOK => SessionTypeOK
  <2> SUFFICES ASSUME SInv, Walk, JobOK PROVE SessionTypeOK
    OBVIOUS
  <2>1. WC!TypeOK /\ changes \in Nat
    BY DEF SInv, Files, JobOK, WC!TypeOK
  <2>2. job # WC!Idle => pc = "run" /\ before \in [Path -> WC!Node]
    BY DEF SInv, Steps, JobOK
  <2> QED BY <2>1, <2>2 DEF SessionTypeOK, JobOK, Walk, WalkTypes
<1> QED BY <1>1, <1>2, SInvAlways, WalkAlways, SessionImplements, Invariance,
           JobStep, PTL DEF SessionSpec
=============================================================================
