------------------------------ MODULE LoopProofs ------------------------------
(***************************************************************************)
(* Theorems about what goes on over several calls and sessions.  The       *)
(* handoff notes of the next plugin, for any number of terminals and notes *)
(* and any time to live: the types, and when a note can be injected into a *)
(* second session (FiresOnce).  The yolo-agent of pr-review, for any       *)
(* threads, pages and limits: the types, and that the label for human      *)
(* review is posted when the messages are answered and the commits pushed  *)
(* (LabelIsEarned).  launch.sh, for any job files, waves and calls: the    *)
(* types, that no more jobs are launched than were counted, and that       *)
(* --relaunch-failed launches what failed (RelaunchesFailures).  The       *)
(* runners of openshift-tests, for any tests, command lines and captures:  *)
(* the types, which captures can outlive the runner (CapturesStopped), and *)
(* that a batch run executes what was selected (RanWhatWasSelected).       *)
(***************************************************************************)
EXTENDS MCLoops, FoldLemmas

(***************************************************************************)
(* Handoff                                                                 *)
(***************************************************************************)
LiveNotes == [number : 1..MaxNotes, at : 0..MaxTime, expires : 0..(MaxTime + Ttl)]

Readings == [number : 1..MaxNotes, age : Int, expires : 0..(MaxTime + Ttl), fresh : BOOLEAN]

\* The functions and the bounds that HandoffTypeOK leaves to the run.
HandoffTypes ==
  /\ clock \in 0..MaxTime /\ written \in 0..MaxNotes
  /\ note \in LiveNotes \cup {NoNote}
  /\ phase \in [Terminals -> {"off", "starting", "retiring", "idle", "running", "armed"}]
  /\ found \in [Terminals -> Readings \cup {NoNote}]
  /\ queued \in [Terminals -> {"none", "clear", "resume"}]
  /\ given \in [Terminals -> 0..written] /\ draft \in [Terminals -> 0..written]
  /\ again \subseteq spent /\ spent \subseteq 1..written

\* The note at the project's path was written, and was injected or deleted
\* before only if an arm wrote it back or it could not be retired.
NoteTold ==
  note # NoNote => note.number \in 1..written /\ (note.number \in spent => note.number \in again)

\* What a hook holds it read from that path, before the note was spent or when
\* it was there again.
FoundTold ==
  \A s \in Terminals : found[s] # NoNote =>
    /\ phase[s] = "retiring" /\ found[s].number \in 1..written
    /\ found[s].fresh \/ found[s].number \in again

HandoffInv == HandoffTypes /\ NoteTold /\ FoundTold

LEMMA HandoffInit ==
  ASSUME HandoffAssumption
  PROVE  InitHandoff => HandoffInv
  BY DEF HandoffAssumption, InitHandoff, HandoffInv, HandoffTypes, NoteTold, FoundTold

\* A note that is read, with its age.
LEMMA NoteRead ==
  ASSUME HandoffAssumption, HandoffInv, NEW s \in Terminals, ReadNote(s)
  PROVE  HandoffInv'
<1> USE DEF HandoffInv, HandoffTypes, NoteTold, FoundTold
<1>1. /\ phase' = [phase EXCEPT ![s] = "retiring"]
      /\ UNCHANGED <<note, written, clock, given, queued, draft, spent, again>>
  BY DEF ReadNote, disk, ghost
<1>2. PICK f : found' = [found EXCEPT ![s] = f]
  BY DEF ReadNote
<1>3. CASE note = NoNote
  <2>1. f = NoNote
    BY <1>2, <1>3 DEF ReadNote
  <2> QED
    BY <1>1, <1>2, <2>1
<1>4. CASE note # NoNote
  <2>1. f = [number |-> note.number, age |-> clock - note.at, expires |-> note.expires,
             fresh |-> note.number \notin spent]
    BY <1>2, <1>4 DEF ReadNote
  <2>2. note \in LiveNotes /\ clock \in Int
    BY <1>4 DEF HandoffAssumption
  <2>3. note.number \in 1..MaxNotes /\ clock - note.at \in Int /\ note.expires \in 0..(MaxTime + Ttl)
    BY <2>2 DEF LiveNotes, HandoffAssumption
  <2>4. f \in Readings /\ f.number = note.number
    BY <2>1, <2>3 DEF Readings
  <2>5. f.fresh \/ f.number \in again
    BY <1>4, <2>1
  <2>6. found' \in [Terminals -> Readings \cup {NoNote}]
    BY <1>2, <2>4
  <2>7. FoundTold'
    BY <1>1, <1>2, <1>4, <2>4, <2>5
  <2> QED
    BY <1>1, <2>6, <2>7
<1> QED
  BY <1>3, <1>4

\* The hook retires what is there and injects what it read, or nothing.
LEMMA RetireKeeps ==
  ASSUME HandoffAssumption, HandoffInv, NEW s \in Terminals, Retire(s)
  PROVE  HandoffInv'
<1> USE DEF HandoffInv, HandoffTypes, NoteTold, FoundTold
<1>1. /\ phase' = [phase EXCEPT ![s] = "idle"]
      /\ found' = [found EXCEPT ![s] = NoNote]
      /\ UNCHANGED <<written, clock, queued, draft>>
  BY DEF Retire
<1>2. given' \in [Terminals -> 0..written] /\ spent \subseteq spent' /\ spent' \subseteq 1..written
  <2>1. CASE UNCHANGED <<given, spent>>
    BY <2>1
  <2>2. ASSUME NEW n \in 1..written, given' = [given EXCEPT ![s] = n], spent' = spent \cup {n}
        PROVE  given' \in [Terminals -> 0..written] /\ spent \subseteq spent' /\ spent' \subseteq 1..written
    BY <2>2 DEF HandoffAssumption
  <2>3. \/ UNCHANGED <<given, spent>>
        \/ /\ found[s].number \in 1..written
           /\ given' = [given EXCEPT ![s] = found[s].number]
           /\ spent' = spent \cup {found[s].number}
    BY DEF Retire
  <2> QED
    BY <2>1, <2>2, <2>3
<1>3. \/ note' = NoNote /\ again' = again
      \/ note' = note /\ note = NoNote /\ again' = again
      \/ note' = note /\ note # NoNote /\ again' = again \cup (spent' \cap {note.number})
  BY DEF Retire, Retired
<1>4. again \subseteq again' /\ again' \subseteq spent' /\ note' \in LiveNotes \cup {NoNote} /\ NoteTold'
  BY <1>1, <1>2, <1>3
<1>5. FoundTold'
  BY <1>1, <1>4
<1>6. found' \in [Terminals -> Readings \cup {NoNote}]
  BY <1>1
<1> QED
  BY <1>1, <1>2, <1>4, <1>5, <1>6

\* A session that starts looks at the disk and changes nothing there.
LEMMA BeginKeeps ==
  ASSUME HandoffAssumption, HandoffInv, NEW s \in Terminals, Begin(s), phase[s] # "retiring",
         UNCHANGED <<disk, clock, found, draft, ghost>>,
         queued' \in [Terminals -> {"none", "clear", "resume"}]
  PROVE  HandoffInv'
<1> USE DEF HandoffInv, HandoffTypes, NoteTold, FoundTold, disk, ghost
<1>1. phase' \in [Terminals -> {"off", "starting", "retiring", "idle", "running", "armed"}]
  BY DEF Begin
<1>2. given' \in [Terminals -> 0..written]
  BY DEF Begin, HandoffAssumption
<1>3. \A t \in Terminals : phase[t] = "retiring" => phase'[t] = "retiring"
  BY DEF Begin
<1>4. FoundTold' /\ NoteTold'
  BY <1>3
<1> QED
  BY <1>1, <1>2, <1>4

LEMMA HandoffNext ==
  ASSUME HandoffAssumption
  PROVE  HandoffInv /\ [HandoffStep]_handoffVars => HandoffInv'
<1> SUFFICES ASSUME HandoffInv, [HandoffStep]_handoffVars PROVE HandoffInv'
  OBVIOUS
<1> USE HandoffAssumption
        DEF HandoffAssumption, HandoffInv, HandoffTypes, NoteTold, FoundTold,
            disk, tui, ghost
<1>1. CASE Disarm
  BY <1>1 DEF Disarm
<1>2. CASE Tick
  BY <1>2 DEF Tick
<1>3. ASSUME NEW s \in Terminals, WriteNote(s) PROVE HandoffInv'
  <2>1. /\ written' = written + 1 /\ written' \in 0..MaxNotes
        /\ note' = [number |-> written + 1, at |-> clock, expires |-> 0]
        /\ UNCHANGED <<clock, tui, ghost>>
    BY <1>3 DEF WriteNote
  <2>2. note' \in LiveNotes
    BY <2>1 DEF LiveNotes
  <2>3. note'.number = written' /\ written' \notin spent'
    BY <2>1
  <2> QED
    BY <2>1, <2>2, <2>3
<1>4. ASSUME NEW s \in Terminals, ArmWrite(s) PROVE HandoffInv'
  <2>1. /\ draft[s] \in 1..written /\ draft[s] \in 1..MaxNotes
        /\ note' = [number |-> draft[s], at |-> clock, expires |-> clock + Ttl]
        /\ again' = again \cup (spent \cap {draft[s]})
        /\ draft' = [draft EXCEPT ![s] = 0]
        /\ phase' = [phase EXCEPT ![s] = IF @ = "running" THEN "armed" ELSE @]
        /\ UNCHANGED <<written, clock, found, given, queued, spent>>
    BY <1>4 DEF ArmWrite
  <2>2. clock \in 0..MaxTime /\ clock + Ttl \in 0..(MaxTime + Ttl)
    OBVIOUS
  <2>3. note' \in LiveNotes /\ note'.number = draft[s]
    BY <2>1, <2>2 DEF LiveNotes
  <2>4. NoteTold' /\ again' \subseteq spent' /\ again \subseteq again'
    BY <2>1, <2>3
  <2>5. phase' \in [Terminals -> {"off", "starting", "retiring", "idle", "running", "armed"}]
    BY <2>1
  <2>6. FoundTold'
    BY <2>1, <2>4
  <2> QED
    BY <2>1, <2>3, <2>4, <2>5, <2>6
<1>5. ASSUME NEW s \in Terminals, ArmRead(s) PROVE HandoffInv'
  <2>1. note.number \in 0..written /\ draft' = [draft EXCEPT ![s] = note.number]
        /\ UNCHANGED <<disk, clock, phase, found, given, queued, ghost>>
    BY <1>5 DEF ArmRead
  <2> QED
    BY <2>1
<1>6. ASSUME NEW s \in Terminals, ArmFails(s) PROVE HandoffInv'
  BY <1>6 DEF ArmFails
<1>7. ASSUME NEW s \in Terminals, Startup(s) PROVE HandoffInv'
  BY <1>7, BeginKeeps DEF Startup
<1>8. ASSUME NEW s \in Terminals, Clear(s) PROVE HandoffInv'
  <2>1. queued' \in [Terminals -> {"none", "clear", "resume"}]
    BY <1>8 DEF Clear
  <2> QED
    BY <1>8, <2>1, BeginKeeps DEF Clear
<1>9. ASSUME NEW s \in Terminals, Dequeue(s) PROVE HandoffInv'
  BY <1>9 DEF Dequeue
<1>10. ASSUME NEW s \in Terminals, Go(s) PROVE HandoffInv'
  BY <1>10 DEF Go
<1>11. ASSUME NEW s \in Terminals, TurnComplete(s) PROVE HandoffInv'
  BY <1>11 DEF TurnComplete
<1>12. ASSUME NEW s \in Terminals, Exit(s) PROVE HandoffInv'
  BY <1>12 DEF Exit
<1>13. CASE UNCHANGED handoffVars
  BY <1>13 DEF handoffVars
<1> QED
  BY <1>1, <1>2, <1>3, <1>4, <1>5, <1>6, <1>7, <1>8, <1>9, <1>10, <1>11,
     <1>12, <1>13, NoteRead, RetireKeeps
  DEF HandoffStep

\* HandoffTypes of the note on disk, of the hooks and of the sessions.
THEOREM HandoffTypeCorrect ==
  ASSUME HandoffAssumption
  PROVE  HandoffSpec => []HandoffTypeOK
<1>1. HandoffInv => HandoffTypeOK
  BY DEF HandoffInv, HandoffTypes, FoundTold, HandoffTypeOK, Notes, LiveNotes
<1> QED
  BY <1>1, HandoffInit, HandoffNext, PTL DEF HandoffSpec

\* A note that was injected or deleted is injected once more only by a hook
\* that had read it before, or when an arm wrote it back or it could not be
\* retired.
THEOREM FiresOnceHolds ==
  ASSUME HandoffAssumption
  PROVE  HandoffSpec => FiresOnce
<1> DEFINE Once == \A s \in Terminals : Injected(s) /\ given'[s] \in spent =>
                     found[s].fresh \/ given'[s] \in again'
<1>1. HandoffInv /\ [HandoffStep]_handoffVars => [Once]_handoffVars
  <2> SUFFICES ASSUME HandoffInv, HandoffStep, NEW s \in Terminals, Injected(s)
               PROVE  found[s].fresh \/ given'[s] \in again'
    OBVIOUS
  <2> USE DEF HandoffInv, HandoffTypes, FoundTold, Injected
  <2>1. ASSUME NEW t \in Terminals, Retire(t)
        PROVE  found[s].fresh \/ given'[s] \in again'
    <3>1. /\ found[t] # NoNote
          /\ given' = [given EXCEPT ![t] = found[t].number]
      BY <2>1 DEF Retire
    <3>2. s = t /\ given'[s] = found[s].number
      BY <3>1
    <3>3. again \subseteq again'
      BY <2>1 DEF Retire, Retired
    <3> QED
      BY <3>1, <3>2, <3>3
  <2>2. ASSUME NEW t \in Terminals, Exit(t) \/ Startup(t) \/ Clear(t) PROVE FALSE
    BY <2>2 DEF Exit, Startup, Clear, Begin
  <2>3. CASE UNCHANGED given
    BY <2>3
  <2> QED
    BY <2>1, <2>2, <2>3 DEF HandoffStep, Disarm, Tick, WriteNote, ArmRead,
       ArmWrite, ArmFails, ReadNote, Dequeue, Go, TurnComplete, disk, tui
<1> QED
  BY <1>1, HandoffInit, HandoffNext, PTL DEF HandoffSpec, FiresOnce

(***************************************************************************)
(* The yolo-agent                                                          *)
(***************************************************************************)
Messages == Seq({"other", "agent"})

YoloTypes ==
  /\ setup \in [headless : BOOLEAN, include : BOOLEAN, max : Limits]
  /\ pc \in {"off", "gather", "act", "reply", "schedule", "ready", "closed", "failed", "stopped"}
  /\ state \in States /\ env \in States \cup {NoState} /\ file \in States \cup {NoState}
  /\ next \in States \cup {NoState, Cron}
  /\ thread \in [Threads -> [comments : Messages, resolved : BOOLEAN]]
  /\ shown \in [Threads -> Nat] /\ gathered \in [Threads -> Nat] /\ labelled \in BOOLEAN
  /\ \A t \in Threads : shown[t] <= Len(thread[t].comments) /\ gathered[t] <= Len(thread[t].comments)

\* Nothing is to be restarted while a session works.
OneSession == pc \notin {"off", "stopped"} => next = NoState

\* Only a headless loop is handed a state.
HandedOn == env # NoState \/ next \in States => setup.headless

\* A session of its own that could not push is over, and nothing follows it.
UnpushedEnds ==
  ahead => next # Cron /\ (env = NoState => pc \in {"off", "failed", "stopped"})

\* Found nothing to do, and nothing was undone since.
ReadyAnswered == pc = "ready" => Answered

YoloInv == YoloTypes /\ OneSession /\ HandedOn /\ UnpushedEnds /\ ReadyAnswered

LEMMA FreshState ==
  Fresh \in States /\ \A s \in {"running", "waiting", "complete"} : [Fresh EXCEPT !.status = s] \in States
  BY DEF Fresh, States

LEMMA YoloInit ==
  ASSUME YoloAssumption
  PROVE  InitYolo => YoloInv
<1> SUFFICES ASSUME InitYolo PROVE YoloInv
  OBVIOUS
<1> USE FreshState DEF YoloAssumption, InitYolo
<1>1. << >> \in Messages /\ Len(<< >>) = 0
  BY DEF Messages
<1>2. YoloTypes
  <2>1. setup \in [headless : BOOLEAN, include : BOOLEAN, max : Limits] /\ labelled \in BOOLEAN
    OBVIOUS
  <2>2. next \in States \cup {NoState, Cron}
    OBVIOUS
  <2>3. thread \in [Threads -> [comments : Messages, resolved : BOOLEAN]]
    BY <1>1
  <2> QED
    BY <1>1, <2>1, <2>2, <2>3 DEF YoloTypes
<1>3. OneSession /\ UnpushedEnds /\ ReadyAnswered
  BY DEF OneSession, UnpushedEnds, ReadyAnswered
<1>4. HandedOn
  BY DEF HandedOn
<1> QED
  BY <1>2, <1>3, <1>4 DEF YoloInv

\* Threads only grow.
ThreadsGrow ==
  /\ thread' \in [Threads -> [comments : Messages, resolved : BOOLEAN]]
  /\ \A t \in Threads :
       /\ Len(thread[t].comments) <= Len(thread'[t].comments)
       /\ \A i \in 1..Len(thread[t].comments) : thread'[t].comments[i] = thread[t].comments[i]

LEMMA OneMore ==
  ASSUME YoloTypes, NEW t \in Threads, NEW who \in {"other", "agent"}, NEW open \in BOOLEAN,
         thread' = [thread EXCEPT ![t] = [comments |-> Append(thread[t].comments, who), resolved |-> open]]
  PROVE  ThreadsGrow
<1> USE DEF YoloTypes, Messages
<1>1. thread[t].comments \in Seq({"other", "agent"})
  OBVIOUS
<1>2. /\ Append(thread[t].comments, who) \in Seq({"other", "agent"})
      /\ Len(Append(thread[t].comments, who)) = Len(thread[t].comments) + 1
      /\ \A i \in 1..Len(thread[t].comments) : Append(thread[t].comments, who)[i] = thread[t].comments[i]
  BY <1>1
<1>3. thread' \in [Threads -> [comments : Messages, resolved : BOOLEAN]]
  BY <1>2
<1>4. ASSUME NEW u \in Threads
      PROVE  /\ Len(thread[u].comments) <= Len(thread'[u].comments)
             /\ \A i \in 1..Len(thread[u].comments) : thread'[u].comments[i] = thread[u].comments[i]
  <2>1. CASE u = t
    BY <1>1, <1>2, <2>1
  <2>2. CASE u # t
    BY <2>2
  <2> QED
    BY <2>1, <2>2
<1> QED
  BY <1>3, <1>4 DEF ThreadsGrow

\* What was answered stays answered.
LEMMA AnsweredStays ==
  ASSUME YoloAssumption, YoloTypes, Answered, ThreadsGrow, UNCHANGED <<setup, gathered>>
  PROVE  Answered'
<1> SUFFICES ASSUME NEW t \in Visible', gathered[t] <= PageSize, NEW i \in 1..gathered[t],
                    thread'[t].comments[i] = "other"
             PROVE  \E j \in (i + 1)..Len(thread'[t].comments) : thread'[t].comments[j] = "agent"
  BY DEF Answered
<1>1. t \in Visible /\ t \in Threads
  BY DEF Visible, YoloAssumption
<1>2. /\ gathered[t] \in Nat /\ gathered[t] <= Len(thread[t].comments)
      /\ Len(thread[t].comments) \in Nat /\ Len(thread'[t].comments) \in Nat
  BY <1>1 DEF YoloTypes, ThreadsGrow, Messages
<1>3. thread[t].comments[i] = "other"
  BY <1>1, <1>2 DEF ThreadsGrow
<1>4. PICK j \in (i + 1)..Len(thread[t].comments) : thread[t].comments[j] = "agent"
  BY <1>1, <1>3 DEF Answered
<1>5. j \in (i + 1)..Len(thread'[t].comments) /\ thread'[t].comments[j] = thread[t].comments[j]
  BY <1>1, <1>2 DEF ThreadsGrow
<1> QED
  BY <1>4, <1>5

\* Nothing is returned: the agent spoke last in every open thread of one page.
LEMMA NothingReturned ==
  ASSUME YoloAssumption, YoloTypes, Gather, Returned = {}
  PROVE  Answered'
<1>0. thread' = thread /\ Visible' = Visible
  BY DEF Gather, pull, Visible
<1> SUFFICES ASSUME NEW t \in Visible, gathered'[t] <= PageSize, NEW i \in 1..gathered'[t],
                    thread[t].comments[i] = "other"
             PROVE  \E j \in (i + 1)..Len(thread[t].comments) : thread[t].comments[j] = "agent"
  BY <1>0 DEF Answered
<1>1. t \in Threads
  BY DEF Visible, YoloAssumption
<1>2. gathered'[t] = IF Unresolved(t) THEN Len(thread[t].comments) ELSE 0
  BY <1>1 DEF Gather
<1>3. Unresolved(t) /\ gathered'[t] = Len(thread[t].comments)
  BY <1>2
<1>4. LastSeen(t) = "agent"
  BY <1>3 DEF Returned
<1>5. Len(thread[t].comments) \in Nat /\ PageSize \in Nat
  BY <1>1 DEF YoloTypes, Messages, YoloAssumption
<1>6. thread[t].comments[Len(thread[t].comments)] = "agent"
  BY <1>3, <1>4, <1>5 DEF LastSeen
<1>7. i < Len(thread[t].comments)
  BY <1>3, <1>5, <1>6
<1> QED
  BY <1>5, <1>6, <1>7

\* Somebody acts on GitHub while the session stays where it is.
LEMMA PullKeeps ==
  ASSUME YoloAssumption, YoloInv, ThreadsGrow, UNCHANGED <<setup, session, shown, gathered, ahead, labelled>>
  PROVE  YoloInv'
<1> USE DEF YoloInv, session
<1>1. YoloTypes'
  <2>1. ASSUME NEW t \in Threads
        PROVE  shown[t] <= Len(thread'[t].comments) /\ gathered[t] <= Len(thread'[t].comments)
    BY DEF YoloTypes, ThreadsGrow, Messages
  <2> QED
    BY <2>1 DEF YoloTypes, ThreadsGrow
<1>2. ReadyAnswered'
  BY AnsweredStays DEF ReadyAnswered
<1> QED
  BY <1>1, <1>2 DEF OneSession, HandedOn, UnpushedEnds

LEMMA YoloNext ==
  ASSUME YoloAssumption
  PROVE  YoloInv /\ [YoloStep]_yoloVars => YoloInv'
<1> SUFFICES ASSUME YoloInv, [YoloStep]_yoloVars PROVE YoloInv'
  OBVIOUS
<1> USE YoloAssumption DEF YoloInv, YoloAssumption
<1> DEFINE Rest == YoloTypes' /\ OneSession' /\ HandedOn' /\ UnpushedEnds'
<1>1. ASSUME StartSession PROVE YoloInv'
  <2>1. env' \in States \cup {NoState} /\ next' = NoState /\ (env' # NoState => next \in States)
    BY <1>1 DEF StartSession, YoloTypes
  <2>2. state' \in States
    <3>1. Loaded(env') \in States
      BY <2>1, FreshState DEF Loaded, YoloTypes
    <3> QED
      BY <1>1, <3>1 DEF StartSession, States
  <2>3. YoloTypes'
    BY <1>1, <2>1, <2>2 DEF StartSession, YoloTypes, pull
  <2>4. HandedOn'
    BY <1>1, <2>1 DEF StartSession, HandedOn
  <2>5. UnpushedEnds'
    BY <1>1, <2>1 DEF StartSession, UnpushedEnds, YoloTypes
  <2> QED
    BY <1>1, <2>1, <2>3, <2>4, <2>5 DEF StartSession, OneSession, ReadyAnswered
<1>2. ASSUME Gather PROVE YoloInv'
  <2>1. shown' \in [Threads -> Nat] /\ gathered' \in [Threads -> Nat]
    BY <1>2 DEF Gather, YoloTypes, Messages
  <2>2. \A t \in Threads : shown'[t] <= Len(thread[t].comments) /\ gathered'[t] <= Len(thread[t].comments)
    BY <1>2 DEF Gather, YoloTypes, Messages
  <2>3. YoloTypes'
    BY <1>2, <2>1, <2>2 DEF Gather, YoloTypes, pull
  <2>4. pc' = "ready" => Returned = {}
    BY <1>2 DEF Gather
  <2>5. ReadyAnswered'
    BY <1>2, <2>4, NothingReturned DEF ReadyAnswered
  <2> QED
    BY <1>2, <2>3, <2>5 DEF Gather, OneSession, HandedOn, UnpushedEnds
<1>3. ASSUME Complete PROVE YoloInv'
  BY <1>3 DEF Complete, Clean, pull, YoloTypes, States, OneSession, HandedOn, UnpushedEnds, ReadyAnswered
<1>4. ASSUME Push PROVE YoloInv'
  BY <1>4 DEF Push, pull, YoloTypes, OneSession, HandedOn, UnpushedEnds, ReadyAnswered
<1>5. ASSUME NothingToPush PROVE YoloInv'
  BY <1>5 DEF NothingToPush, pull, YoloTypes, OneSession, HandedOn, UnpushedEnds, ReadyAnswered
<1>6. ASSUME Schedule PROVE YoloInv'
  <2>1. state' \in States /\ file' = state'
    BY <1>6 DEF Schedule, Save, YoloTypes, States
  <2>2. next' \in {NoState, Cron} /\ (next' = Cron => ~setup.headless)
    BY <1>6 DEF Schedule
  <2>3. ahead => setup.headless
    BY <1>6 DEF Schedule, UnpushedEnds, HandedOn
  <2> QED
    BY <1>6, <2>1, <2>2, <2>3
    DEF Schedule, pull, YoloTypes, OneSession, HandedOn, UnpushedEnds, ReadyAnswered
<1>7. ASSUME Fail PROVE YoloInv'
  <2>1. state' \in States /\ file' = state'
    BY <1>7 DEF Fail, Save, YoloTypes, States
  <2> QED
    BY <1>7, <2>1 DEF Fail, pull, YoloTypes, OneSession, HandedOn, UnpushedEnds, ReadyAnswered
<1>8. ASSUME EndEarly PROVE YoloInv'
  BY <1>8 DEF EndEarly, pull, YoloTypes, OneSession, HandedOn, UnpushedEnds, ReadyAnswered
<1>9. ASSUME StopHook PROVE YoloInv'
  <2>1. ASSUME env \in States PROVE Counted(env) \in States
    <3>1. \A n \in Nat : [env EXCEPT !.iteration = n, !.status = "running"] \in States
      BY <2>1 DEF States
    <3>2. env.iteration \in Nat /\ env.iteration + 1 \in Nat
      BY <2>1 DEF States
    <3> QED
      BY <3>1, <3>2, <2>1 DEF Counted
  <2>2. \/ env = NoState /\ next' = next
        \/ env \in States /\ next' \in States \cup {NoState}
    BY <1>9, <2>1 DEF StopHook, YoloTypes
  <2> QED
    BY <1>9, <2>2 DEF StopHook, pull, YoloTypes, OneSession, HandedOn, UnpushedEnds, ReadyAnswered
<1>10. ASSUME NEW t \in Threads, Reply(t) PROVE YoloInv'
  <2>1. PICK r \in BOOLEAN :
          thread' = [thread EXCEPT ![t] = [comments |-> Append(thread[t].comments, "agent"), resolved |-> r]]
    BY <1>10 DEF Reply
  <2>2. ThreadsGrow
    BY <2>1, OneMore
  <2>3. state' \in States
    BY <1>10 DEF Reply, YoloTypes, States
  <2>4. shown' = [shown EXCEPT ![t] = 0] /\ UNCHANGED <<setup, pc, env, file, next, gathered, ahead, labelled>>
    BY <1>10 DEF Reply
  <2>5. ASSUME NEW u \in Threads
        PROVE  shown'[u] <= Len(thread'[u].comments) /\ gathered'[u] <= Len(thread'[u].comments)
    BY <2>2, <2>4 DEF YoloTypes, ThreadsGrow, Messages
  <2>6. YoloTypes'
    BY <2>2, <2>3, <2>4, <2>5 DEF YoloTypes, ThreadsGrow
  <2> QED
    BY <1>10, <2>4, <2>6 DEF Reply, OneSession, HandedOn, UnpushedEnds, ReadyAnswered
<1>11. ASSUME NEW t \in Threads, ReplyFails(t) PROVE YoloInv'
  <2>1. state' \in States
    <3>1. state \in States /\ state.failures \in [Threads -> 0..3]
      BY DEF YoloTypes, States
    <3>2. CASE state.failures[t] < 3
      <4>1. [state.failures EXCEPT ![t] = @ + 1] \in [Threads -> 0..3]
        BY <3>1, <3>2
      <4>2. state' = [state EXCEPT !.failures = [state.failures EXCEPT ![t] = @ + 1]]
        BY <1>11, <3>1, <3>2 DEF ReplyFails, States
      <4> QED
        BY <3>1, <4>1, <4>2 DEF States
    <3>3. CASE ~(state.failures[t] < 3)
      BY <1>11, <3>1, <3>3 DEF ReplyFails, States
    <3> QED
      BY <3>2, <3>3
  <2>2. shown' \in [Threads -> Nat] /\ \A u \in Threads : shown'[u] <= Len(thread[u].comments)
    BY <1>11 DEF ReplyFails, YoloTypes, Messages
  <2> QED
    BY <1>11, <2>1, <2>2 DEF ReplyFails, pull, YoloTypes, OneSession, HandedOn, UnpushedEnds, ReadyAnswered
<1>12. ASSUME Ci PROVE YoloInv'
  <2>1. ThreadsGrow
    BY <1>12 DEF Ci, ThreadsGrow, YoloTypes, Messages
  <2> QED
    BY <1>12, <2>1, PullKeeps DEF Ci
<1>13. ASSUME NEW t \in Threads, Comment(t) PROVE YoloInv'
  <2>1. thread' = [thread EXCEPT ![t] = [comments |-> Append(thread[t].comments, "other"), resolved |-> FALSE]]
    BY <1>13 DEF Comment
  <2> QED
    BY <1>13, <2>1, OneMore, PullKeeps DEF Comment
<1>14. ASSUME NEW t \in Threads, Resolve(t) PROVE YoloInv'
  <2>1. thread[t] \in [comments : Messages, resolved : BOOLEAN]
    BY DEF YoloTypes
  <2>2. /\ [thread[t] EXCEPT !.resolved = TRUE] \in [comments : Messages, resolved : BOOLEAN]
        /\ [thread[t] EXCEPT !.resolved = TRUE].comments = thread[t].comments
    BY <2>1
  <2>3. thread' = [thread EXCEPT ![t] = [thread[t] EXCEPT !.resolved = TRUE]]
    BY <1>14 DEF Resolve, YoloTypes
  <2>4. \A u \in Threads : thread'[u].comments = thread[u].comments /\ Len(thread[u].comments) \in Nat
    BY <2>2, <2>3 DEF YoloTypes, Messages
  <2>5. ThreadsGrow
    BY <2>2, <2>3, <2>4 DEF ThreadsGrow, YoloTypes
  <2> QED
    BY <1>14, <2>5, PullKeeps DEF Resolve
<1>15. CASE UNCHANGED yoloVars
  BY <1>15 DEF yoloVars, session, pull, YoloTypes, OneSession, HandedOn, UnpushedEnds, ReadyAnswered, Answered, Visible
<1> QED
  BY <1>1, <1>2, <1>3, <1>4, <1>5, <1>6, <1>7, <1>8, <1>9, <1>10, <1>11, <1>12, <1>13, <1>14, <1>15
  DEF YoloStep, Cycle

\* The variables have their types, and a state that is loaded is a whole one.
THEOREM YoloTypeCorrect ==
  ASSUME YoloAssumption
  PROVE  YoloSpec => []YoloTypeOK
<1>1. YoloInv => YoloTypeOK
  BY DEF YoloInv, YoloTypes, YoloTypeOK
<1> QED
  BY <1>1, YoloInit, YoloNext, PTL DEF YoloSpec

\* The label for human review is posted when the messages of this cycle's
\* gather were answered and, by a session of its own, no commit waits.
THEOREM LabelIsEarnedHolds ==
  ASSUME YoloAssumption
  PROVE  YoloSpec => LabelIsEarned
<1> DEFINE Earned == labelled' # labelled => Answered /\ (env = NoState => ~ahead)
<1>1. YoloInv /\ [YoloStep]_yoloVars => [Earned]_yoloVars
  <2> SUFFICES ASSUME YoloInv, YoloStep, labelled' # labelled
               PROVE  Answered /\ (env = NoState => ~ahead)
    OBVIOUS
  <2>1. Complete
    BY DEF YoloStep, Cycle, StartSession, Gather, Push, NothingToPush, Schedule, Fail, EndEarly,
           StopHook, Reply, ReplyFails, Ci, Comment, Resolve
  <2>2. pc = "ready"
    BY <2>1 DEF Complete, YoloInv, YoloTypes
  <2> QED
    BY <2>2 DEF YoloInv, ReadyAnswered, UnpushedEnds
<1> QED
  BY <1>1, YoloInit, YoloNext, PTL DEF YoloSpec, LabelIsEarned

(***************************************************************************)
(* launch.sh                                                               *)
(***************************************************************************)
Execution ==
  [job : JobNames, run : RunNames, call : Nat, url : BOOLEAN, result : Results \cup {""}]

\* The record of a call has the fields its start gave it.
WholeCall(c) ==
  c = [pc |-> c.pc, run |-> c.run, dry |-> c.dry, initial |-> c.initial, fits |-> c.fits,
       all |-> c.all, nums |-> c.nums, previous |-> c.previous, id |-> c.id,
       total |-> c.total, line |-> c.line, count |-> c.count, launched |-> c.launched]

RcTypes ==
  /\ files \in JobFiles /\ launches \in Nat
  /\ execs \in Seq(Execution)
  /\ launcher.pc # "idle" => WholeCall(launcher) /\ launcher.run \in RunNames

\* The running call is the last, and no execution is of a later one.
LastCall ==
  /\ launcher.pc # "idle" => launcher.id = launches
  /\ \A e \in DOMAIN execs : execs[e].call <= launches

\* A job that failed before the call, in the directory the call has scanned.
FailedBefore(job, begun) ==
  \E f \in Failed(begun.previous) : execs[f].job = job /\ execs[f].call < begun.id

\* The job files do not change under a call, so that each line number the
\* scan found is still the line of a failed job.
NumbersFailed ==
  launcher.pc # "idle" /\ ~launcher.all =>
    \A i \in DOMAIN Combined : i \in launcher.nums => FailedBefore(Combined[i], launcher)

RcInv == RcTypes /\ LastCall /\ NumbersFailed /\ RelaunchesFailures

LEMMA RcInit ==
  ASSUME RcAssumption
  PROVE  InitRc => RcInv
<1> SUFFICES ASSUME InitRc PROVE RcInv
  OBVIOUS
<1>1. launcher.pc = "idle" /\ execs = << >> /\ files \in JobFiles /\ launches = 0
  BY DEF InitRc, Idle
<1>2. execs \in Seq(Execution) /\ DOMAIN execs = {}
  BY <1>1
<1> QED
  BY <1>1, <1>2 DEF RcInv, RcTypes, LastCall, NumbersFailed, RelaunchesFailures

\* What failed stays failed, whatever Prow finishes or starts meanwhile.
ExecsGrow ==
  \A e \in DOMAIN execs :
    /\ e \in DOMAIN execs'
    /\ execs'[e].job = execs[e].job /\ execs'[e].run = execs[e].run
    /\ execs'[e].call = execs[e].call /\ execs'[e].url = execs[e].url
    /\ execs[e].result # "" => execs'[e].result = execs[e].result

LEMMA FailedStays ==
  ASSUME ExecsGrow, NEW e \in Failed(launcher.previous), launcher'.previous = launcher.previous
  PROVE  /\ e \in Failed(launcher.previous)'
         /\ execs'[e].job = execs[e].job /\ execs'[e].call = execs[e].call
  BY DEF ExecsGrow, Failed, Tracked

LEMMA TypedExecs ==
  ASSUME RcTypes
  PROVE  \A e \in DOMAIN execs : e \in 1..Len(execs) /\ execs[e] \in Execution /\ execs[e].call \in Nat
<1>1. ASSUME NEW e \in DOMAIN execs PROVE e \in 1..Len(execs) /\ execs[e] \in Execution
  BY DEF RcTypes
<1> QED
  BY <1>1 DEF Execution

LEMMA ListedJobs ==
  ASSUME files \in JobFiles, NEW i \in DOMAIN Combined
  PROVE  Combined[i] \in JobNames
<1>1. Combined[i] \in ToSet(files.regular \o files.lvms \o files.upgrade)
  BY DEF Combined, ToSet
<1> QED
  BY <1>1 DEF JobNames

LEMMA IdleKeeps ==
  ASSUME RcInv, launcher' = Idle, UNCHANGED <<files, execs>>, launches' \in {launches, launches + 1}
  PROVE  RcInv'
<1>1. launcher'.pc = "idle" /\ launches \in Nat /\ launches' \in Nat /\ launches <= launches'
  BY DEF Idle, RcInv, RcTypes
<1>2. \A e \in DOMAIN execs : execs[e].call <= launches'
  BY <1>1, TypedExecs DEF RcInv, LastCall
<1> QED
  BY <1>1, <1>2 DEF RcInv, RcTypes, LastCall, NumbersFailed, RelaunchesFailures

\* A call that makes its run directory: numbers, if any, are of failed jobs.
LEMMA StartKeeps ==
  ASSUME RcInv, BeginCall, NEW begun, WholeCall(begun), begun.run \in RunNames, begun.id = launches + 1,
         NEW token, Start(begun, token),
         ~begun.all => \A i \in DOMAIN Combined : i \in begun.nums =>
                        \E f \in Failed(begun.previous) : execs[f].job = Combined[i]
  PROVE  RcInv'
<1>1. UNCHANGED <<files, execs>> /\ launches' = launches + 1 /\ launches \in Nat
  BY DEF BeginCall, RcInv, RcTypes
<1>2. CASE launcher' = Idle
  BY <1>1, <1>2, IdleKeeps
<1>3. ASSUME NEW n, launcher' = [begun EXCEPT !.total = n] PROVE RcInv'
  <2>1. /\ WholeCall(launcher') /\ launcher'.run = begun.run /\ launcher'.id = launches + 1
        /\ launcher'.all = begun.all /\ launcher'.nums = begun.nums /\ launcher'.previous = begun.previous
    BY <1>3 DEF WholeCall
  <2>2. RcTypes'
    BY <1>1, <2>1 DEF RcInv, RcTypes
  <2>3. \A e \in DOMAIN execs : execs[e].call \in Nat /\ execs[e].call <= launches
    BY TypedExecs DEF RcInv, LastCall
  <2>4. LastCall' /\ RelaunchesFailures'
    BY <1>1, <2>1, <2>3 DEF LastCall, RelaunchesFailures
  <2>5. NumbersFailed'
    <3> SUFFICES ASSUME ~begun.all, NEW i \in DOMAIN Combined, i \in begun.nums
                 PROVE  FailedBefore(Combined[i], launcher)'
      BY <1>1, <2>1 DEF NumbersFailed, Combined
    <3>1. PICK f \in Failed(begun.previous) : execs[f].job = Combined[i]
      OBVIOUS
    <3>2. f \in Failed(launcher.previous)' /\ f \in DOMAIN execs
      BY <1>1, <2>1, <3>1 DEF Failed, Tracked
    <3>3. execs[f].call < launches + 1
      BY <1>1, <2>3, <3>2
    <3> QED
      BY <1>1, <2>1, <3>1, <3>2, <3>3 DEF FailedBefore, Combined
  <2> QED
    BY <2>2, <2>4, <2>5 DEF RcInv
<1> QED
  BY <1>2, <1>3 DEF Start, Ends

\* The numbers of a scan are those of jobs that failed.
LEMMA NumbersOfFailed ==
  ASSUME NEW name, NEW seen \in SUBSET Failed(name), NEW i \in Numbers(seen)
  PROVE  \E f \in Failed(name) : execs[f].job = Combined[i]
  BY DEF Numbers, ToSet

\* The call goes on, its arguments are what they were.
SameCall ==
  /\ launcher.pc # "idle" /\ WholeCall(launcher')
  /\ launcher'.run = launcher.run /\ launcher'.all = launcher.all /\ launcher'.nums = launcher.nums
  /\ launcher'.previous = launcher.previous /\ launcher'.id = launcher.id

LEMMA NumbersStay ==
  ASSUME RcInv, SameCall, ExecsGrow, UNCHANGED files
  PROVE  NumbersFailed'
<1> SUFFICES ASSUME ~launcher.all, NEW i \in DOMAIN Combined, i \in launcher.nums
             PROVE  FailedBefore(Combined[i], launcher)'
  BY DEF NumbersFailed, SameCall, Combined
<1>1. PICK f \in Failed(launcher.previous) : execs[f].job = Combined[i] /\ execs[f].call < launcher.id
  BY DEF RcInv, NumbersFailed, SameCall, FailedBefore
<1>2. f \in Failed(launcher.previous)' /\ execs'[f].job = execs[f].job /\ execs'[f].call = execs[f].call
  BY <1>1, FailedStays DEF SameCall
<1> QED
  BY <1>1, <1>2 DEF FailedBefore, SameCall, Combined

LEMMA LaunchKeeps ==
  ASSUME RcInv, NEW url \in BOOLEAN, LaunchJob(url)
  PROVE  RcInv'
<1>1. PICK i \in DOMAIN Combined :
        /\ AtLine(i) /\ JobSelected(launcher, i)
        /\ execs' = Append(execs, [job |-> Combined[i], run |-> launcher.run, call |-> launcher.id,
                                   url |-> url, result |-> ""])
        /\ launcher' = [launcher EXCEPT !.line = i, !.count = @ + 1, !.launched = @ + 1,
                          !.pc = IF WaveComplete(launcher.count + 1, launcher.launched + 1)
                                 THEN "wave" ELSE "loop"]
        /\ UNCHANGED <<files, launches>>
  BY DEF LaunchJob
<1>2. /\ launcher.pc # "idle" /\ WholeCall(launcher) /\ launcher.run \in RunNames
      /\ launcher.id = launches /\ launches \in Nat /\ execs \in Seq(Execution)
  BY <1>1 DEF AtLine, RcInv, RcTypes, LastCall
<1>3. SameCall
  BY <1>1, <1>2 DEF WholeCall, SameCall
<1> DEFINE new == [job |-> Combined[i], run |-> launcher.run, call |-> launcher.id, url |-> url, result |-> ""]
<1>4. new \in Execution
  BY <1>2, ListedJobs DEF Execution, RcInv, RcTypes
<1>5. /\ execs' \in Seq(Execution) /\ DOMAIN execs' = DOMAIN execs \cup {Len(execs) + 1}
      /\ \A e \in DOMAIN execs : execs'[e] = execs[e]
      /\ execs'[Len(execs) + 1].job = Combined[i] /\ execs'[Len(execs) + 1].call = launcher.id
  <2> DEFINE longer == Append(execs, new)
  <2>1. execs \in Seq(Execution) /\ new \in Execution
    BY <1>2, <1>4
  <2> HIDE DEF new, Execution
  <2>2. /\ longer \in Seq(Execution) /\ Len(longer) = Len(execs) + 1
        /\ DOMAIN longer = 1..(Len(execs) + 1) /\ DOMAIN execs = 1..Len(execs) /\ Len(execs) \in Nat
        /\ \A e \in 1..Len(execs) : longer[e] = execs[e]
        /\ longer[Len(execs) + 1] = new
    BY <2>1
  <2>3. execs' = longer
    BY <1>1 DEF new
  <2>4. new.job = Combined[i] /\ new.call = launcher.id
    BY DEF new
  <2> QED
    BY <2>2, <2>3, <2>4
<1>6. ExecsGrow
  BY <1>5 DEF ExecsGrow
<1>7. RcTypes'
  BY <1>1, <1>2, <1>3, <1>5 DEF RcInv, RcTypes, SameCall
<1>8. LastCall'
  <2>1. launcher'.id = launches /\ launches' = launches
    BY <1>1, <1>2, <1>3 DEF SameCall
  <2>2. \A e \in DOMAIN execs' : execs'[e].call <= launches
    BY <1>2, <1>5 DEF RcInv, LastCall
  <2> QED
    BY <2>1, <2>2 DEF LastCall
<1>9. NumbersFailed'
  BY <1>1, <1>3, <1>6, NumbersStay
<1>10. RelaunchesFailures'
  <2> SUFFICES ASSUME ~launcher.all, NEW e \in DOMAIN execs', execs'[e].call = launcher.id
               PROVE  FailedBefore(execs[e].job, launcher)'
    BY <1>3 DEF RelaunchesFailures, FailedBefore, SameCall
  <2>1. PICK f \in Failed(launcher.previous) : execs[f].job = execs'[e].job /\ execs[f].call < launcher.id
    <3>1. CASE e \in DOMAIN execs
      BY <1>2, <1>5, <3>1 DEF RcInv, RelaunchesFailures
    <3>2. CASE e = Len(execs) + 1
      <4>1. i \in launcher.nums
        BY <1>1 DEF JobSelected
      <4> QED
        BY <1>2, <1>5, <3>2, <4>1 DEF RcInv, NumbersFailed, FailedBefore
    <3> QED
      BY <1>5, <3>1, <3>2
  <2>2. f \in Failed(launcher.previous)' /\ execs'[f].job = execs[f].job /\ execs'[f].call = execs[f].call
    BY <1>3, <1>6, <2>1, FailedStays DEF SameCall
  <2> QED
    BY <1>3, <2>1, <2>2 DEF FailedBefore, SameCall
<1> QED
  BY <1>7, <1>8, <1>9, <1>10 DEF RcInv

LEMMA RcNext ==
  ASSUME RcAssumption
  PROVE  RcInv /\ [RcStep]_rcVars => RcInv'
<1> SUFFICES ASSUME RcInv, [RcStep]_rcVars PROVE RcInv'
  OBVIOUS
<1>1. ASSUME NEW name \in RunNames, NEW dry \in BOOLEAN, NEW initial \in BOOLEAN, NEW fits \in BOOLEAN,
             NEW token \in BOOLEAN, LaunchAll(name, dry, initial, fits, token)
      PROVE  RcInv'
  <2> DEFINE begun == Call("loop", name, dry, initial, fits, TRUE, {}, "")
  <2>1. WholeCall(begun) /\ begun.run \in RunNames /\ begun.id = launches + 1 /\ begun.all
    BY DEF WholeCall, Call
  <2>2. BeginCall /\ Start(begun, token)
    BY <1>1 DEF LaunchAll
  <2> QED
    BY <2>1, <2>2, StartKeeps
<1>2. CASE launcher' = Idle /\ UNCHANGED <<files, execs>> /\ launches' \in {launches, launches + 1}
  BY <1>2, IdleKeeps
<1>3. ASSUME NEW name \in RunNames, NEW initial \in BOOLEAN, NEW fits \in BOOLEAN,
             NEW token \in BOOLEAN, RelaunchFailed(name, initial, fits, token)
      PROVE  RcInv'
  <2>1. CASE launcher' = Idle
    BY <1>2, <1>3, <2>1 DEF RelaunchFailed, BeginCall
  <2>2. ASSUME NEW seen \in Readable(Failed(Head(dirs))),
               Start(Call("loop", name, FALSE, initial, fits, FALSE, Numbers(seen), Head(dirs)), token)
        PROVE  RcInv'
    <3>1. seen \in SUBSET Failed(Head(dirs))
      BY DEF Readable
    <3>2. \A i \in DOMAIN Combined : i \in Numbers(seen) =>
            \E f \in Failed(Head(dirs)) : execs[f].job = Combined[i]
      BY <3>1, NumbersOfFailed
    <3> DEFINE begun == Call("loop", name, FALSE, initial, fits, FALSE, Numbers(seen), Head(dirs))
    <3>3. /\ WholeCall(begun) /\ begun.run \in RunNames /\ begun.id = launches + 1
          /\ begun.nums = Numbers(seen) /\ begun.previous = Head(dirs)
      BY DEF WholeCall, Call
    <3>4. BeginCall /\ Start(begun, token)
      BY <1>3, <2>2 DEF RelaunchFailed
    <3> HIDE DEF begun
    <3> QED
      BY <3>2, <3>3, <3>4, StartKeeps
  <2> QED
    BY <1>3, <2>1, <2>2 DEF RelaunchFailed, Ends
<1>4. CASE SkipLine \/ NotLaunched \/ Resume
  <2>1. /\ launcher.pc # "idle" /\ UNCHANGED <<files, execs, launches>>
        /\ \/ \E i \in DOMAIN Combined : launcher' = [launcher EXCEPT !.line = i]
           \/ \E i \in DOMAIN Combined : launcher' = [launcher EXCEPT !.line = i, !.count = @ + 1]
           \/ launcher' = [launcher EXCEPT !.pc = "loop"]
    BY <1>4 DEF SkipLine, NotLaunched, Resume, AtLine
  <2>2. SameCall
    BY <2>1 DEF RcInv, RcTypes, WholeCall, SameCall
  <2>3. ExecsGrow
    BY <2>1 DEF ExecsGrow
  <2>4. NumbersFailed'
    BY <2>1, <2>2, <2>3, NumbersStay
  <2>5. RcTypes' /\ LastCall'
    BY <2>1, <2>2 DEF RcInv, RcTypes, LastCall, SameCall
  <2>6. RelaunchesFailures'
    <3>1. Failed(launcher.previous)' = Failed(launcher.previous)
      BY <2>1, <2>2 DEF SameCall, Failed, Tracked
    <3> QED
      BY <2>1, <2>2, <3>1 DEF RcInv, RelaunchesFailures, SameCall
  <2> QED
    BY <2>4, <2>5, <2>6 DEF RcInv
<1>5. CASE Done \/ Interrupted
  BY <1>2, <1>5 DEF Done, Interrupted, Ends
<1>6. ASSUME NEW list \in JobFiles, Refresh(list) PROVE RcInv'
  BY <1>6 DEF Refresh, RcInv, RcTypes, LastCall, NumbersFailed, RelaunchesFailures
<1>7. ASSUME NEW e \in DOMAIN execs, NEW result \in Results, Finish(e, result) PROVE RcInv'
  <2>1. execs \in Seq(Execution) /\ execs[e] \in Execution /\ execs[e].result = ""
    BY <1>7, TypedExecs DEF RcInv, RcTypes, Finish
  <2>2. /\ [execs[e] EXCEPT !.result = result] \in Execution
        /\ execs' = [execs EXCEPT ![e] = [execs[e] EXCEPT !.result = result]]
    BY <1>7, <2>1 DEF Finish, Execution
  <2>3. execs' \in Seq(Execution) /\ DOMAIN execs' = DOMAIN execs
    <3> DEFINE done == [execs[e] EXCEPT !.result = result]
    <3>1. execs \in Seq(Execution) /\ done \in Execution /\ execs' = [execs EXCEPT ![e] = done]
      BY <2>1, <2>2
    <3> HIDE DEF done, Execution
    <3> QED
      BY <3>1
  <2>4. ExecsGrow
    BY <2>1, <2>2, <2>3 DEF ExecsGrow, Execution
  <2>5. RcTypes' /\ LastCall'
    BY <1>7, <2>3, <2>4 DEF RcInv, RcTypes, LastCall, ExecsGrow, Finish
  <2>6. ASSUME launcher.pc # "idle" PROVE NumbersFailed' /\ RelaunchesFailures'
    <3>1. SameCall
      BY <1>7, <2>6 DEF RcInv, RcTypes, SameCall, Finish
    <3>2. NumbersFailed'
      BY <1>7, <2>4, <3>1, NumbersStay DEF Finish
    <3>3. RelaunchesFailures'
      <4> SUFFICES ASSUME ~launcher.all, NEW n \in DOMAIN execs', execs'[n].call = launcher.id
                   PROVE  FailedBefore(execs[n].job, launcher)'
        BY <3>1 DEF RelaunchesFailures, FailedBefore, SameCall
      <4>1. n \in DOMAIN execs /\ execs'[n].job = execs[n].job /\ execs[n].call = launcher.id
        BY <2>3, <2>4 DEF ExecsGrow
      <4>2. PICK f \in Failed(launcher.previous) : execs[f].job = execs[n].job /\ execs[f].call < launcher.id
        BY <2>6, <4>1 DEF RcInv, RelaunchesFailures
      <4>3. f \in Failed(launcher.previous)' /\ execs'[f].job = execs[f].job /\ execs'[f].call = execs[f].call
        BY <2>4, <3>1, <4>2, FailedStays DEF SameCall
      <4> QED
        BY <3>1, <4>1, <4>2, <4>3 DEF FailedBefore, SameCall
    <3> QED
      BY <3>2, <3>3
  <2> QED
    BY <1>7, <2>5, <2>6 DEF RcInv, NumbersFailed, RelaunchesFailures, Finish
<1>8. CASE UNCHANGED <<files, launches, launcher, execs>>
  BY <1>8 DEF RcInv, RcTypes, LastCall, NumbersFailed, RelaunchesFailures, FailedBefore, Failed, Tracked, Combined
<1> QED
  BY <1>1, <1>3, <1>4, <1>5, <1>6, <1>7, <1>8, LaunchKeeps
  DEF RcStep, LauncherStep, Watch, Poll, rcVars

\* --relaunch-failed launches only jobs that failed in the directory it
\* scanned, before it, whatever was refreshed since that run.
THEOREM RelaunchesFailuresHolds ==
  ASSUME RcAssumption
  PROVE  RcSpec => []RelaunchesFailures
<1>1. RcInv => RelaunchesFailures
  BY DEF RcInv
<1> QED
  BY <1>1, RcInit, RcNext, PTL DEF RcSpec

(***************************************************************************)
(* launch.sh: run directories and the count of jobs                        *)
(***************************************************************************)
Chosen(n) == {i \in Lines(launcher) : JobSelected(launcher, i) /\ i <= n}

\* The two orders of the directories, with that of a call and of each execution.
SameDirs ==
  /\ made \in Seq(RunNames) /\ dirs \in Seq(RunNames)
  /\ ToSet(made) = ToSet(dirs) /\ IsInjective(made) /\ IsInjective(dirs)

DirsAgree ==
  /\ SameDirs
  /\ launcher.pc # "idle" => launcher.run \in ToSet(dirs)
  /\ \A e \in DOMAIN execs : execs[e].run \in ToSet(dirs)

\* The loop has met as many of the jobs as it would count up to its line.
CountedSoFar ==
  launcher.pc # "idle" =>
    /\ launcher.line \in Nat /\ launcher.count \in Nat
    /\ launcher.total = CountSelectedJobs(launcher)
    /\ launcher.count = Cardinality(Chosen(launcher.line))
    /\ launcher.launched \in 0..launcher.count

RcFlags ==
  /\ launches \in 0..MaxLaunches
  /\ launcher.pc \in {"idle", "loop", "wave"}
  /\ told \in {"", "error", "nothing to re-launch", "done", "interrupted"}
  /\ watch \in {"off", "on", "complete"}
  /\ launcher.pc # "idle" => 1 <= launches
  /\ \A e \in DOMAIN execs : 1 <= execs[e].call

RcWhole == RcInv /\ DirsAgree /\ CountedSoFar /\ RcFlags

LEMMA LengthOf ==
  ASSUME NEW X, NEW s \in Seq(X)
  PROVE  Len(s) \in Nat /\ DOMAIN s = 1..Len(s)
  OBVIOUS

LEMMA LinesFinite ==
  ASSUME RcAssumption, files \in JobFiles, NEW c
  PROVE  \E n \in Nat : Lines(c) = 1..n
<1>1. files.regular \in Seq(JobNames) /\ files.lvms \in Seq(JobNames) /\ files.upgrade \in Seq(JobNames)
  BY DEF RcAssumption
<1>2. files.regular \o files.lvms \in Seq(JobNames)
  BY <1>1, ConcatSet, Zenon
<1>3. Combined \in Seq(JobNames)
  BY <1>1, <1>2, ConcatSet, Zenon DEF Combined
<1>4. /\ Len(Combined) \in Nat /\ DOMAIN Combined = 1..Len(Combined)
      /\ Len(files.regular \o files.lvms) \in Nat
      /\ DOMAIN (files.regular \o files.lvms) = 1..Len(files.regular \o files.lvms)
  BY <1>2, <1>3, LengthOf, Zenon
<1> QED  BY <1>4 DEF Lines

LEMMA ChosenFinite ==
  ASSUME RcAssumption, files \in JobFiles, NEW n
  PROVE  /\ IsFiniteSet(Chosen(n)) /\ Cardinality(Chosen(n)) \in Nat
         /\ CountSelectedJobs(launcher) \in Nat /\ Cardinality(Chosen(n)) <= CountSelectedJobs(launcher)
<1> DEFINE all == {i \in Lines(launcher) : JobSelected(launcher, i)}
<1>1. IsFiniteSet(Lines(launcher))
  BY LinesFinite, FS_Interval
<1>2. IsFiniteSet(all) /\ Chosen(n) \in SUBSET all
  BY <1>1, FS_Subset DEF Chosen
<1>3. IsFiniteSet(Chosen(n)) /\ Cardinality(Chosen(n)) <= Cardinality(all)
  BY <1>2, FS_Subset
<1> QED  BY <1>2, <1>3, FS_CardinalityType DEF CountSelectedJobs

LEMMA ChosenNext ==
  ASSUME RcAssumption, files \in JobFiles, NEW n \in Nat, n + 1 \in Lines(launcher)
  PROVE  Cardinality(Chosen(n + 1)) = IF JobSelected(launcher, n + 1) THEN Cardinality(Chosen(n)) + 1 ELSE Cardinality(Chosen(n))
<1>1. Lines(launcher) \subseteq Nat
  BY LinesFinite
<1>2. \A i \in Nat : i <= n + 1 <=> i <= n \/ i = n + 1
  OBVIOUS
<1>3. CASE JobSelected(launcher, n + 1)
  <2>1. Chosen(n + 1) = Chosen(n) \cup {n + 1} /\ n + 1 \notin Chosen(n)
    BY <1>1, <1>2, <1>3 DEF Chosen
  <2> QED  BY <1>3, <2>1, ChosenFinite, FS_AddElement
<1>4. CASE ~JobSelected(launcher, n + 1)
  <2>1. Chosen(n + 1) = Chosen(n)
    BY <1>1, <1>2, <1>4 DEF Chosen
  <2> QED  BY <1>4, <2>1
<1> QED  BY <1>3, <1>4

LEMMA ChosenNone ==
  ASSUME RcAssumption, files \in JobFiles
  PROVE  Cardinality(Chosen(0)) = 0
<1>1. Chosen(0) = {}
  BY LinesFinite DEF Chosen
<1> QED  BY <1>1, FS_EmptySet

\* The arguments of a call, by which it selects its lines.
SameArguments ==
  /\ launcher'.initial = launcher.initial /\ launcher'.fits = launcher.fits
  /\ launcher'.all = launcher.all /\ launcher'.nums = launcher.nums

LEMMA ChosenStays ==
  ASSUME SameArguments, UNCHANGED files
  PROVE  /\ CountSelectedJobs(launcher)' = CountSelectedJobs(launcher)
         /\ \A n : Chosen(n)' = Chosen(n)
<1>1. Combined' = Combined
  BY DEF Combined
<1>2. Lines(launcher)' = Lines(launcher)
  BY <1>1 DEF Lines, SameArguments
<1>3. \A i : JobSelected(launcher, i)' <=> JobSelected(launcher, i)
  BY <1>1 DEF JobSelected, SameArguments
<1>4. CountSelectedJobs(launcher)' = CountSelectedJobs(launcher)
  BY <1>2, <1>3 DEF CountSelectedJobs
<1> QED  BY <1>2, <1>3, <1>4 DEF Chosen

\* A name that a list has not got, and the list with it in front.
Unlisted(X, s, x)   == s \in Seq(X) /\ IsInjective(s) /\ x \in X /\ x \notin ToSet(s)
FrontOf(X, s, x, t) == t \in Seq(X) /\ IsInjective(t) /\ ToSet(t) = ToSet(s) \cup {x}

LEMMA InFront ==
  ASSUME NEW X, NEW s, NEW x, Unlisted(X, s, x)
  PROVE  FrontOf(X, s, x, <<x>> \o s)
<1> USE DEF Unlisted
<1> DEFINE t == <<x>> \o s
<1>1. t \in Seq(X) /\ Len(s) \in Nat /\ DOMAIN s = 1..Len(s) /\ DOMAIN t = 1..(Len(s) + 1) /\ t[1] = x
      /\ \A i \in 1..Len(s) : t[i + 1] = s[i]
  OBVIOUS
<1>2. PICK n \in Nat : n = Len(s)
  BY <1>1
<1> HIDE DEF t
<1>3. \A i \in 2..(n + 1) : i - 1 \in 1..n /\ t[i] = s[i - 1]
  <2>1. ASSUME NEW i \in 2..(n + 1) PROVE i - 1 \in 1..n /\ (i - 1) + 1 = i
    OBVIOUS
  <2> QED  BY <1>1, <1>2, <2>1
<1>4. \A i \in 1..(n + 1) : i = 1 \/ i \in 2..(n + 1)
  OBVIOUS
<1>5. \A i \in DOMAIN s : s[i] # x
  BY DEF ToSet
<1>6. IsInjective(t)
  <2> SUFFICES ASSUME NEW i \in 1..(n + 1), NEW k \in 1..(n + 1), t[i] = t[k] PROVE i = k
    BY <1>1, <1>2 DEF IsInjective
  <2>1. CASE i = 1 \/ k = 1
    BY <1>1, <1>2, <1>3, <1>4, <1>5, <2>1
  <2>2. CASE i \in 2..(n + 1) /\ k \in 2..(n + 1)
    <3>1. i - 1 = k - 1
      BY <1>1, <1>2, <1>3, <2>2 DEF IsInjective
    <3> QED  BY <3>1
  <2> QED  BY <1>4, <2>1, <2>2
<1>7. ToSet(t) = ToSet(s) \cup {x}
  <2>1. x \in ToSet(t)
    BY <1>1, <1>2 DEF ToSet
  <2>2. ASSUME NEW i \in 1..n PROVE s[i] \in ToSet(t)
    BY <1>1, <1>2 DEF ToSet
  <2>3. ASSUME NEW i \in 1..(n + 1) PROVE t[i] \in ToSet(s) \cup {x}
    BY <1>1, <1>2, <1>3, <1>4 DEF ToSet
  <2> QED  BY <1>1, <1>2, <2>1, <2>2, <2>3 DEF ToSet
<1> QED  BY <1>1, <1>6, <1>7 DEF t, FrontOf

LEMMA KeptInjective ==
  ASSUME NEW X, NEW s \in Seq(X), IsInjective(s), NEW S
  PROVE  /\ Keeping(s, S) \in Seq(X) /\ IsInjective(Keeping(s, S))
         /\ ToSet(Keeping(s, S)) = ToSet(s) \cap S
<1> DEFINE t == Keeping(s, S)
<1>1. t \in Seq(X) /\ Range(t) = Range(s) \cap S /\ \E p : KeepsPlaces(s, S, t, p)
  BY KeptInOrder, Zenon
<1>2. PICK p : KeepsPlaces(s, S, t, p)
  BY <1>1
<1> HIDE DEF t
<1>3. DOMAIN t \subseteq Int
  BY <1>1
<1>4. IsInjective(t)
  <2> SUFFICES ASSUME NEW i \in DOMAIN t, NEW k \in DOMAIN t, t[i] = t[k] PROVE i = k
    BY DEF IsInjective
  <2>1. p[i] = p[k]
    BY <1>2 DEF KeepsPlaces, IsInjective
  <2>2. p[i] \in DOMAIN s /\ p[k] \in DOMAIN s /\ DOMAIN s \subseteq Int
    BY <1>2 DEF KeepsPlaces
  <2>3. ~(i < k) /\ ~(k < i)
    BY <1>2, <2>1, <2>2 DEF KeepsPlaces
  <2> QED  BY <1>3, <2>3
<1>5. ToSet(t) = Range(t) /\ ToSet(s) = Range(s)
  BY DEF ToSet, Range
<1> QED  BY <1>1, <1>4, <1>5 DEF t

LEMMA RunDirMade ==
  ASSUME SameDirs, NEW name \in RunNames, MakeRunDir(name)
  PROVE  SameDirs' /\ ToSet(dirs') = ToSet(dirs) \cup {name}
<1>1. CASE name \in ToSet(dirs)
  BY <1>1 DEF MakeRunDir, SameDirs
<1>2. CASE name \notin ToSet(dirs)
  <2>1. made' = <<name>> \o made /\ dirs' = <<name>> \o dirs /\ name \notin ToSet(made)
    BY <1>2 DEF MakeRunDir, SameDirs
  <2>2. Unlisted(RunNames, made, name) /\ Unlisted(RunNames, dirs, name)
    BY <1>2, <2>1 DEF Unlisted, SameDirs
  <2>3. FrontOf(RunNames, made, name, made') /\ FrontOf(RunNames, dirs, name, dirs')
    BY <2>1, <2>2, InFront
  <2> QED  BY <2>3 DEF FrontOf, SameDirs
<1> QED  BY <1>1, <1>2

LEMMA RunDirTouched ==
  ASSUME SameDirs, NEW name \in ToSet(dirs), UNCHANGED made,
         dirs' = <<name>> \o Keeping(dirs, ToSet(dirs) \ {name})
  PROVE  SameDirs' /\ ToSet(dirs') = ToSet(dirs)
<1>1. name \in RunNames
  BY DEF SameDirs, ToSet
<1>2. PICK rest \in Seq(RunNames) : dirs' = <<name>> \o rest /\ IsInjective(rest) /\ ToSet(rest) = ToSet(dirs) \ {name}
  <2>1. /\ Keeping(dirs, ToSet(dirs) \ {name}) \in Seq(RunNames) /\ IsInjective(Keeping(dirs, ToSet(dirs) \ {name}))
        /\ ToSet(Keeping(dirs, ToSet(dirs) \ {name})) = ToSet(dirs) \cap (ToSet(dirs) \ {name})
    BY KeptInjective DEF SameDirs
  <2> QED  BY <2>1, Zenon
<1>3. Unlisted(RunNames, rest, name)
  BY <1>1, <1>2 DEF Unlisted
<1>4. FrontOf(RunNames, rest, name, dirs')
  BY <1>2, <1>3, InFront
<1> QED  BY <1>2, <1>4 DEF SameDirs, FrontOf

LEMMA RcWholeInit ==
  ASSUME RcAssumption, InitRc
  PROVE  RcWhole
<1>1. RcInv
  BY RcInit
<1>2. made = << >> /\ dirs = << >> /\ execs = << >> /\ launcher.pc = "idle" /\ launches = 0 /\ told = "" /\ watch = "off"
  BY DEF InitRc, Idle
<1>3. DOMAIN << >> = {} /\ << >> \in Seq(RunNames)
  OBVIOUS
<1>4. SameDirs
  <2>1. IsInjective(<< >>)
    BY <1>3, Zenon DEF IsInjective
  <2> QED  BY <1>2, <1>3, <2>1 DEF SameDirs
<1>5. MaxLaunches \in Nat
  BY DEF RcAssumption
<1>6. RcFlags
  <2>1. launches \in 0..MaxLaunches
    <3>1. 0 \in 0..MaxLaunches
      BY <1>5
    <3> QED  BY <1>2, <3>1, Zenon
  <2> QED  BY <1>2, <1>3, <2>1 DEF RcFlags
<1> QED  BY <1>1, <1>2, <1>3, <1>4, <1>6 DEF RcWhole, DirsAgree, CountedSoFar

\* A call that ended, or did not begin.
LEMMA EndsWhole ==
  ASSUME RcWhole, launcher' = Idle, SameDirs', ToSet(dirs) \subseteq ToSet(dirs'), UNCHANGED <<execs, watch>>,
         launches' \in 0..MaxLaunches, told' \in {"error", "nothing to re-launch", "done", "interrupted"}
  PROVE  DirsAgree' /\ CountedSoFar' /\ RcFlags'
BY DEF RcWhole, DirsAgree, CountedSoFar, RcFlags, Idle

LEMMA OneMoreCall ==
  ASSUME RcAssumption, RcWhole, BeginCall
  PROVE  launches' \in 0..MaxLaunches /\ UNCHANGED <<files, execs, watch>>
<1>1. MaxLaunches \in Nat
  BY DEF RcAssumption
<1>2. launches \in 0..MaxLaunches
  BY DEF RcWhole, RcFlags
<1> QED  BY <1>1, <1>2 DEF BeginCall

\* What a call begins with.
Begun(c) == WholeCall(c) /\ c.pc = "loop" /\ c.run \in RunNames /\ c.line = 0 /\ c.count = 0 /\ c.launched = 0

LEMMA StartWhole ==
  ASSUME RcAssumption, RcWhole, BeginCall, NEW c, Begun(c), NEW token, Start(c, token)
  PROVE  DirsAgree' /\ CountedSoFar' /\ RcFlags'
<1>1. SameDirs' /\ ToSet(dirs') = ToSet(dirs) \cup {c.run}
  BY RunDirMade DEF Start, Begun, RcWhole, DirsAgree
<1>2. launches' \in 0..MaxLaunches /\ UNCHANGED <<files, execs, watch>>
  BY OneMoreCall
<1>3. CASE Ends("error")
  BY <1>1, <1>2, <1>3, EndsWhole DEF Ends
<1>4. CASE launcher' = [c EXCEPT !.total = CountSelectedJobs(c)] /\ told' = ""
  <2>1. /\ launcher'.pc = "loop" /\ launcher'.run = c.run /\ launcher'.line = 0 /\ launcher'.count = 0
        /\ launcher'.launched = 0 /\ launcher'.total = CountSelectedJobs(c)
        /\ launcher'.initial = c.initial /\ launcher'.fits = c.fits /\ launcher'.all = c.all /\ launcher'.nums = c.nums
    BY <1>4 DEF Begun, WholeCall
  <2>2. files \in JobFiles /\ Combined' = Combined
    BY <1>2 DEF RcWhole, RcInv, RcTypes, Combined
  <2>3. Lines(launcher)' = Lines(c) /\ \A i : JobSelected(launcher, i)' <=> JobSelected(c, i)
    BY <1>2, <2>1, <2>2 DEF Lines, JobSelected
  <2>4. CountSelectedJobs(launcher)' = CountSelectedJobs(c)
    BY <2>3 DEF CountSelectedJobs
  <2>5. Chosen(0)' = {}
    <3>1. PICK n \in Nat : Lines(c) = 1..n
      BY <2>2, LinesFinite
    <3> QED  BY <2>3, <3>1 DEF Chosen
  <2>6. Cardinality(Chosen(launcher.line))' = 0
    BY <2>1, <2>5, FS_EmptySet DEF Chosen
  <2>7. CountedSoFar'
    BY <2>1, <2>4, <2>6 DEF CountedSoFar
  <2>8. DirsAgree'
    BY <1>1, <1>2, <2>1 DEF DirsAgree, RcWhole
  <2>9. 1 <= launches'
    <3>1. launches' = launches + 1
      BY DEF BeginCall
    <3>2. launches \in Nat
      BY DEF RcWhole, RcInv, RcTypes
    <3> QED  BY <3>1, <3>2
  <2> QED  BY <1>2, <1>4, <2>1, <2>7, <2>8, <2>9 DEF RcFlags, RcWhole
<1> QED  BY <1>3, <1>4 DEF Start

\* A line that is passed, with or without a job counted for it.
LEMMA PassWhole ==
  ASSUME RcAssumption, RcWhole, NEW i, AtLine(i), UNCHANGED files, SameArguments,
         launcher'.pc \in {"loop", "wave"}, launcher'.total = launcher.total, launcher'.line = i,
         launcher'.count = IF JobSelected(launcher, i) THEN launcher.count + 1 ELSE launcher.count,
         launcher'.launched = launcher.launched \/ (launcher'.launched = launcher.launched + 1 /\ JobSelected(launcher, i))
  PROVE  CountedSoFar'
<1>1. /\ launcher.line \in Nat /\ launcher.count \in Nat /\ launcher.total = CountSelectedJobs(launcher)
      /\ launcher.count = Cardinality(Chosen(launcher.line)) /\ launcher.launched \in 0..launcher.count
      /\ i = launcher.line + 1 /\ i \in Lines(launcher) /\ files \in JobFiles
  BY DEF AtLine, RcWhole, CountedSoFar, RcInv, RcTypes
<1>2. Cardinality(Chosen(i)) = IF JobSelected(launcher, i) THEN launcher.count + 1 ELSE launcher.count
  BY <1>1, ChosenNext
<1>3. CountSelectedJobs(launcher)' = CountSelectedJobs(launcher) /\ Chosen(launcher.line)' = Chosen(i)
  <2>1. \A n : Chosen(n)' = Chosen(n)
    BY ChosenStays
  <2>2. Chosen(launcher.line)' = Chosen(i)'
    BY DEF Chosen
  <2> QED  BY <2>1, <2>2, ChosenStays
<1>4. launcher'.count \in Nat /\ launcher'.launched \in 0..launcher'.count
  BY <1>1
<1> QED  BY <1>1, <1>2, <1>3, <1>4 DEF CountedSoFar

LEMMA LaunchWhole ==
  ASSUME RcAssumption, RcWhole, NEW url \in BOOLEAN, LaunchJob(url)
  PROVE  DirsAgree' /\ CountedSoFar' /\ RcFlags'
<1>1. PICK i \in DOMAIN Combined :
        /\ AtLine(i) /\ JobSelected(launcher, i)
        /\ execs' = Append(execs, [job |-> Combined[i], run |-> launcher.run, call |-> launcher.id,
                                   url |-> url, result |-> ""])
        /\ dirs' = <<launcher.run>> \o Keeping(dirs, ToSet(dirs) \ {launcher.run})
        /\ launcher' = [launcher EXCEPT !.line = i, !.count = @ + 1, !.launched = @ + 1,
                          !.pc = IF WaveComplete(launcher.count + 1, launcher.launched + 1)
                                 THEN "wave" ELSE "loop"]
        /\ UNCHANGED <<files, made, launches, told, watch>>
  BY DEF LaunchJob
<1>2. launcher.pc = "loop" /\ WholeCall(launcher) /\ launcher.id = launches
  BY <1>1 DEF AtLine, RcWhole, RcInv, RcTypes, LastCall
<1>3. /\ SameArguments /\ launcher'.pc \in {"loop", "wave"} /\ launcher'.run = launcher.run
      /\ launcher'.total = launcher.total /\ launcher'.line = i
      /\ launcher'.count = launcher.count + 1 /\ launcher'.launched = launcher.launched + 1
  BY <1>1, <1>2 DEF WholeCall, SameArguments
<1>4. CountedSoFar'
  BY <1>1, <1>3, PassWhole
<1>5. launcher.run \in ToSet(dirs) /\ SameDirs
  BY <1>2 DEF RcWhole, DirsAgree
<1>6. SameDirs' /\ ToSet(dirs') = ToSet(dirs)
  BY <1>1, <1>5, RunDirTouched
<1>7. \A e \in DOMAIN execs' :
        \/ e \in DOMAIN execs /\ execs'[e] = execs[e]
        \/ execs'[e].run = launcher.run /\ execs'[e].call = launcher.id
  <2> DEFINE new == [job |-> Combined[i], run |-> launcher.run, call |-> launcher.id, url |-> url, result |-> ""]
  <2>1. execs \in Seq(Execution) /\ execs' = Append(execs, new) /\ new.run = launcher.run /\ new.call = launcher.id
    BY <1>1 DEF RcWhole, RcInv, RcTypes
  <2> HIDE DEF new, Execution
  <2>2. /\ DOMAIN execs' = 1..(Len(execs) + 1) /\ DOMAIN execs = 1..Len(execs) /\ Len(execs) \in Nat
        /\ execs'[Len(execs) + 1] = new /\ \A e \in 1..Len(execs) : execs'[e] = execs[e]
    BY <2>1
  <2> QED  BY <2>1, <2>2
<1>8. launches \in 0..MaxLaunches /\ 1 <= launches
  BY <1>2 DEF RcWhole, RcFlags
<1>9. RcFlags'
  BY <1>1, <1>2, <1>3, <1>7, <1>8 DEF RcWhole, RcFlags
<1>10. DirsAgree'
  BY <1>3, <1>5, <1>6, <1>7 DEF RcWhole, DirsAgree
<1> QED  BY <1>4, <1>9, <1>10

LEMMA RcWholeNext ==
  ASSUME RcAssumption, RcWhole, [RcStep]_rcVars
  PROVE  RcWhole'
<1>1. RcInv'
  BY RcNext DEF RcWhole
<1>2. DirsAgree' /\ CountedSoFar' /\ RcFlags'
  <2>0. MaxLaunches \in Nat /\ launches \in 0..MaxLaunches /\ SameDirs
    BY DEF RcAssumption, RcWhole, RcFlags, DirsAgree
  <2>1. ASSUME NEW name \in RunNames, NEW dry \in BOOLEAN, NEW initial \in BOOLEAN, NEW fits \in BOOLEAN,
               NEW token \in BOOLEAN, LaunchAll(name, dry, initial, fits, token)
        PROVE  DirsAgree' /\ CountedSoFar' /\ RcFlags'
    <3>1. PICK c : c = Call("loop", name, dry, initial, fits, TRUE, {}, "")
      OBVIOUS
    <3>2. Begun(c)
      BY <3>1 DEF Begun, WholeCall, Call
    <3> QED  BY <2>1, <3>1, <3>2, StartWhole DEF LaunchAll
  <2>2. ASSUME NEW name \in RunNames, NEW initial \in BOOLEAN, NEW fits \in BOOLEAN,
               NEW token \in BOOLEAN, RelaunchFailed(name, initial, fits, token)
        PROVE  DirsAgree' /\ CountedSoFar' /\ RcFlags'
    <3>1. BeginCall /\ launches' \in 0..MaxLaunches /\ UNCHANGED <<files, execs, watch>>
      BY <2>2, OneMoreCall DEF RelaunchFailed
    <3>2. CASE (Ends("error") \/ Ends("nothing to re-launch")) /\ UNCHANGED <<made, dirs>>
      <4>1. SameDirs' /\ ToSet(dirs) \subseteq ToSet(dirs')
        BY <2>0, <3>2 DEF SameDirs
      <4> QED  BY <3>1, <3>2, <4>1, EndsWhole DEF Ends
    <3>3. ASSUME NEW seen, Start(Call("loop", name, FALSE, initial, fits, FALSE, Numbers(seen), Head(dirs)), token)
          PROVE  DirsAgree' /\ CountedSoFar' /\ RcFlags'
      <4>1. PICK c : c = Call("loop", name, FALSE, initial, fits, FALSE, Numbers(seen), Head(dirs))
        OBVIOUS
      <4>2. Begun(c)
        BY <4>1 DEF Begun, WholeCall, Call
      <4> QED  BY <3>1, <3>3, <4>1, <4>2, StartWhole
    <3> QED  BY <2>2, <3>2, <3>3 DEF RelaunchFailed
  <2>3. CASE SkipLine \/ NotLaunched
    <3>1. PICK i \in DOMAIN Combined :
            /\ AtLine(i) /\ UNCHANGED <<files, made, dirs, launches, told, execs, watch>>
            /\ \/ ~JobSelected(launcher, i) /\ launcher' = [launcher EXCEPT !.line = i]
               \/ JobSelected(launcher, i) /\ launcher' = [launcher EXCEPT !.line = i, !.count = @ + 1]
      BY <2>3 DEF SkipLine, NotLaunched
    <3>2. launcher.pc = "loop" /\ WholeCall(launcher)
      BY <3>1 DEF AtLine, RcWhole, RcInv, RcTypes
    <3>3. /\ SameArguments /\ launcher'.pc = "loop" /\ launcher'.run = launcher.run /\ launcher'.total = launcher.total
          /\ launcher'.line = i /\ launcher'.launched = launcher.launched
          /\ launcher'.count = IF JobSelected(launcher, i) THEN launcher.count + 1 ELSE launcher.count
      BY <3>1, <3>2 DEF WholeCall, SameArguments
    <3>4. CountedSoFar'
      BY <3>1, <3>3, PassWhole
    <3> QED  BY <3>1, <3>2, <3>3, <3>4 DEF RcWhole, DirsAgree, SameDirs, RcFlags
  <2>4. CASE Resume
    <3>1. /\ launcher.pc = "wave" /\ launcher' = [launcher EXCEPT !.pc = "loop"] /\ WholeCall(launcher)
          /\ UNCHANGED <<files, made, dirs, launches, told, execs, watch>>
      BY <2>4 DEF Resume, RcWhole, RcInv, RcTypes
    <3>2. /\ SameArguments /\ launcher'.pc = "loop" /\ launcher'.run = launcher.run /\ launcher'.total = launcher.total
          /\ launcher'.line = launcher.line /\ launcher'.launched = launcher.launched /\ launcher'.count = launcher.count
      BY <3>1 DEF WholeCall, SameArguments
    <3>3. CountSelectedJobs(launcher)' = CountSelectedJobs(launcher) /\ Chosen(launcher.line)' = Chosen(launcher.line)
      <4>1. \A n : Chosen(n)' = Chosen(n)
        BY <3>1, <3>2, ChosenStays
      <4>2. Chosen(launcher.line)' = {j \in Lines(launcher)' : JobSelected(launcher, j)' /\ j <= launcher.line}
        BY <3>2 DEF Chosen
      <4> QED  BY <3>1, <3>2, <4>1, <4>2, ChosenStays DEF Chosen
    <3>4. CountedSoFar'
      BY <3>1, <3>2, <3>3 DEF RcWhole, CountedSoFar
    <3> QED  BY <3>1, <3>2, <3>4 DEF RcWhole, DirsAgree, SameDirs, RcFlags
  <2>5. CASE Done \/ Interrupted
    <3>1. /\ launcher' = Idle /\ told' \in {"error", "done", "interrupted"}
          /\ UNCHANGED <<files, made, dirs, launches, execs, watch>>
      BY <2>5 DEF Done, Interrupted, Ends
    <3>2. SameDirs' /\ ToSet(dirs) \subseteq ToSet(dirs') /\ launches' \in 0..MaxLaunches
      BY <2>0, <3>1 DEF SameDirs
    <3> QED  BY <3>1, <3>2, EndsWhole
  <2>6. ASSUME NEW list \in JobFiles, Refresh(list) PROVE DirsAgree' /\ CountedSoFar' /\ RcFlags'
    BY <2>6 DEF Refresh, RcWhole, DirsAgree, SameDirs, CountedSoFar, RcFlags
  <2>7. ASSUME NEW e \in DOMAIN execs, NEW result \in Results, Finish(e, result)
        PROVE  DirsAgree' /\ CountedSoFar' /\ RcFlags'
    <3>1. UNCHANGED <<files, made, dirs, launches, launcher, told, watch>>
      BY <2>7 DEF Finish
    <3>2. /\ DOMAIN execs' = DOMAIN execs
          /\ \A n \in DOMAIN execs : execs'[n].run = execs[n].run /\ execs'[n].call = execs[n].call
      <4>1. \A n \in DOMAIN execs : execs[n] \in Execution
        BY TypedExecs DEF RcWhole, RcInv
      <4> QED  BY <2>7, <4>1 DEF Finish, Execution
    <3>3. CountedSoFar'
      BY <3>1 DEF RcWhole, CountedSoFar, CountSelectedJobs, Chosen, Lines, JobSelected, Combined
    <3> QED  BY <3>1, <3>2, <3>3 DEF RcWhole, DirsAgree, SameDirs, RcFlags
  <2>8. CASE UNCHANGED <<files, made, dirs, launches, launcher, told, execs>> /\ watch' \in {"off", "on", "complete"}
    <3>1. CountedSoFar'
      BY <2>8 DEF RcWhole, CountedSoFar, CountSelectedJobs, Chosen, Lines, JobSelected, Combined
    <3> QED  BY <2>8, <3>1 DEF RcWhole, DirsAgree, SameDirs, RcFlags
  <2>9. CASE UNCHANGED rcVars
    BY <2>8, <2>9 DEF rcVars, RcWhole, RcFlags
  <2>10. CASE Watch \/ \E readable : Poll(readable)
    BY <2>8, <2>10 DEF Watch, Poll
  <2> QED  BY <2>1, <2>2, <2>3, <2>4, <2>5, <2>6, <2>7, <2>9, <2>10, LaunchWhole DEF RcStep, LauncherStep
<1> QED  BY <1>1, <1>2 DEF RcWhole

\* Types of launch.sh and status.sh, for any job files: the loop launches no
\* more jobs than were counted for the waves, and the newest directory made
\* and the newest changed are of one set of directories.
THEOREM RcTypeCorrect == ASSUME RcAssumption PROVE RcSpec => []RcTypeOK
<1>1. RcWhole => RcTypeOK
  <2> SUFFICES ASSUME RcWhole PROVE RcTypeOK
    OBVIOUS
  <2>1. launcher.pc # "idle" => launcher.count \in 0..launcher.total /\ launcher.launched \in 0..launcher.count
    <3> SUFFICES ASSUME launcher.pc # "idle" PROVE launcher.count \in 0..launcher.total /\ launcher.launched \in 0..launcher.count
      OBVIOUS
    <3>1. /\ launcher.count = Cardinality(Chosen(launcher.line)) /\ launcher.total = CountSelectedJobs(launcher)
          /\ launcher.count \in Nat /\ launcher.launched \in 0..launcher.count
      BY DEF RcWhole, CountedSoFar
    <3>2. launcher.total \in Nat /\ launcher.count <= launcher.total
      BY <3>1, ChosenFinite DEF RcWhole, RcInv, RcTypes
    <3> QED  BY <3>1, <3>2
  <2>2. ASSUME NEW e \in DOMAIN execs
        PROVE  execs[e] \in [job : JobNames, run : ToSet(dirs), call : 1..launches, url : BOOLEAN, result : Results \cup {""}]
    <3>1. execs[e] \in Execution /\ execs[e].call \in Nat
      BY TypedExecs DEF RcWhole, RcInv
    <3>2. execs[e].run \in ToSet(dirs)
      BY DEF RcWhole, DirsAgree
    <3>3. launches \in Nat /\ 1 <= execs[e].call /\ execs[e].call <= launches
      BY DEF RcWhole, RcFlags, RcInv, RcTypes, LastCall
    <3>4. execs[e].call \in 1..launches
      BY <3>1, <3>3
    <3> QED  BY <3>1, <3>2, <3>4 DEF Execution
  <2> QED  BY <2>1, <2>2 DEF RcTypeOK, RcWhole, RcInv, RcTypes, DirsAgree, SameDirs, RcFlags
<1> QED  BY <1>1, RcWholeInit, RcWholeNext, PTL DEF RcSpec

(***************************************************************************)
(* TestRunner                                                              *)
(***************************************************************************)
CallRecords ==
  [kind : {"suite", "test"}, profile : Profiles, suite : SUBSET Suites,
   filter : SUBSET Tests, repeat : Nat \ {0}, focuses : SUBSET Tests,
   interactive : BOOLEAN, captures : BOOLEAN, stop : BOOLEAN]

RunnerTypes ==
  /\ call \in CallRecords /\ listing \in [Suites -> SUBSET Tests]
  /\ stage \in {"discover", "prompt", "next", "starting", "testing", "stop", "call", "stopping",
               "exit", "lastCall", "quitting", "done"}
  /\ lines \in Nat /\ capFile \in BOOLEAN /\ term \in BOOLEAN /\ torn \in BOOLEAN
  /\ recorded \cup forked \cup lost \cup alive \subseteq (0..lines) \X Captures
  /\ ran \subseteq Tests /\ asking \subseteq Tests

\* The file of the current start is named while its captures may run, and no
\* pid is unwritten but while they start.
FileNamed ==
  /\ stage \in {"discover", "prompt", "next", "call", "stopping", "lastCall", "quitting", "done"} => ~capFile \/ torn
  /\ stage = "starting" => capFile
  /\ stage # "starting" => forked = {}

\* Every capture that runs can still be stopped: its pid is in the file, or
\* about to be, and the file is named or is being worked off.
Stoppable ==
  ~torn => alive \subseteq lost \cup forked
                  \cup (IF capFile \/ stage \in {"call", "stopping", "lastCall", "quitting"} THEN recorded ELSE {})

CapturesInv == FileNamed /\ Stoppable

\* A suite that runs without questions asked.
Batch == call.kind = "suite" /\ ~call.interactive /\ ~Upgrade

\* Its plan repeats what was selected, and the binary knows all of it.
BatchPlan ==
  Batch =>
    /\ plan \in Seq({Wanted})
    /\ stage \in {"starting", "testing"} => plan # << >>
    /\ stage = "discover" => plan = << >>
    /\ plan # << >> /\ UseFile => Wanted \subseteq listing[Suite]
    /\ asking = {} /\ stage # "prompt"
    /\ ran \in {{}, Wanted}

RunnerInv == RunnerTypes /\ CapturesInv /\ BatchPlan

\* The smallest of some numbers is one of them.
LEMMA LeastIsIn ==
  ASSUME NEW S \in SUBSET Nat, S # {}
  PROVE  Min(S) \in S
<1> DEFINE less == OpToRel(<, Nat)
<1>1. \E x \in S : \A y \in S : <<y, x>> \notin less
  <2> HIDE DEF less
  <2>1. IsWellFoundedOn(less, Nat)
    BY NatLessThanWellFounded DEF less
  <2> QED
    BY <2>1, WFMin
<1>2. PICK x \in S : \A y \in S : <<y, x>> \notin less
  BY <1>1
<1>3. ASSUME NEW y \in S, ~(x <= y) PROVE FALSE
  <2>1. x \in Nat /\ y \in Nat /\ y < x
    BY <1>3
  <2>2. <<y, x>> \in less
    BY <2>1 DEF OpToRel
  <2> QED
    BY <1>2, <2>2
<1>4. \E m \in S : \A y \in S : m <= y
  BY <1>3
<1> QED
  BY <1>4 DEF Min

\* What the command line and the profile choose.
LEMMA ChosenTyped ==
  ASSUME RunnerAssumption, RunnerTypes
  PROVE  Suite \in Suites /\ Discover \subseteq Suites /\ Wanted \subseteq Tests
<1>1. call.profile \in Profiles /\ call.suite \subseteq Suites
  BY DEF RunnerTypes, CallRecords
<1>2. Profile(call.profile).suite \in Suites /\ Profile(call.profile).discover \subseteq Suites
  BY <1>1 DEF Profile, Profiles, NoProfile, Suites
<1>3. Suite \in Suites
  BY <1>1, <1>2, Zenon DEF Suite
<1>4. Discover \subseteq Suites
  BY <1>2, <1>3 DEF Discover
<1>5. \A s \in Suites : listing[s] \subseteq Tests
  BY DEF RunnerTypes
<1> QED
  BY <1>3, <1>4, <1>5 DEF Wanted

LEMMA ExecutedIsKnown ==
  ASSUME RunnerAssumption, RunnerTypes, NEW selection
  PROVE  Executed(selection) \subseteq Tests
<1>1. listing[Suite] \subseteq Tests
  BY ChosenTyped DEF RunnerTypes
<1> QED
  BY <1>1 DEF Executed

\* Without --file the binary runs the whole suite, and that is what was
\* selected; with it, what was selected and checked to be there.
LEMMA ExecutesWanted ==
  ASSUME RunnerAssumption, RunnerTypes, Batch, UseFile => Wanted \subseteq listing[Suite]
  PROVE  Executed(Wanted) = Wanted
<1>1. Suite \in Suites /\ listing[Suite] \subseteq Tests
  BY ChosenTyped DEF RunnerTypes
<1>2. Executed(Wanted) = IF UseFile THEN Wanted \cap listing[Suite] ELSE listing[Suite]
  BY DEF Executed, Batch
<1>3. CASE UseFile
  BY <1>2, <1>3
<1>4. CASE ~UseFile
  <2>1. ~(Cardinality(Discover) > 1) /\ Profile(call.profile).exclude = {} /\ Filter = Tests
    BY <1>4 DEF UseFile
  <2>2. Cardinality({"certrotation", "two-node"}) = 2
    <3>1. Cardinality({"certrotation"}) = 1 /\ IsFiniteSet({"certrotation"})
      BY FS_Singleton
    <3>2. {"certrotation", "two-node"} = {"certrotation"} \cup {"two-node"} /\ "two-node" \notin {"certrotation"}
      OBVIOUS
    <3> QED
      BY <3>1, <3>2, FS_AddElement
  <2>3. Profile(call.profile).discover \in {{}, {"certrotation", "two-node"}}
    BY DEF RunnerTypes, CallRecords, Profile, Profiles, NoProfile
  <2>4. Discover = {Suite}
    BY <2>1, <2>2, <2>3 DEF Discover
  <2>5. UNION {listing[s] : s \in Discover} = listing[Suite]
    BY <2>4
  <2>6. Wanted = (listing[Suite] \cap Tests) \ {}
    BY <2>1, <2>5, Zenon DEF Wanted
  <2>7. Wanted = listing[Suite]
    BY <1>1, <2>6
  <2> QED
    BY <1>2, <1>4, <2>7
<1> QED
  BY <1>3, <1>4

LEMMA InitRunnerInv == ASSUME RunnerAssumption, InitRunner PROVE RunnerInv
<1>1. RunnerTypes
  BY DEF RunnerAssumption, InitRunner, RunnerTypes, CallRecords
<1>2. CapturesInv
  BY DEF InitRunner, CapturesInv, FileNamed, Stoppable
<1>3. BatchPlan
  BY DEF InitRunner, BatchPlan
<1> QED
  BY <1>1, <1>2, <1>3 DEF RunnerInv

\* The runs so far stay numbered when another one is completed.
LEMMA RunsGrow ==
  ASSUME NEW S, NEW m \in Nat, S \subseteq (0..m) \X Captures
  PROVE  S \subseteq (0..(m + 1)) \X Captures
<1>1. 0..m \subseteq 0..(m + 1)
  OBVIOUS
<1> QED
  BY <1>1

LEMMA StopOverTyped ==
  ASSUME RunnerTypes, StopOver
  PROVE  /\ stage' \in {"done", "next"} /\ lines' \in Nat
         /\ (0..lines) \X Captures \subseteq (0..lines') \X Captures
<1>1. lines' \in {lines, lines + 1} /\ stage' \in {"done", "next"} /\ lines \in Nat
  BY DEF StopOver, RunnerTypes
<1>2. 0..lines \subseteq 0..lines'
  BY <1>1
<1> QED
  BY <1>1, <1>2

LEMMA NextTypes ==
  ASSUME RunnerAssumption, RunnerInv, [RunnerStep]_runnerVars
  PROVE  RunnerTypes'
<1> USE DEF RunnerInv
<1>0. RunnerTypes /\ Wanted \subseteq Tests
  BY ChosenTyped
<1>1. CASE Prepare
  <2>1. stage' \in {"next", "exit", "prompt"} /\ (asking' = {} \/ asking' = Wanted)
    BY <1>1, Zenon DEF Prepare
  <2> QED
    BY <1>0, <1>1, <2>1 DEF Prepare, RunnerTypes, captureVars
<1>2. CASE Prompt
  <2>1. stage' \in {"next", "exit", "prompt"} /\ asking' \subseteq asking
    BY <1>2 DEF Prompt
  <2> QED
    BY <1>0, <1>2, <2>1 DEF Prompt, RunnerTypes, captureVars
<1>3. CASE NextRun
  <2>1. call.captures \in BOOLEAN
    BY <1>0 DEF RunnerTypes, CallRecords
  <2> QED
    BY <1>0, <1>3, <2>1 DEF NextRun, RunnerTypes
<1>4. CASE PlanDone
  BY <1>0, <1>4 DEF PlanDone, RunnerTypes, captureVars
<1>5. CASE Launch
  <2>1. Unlaunched \subseteq Nat /\ Unlaunched # {} /\ Unlaunched \subseteq Captures
    BY <1>5 DEF Launch, Unlaunched, RunnerAssumption
  <2>2. Min(Unlaunched) \in Captures
    BY <2>1, LeastIsIn
  <2>3. Run(Min(Unlaunched)) \in (0..lines) \X Captures
    BY <1>0, <2>2 DEF Run, RunnerTypes
  <2> QED
    BY <1>0, <1>5, <2>3 DEF Launch, RunnerTypes
<1>6. CASE WritePid
  BY <1>0, <1>6 DEF WritePid, RunnerTypes
<1>7. ASSUME NEW ok \in BOOLEAN, StartReturns(ok) PROVE RunnerTypes'
  BY <1>0, <1>7 DEF StartReturns, RunnerTypes, captureVars
<1>8. ASSUME NEW p \in alive, CaptureEnds(p) PROVE RunnerTypes'
  BY <1>0, <1>8 DEF CaptureEnds, RunnerTypes
<1>9. ASSUME NEW result \in {"PASS", "FAIL"}, RunTests(result) PROVE RunnerTypes'
  <2>1. Executed(Head(plan)) \subseteq Tests
    BY <1>0, ExecutedIsKnown
  <2> QED
    BY <1>0, <1>9, <2>1 DEF RunTests, RunnerTypes, captureVars
<1>10. CASE StopCaptures
  <2>1. CASE capFile
    <3>1. /\ stage' \in {"call", "lastCall"} /\ capFile' = FALSE
          /\ UNCHANGED <<call, listing, asking, ran, lines, alive, recorded, forked, term, lost, torn>>
      BY <1>10, <2>1 DEF StopCaptures, StopAt
    <3> QED
      BY <1>0, <3>1 DEF RunnerTypes
  <2>2. CASE ~capFile
    <3>1. StopOver /\ UNCHANGED alive
      BY <1>10, <2>2 DEF StopCaptures, StopAt
    <3> QED
      BY <1>0, <1>10, <3>1, StopOverTyped DEF StopCaptures, StopAt, RunnerTypes
  <2> QED
    BY <2>1, <2>2
<1>11. CASE KillCaptures
  BY <1>0, <1>11, StopOverTyped DEF KillCaptures, RunnerTypes
<1>15. CASE TermCaptures
  BY <1>0, <1>15 DEF TermCaptures, RunnerTypes
<1>12. CASE Interrupt
  BY <1>0, <1>12 DEF Interrupt, Ended, BeforeScript, RunnerTypes
<1>13. CASE Terminate
  BY <1>0, <1>13 DEF Terminate, Ended, BeforeScript, RunnerTypes
<1>14. CASE UNCHANGED runnerVars
  BY <1>0, <1>14 DEF runnerVars, RunnerTypes
<1> QED
  BY <1>1, <1>2, <1>3, <1>4, <1>5, <1>6, <1>7, <1>8, <1>9, <1>10, <1>11, <1>12, <1>13, <1>14, <1>15 DEF RunnerStep

LEMMA NextCaptures ==
  ASSUME RunnerInv, [RunnerStep]_runnerVars
  PROVE  CapturesInv'
<1> USE DEF RunnerInv, CapturesInv, FileNamed, Stoppable
<1>1. CASE Prepare
  <2>1. stage' \in {"next", "exit", "prompt"} /\ stage = "discover"
    BY <1>1, Zenon DEF Prepare
  <2> QED
    BY <1>1, <2>1 DEF Prepare, captureVars
<1>2. CASE Prompt
  <2>1. stage' \in {"next", "exit", "prompt"} /\ stage = "prompt"
    BY <1>2 DEF Prompt
  <2> QED
    BY <1>2, <2>1 DEF Prompt, captureVars
<1>3. CASE NextRun
  BY <1>3 DEF NextRun, RunnerTypes, CallRecords
<1>4. CASE PlanDone
  BY <1>4 DEF PlanDone, captureVars
<1>5. CASE Launch
  BY <1>5 DEF Launch
<1>6. CASE WritePid
  BY <1>6 DEF WritePid
<1>7. ASSUME NEW ok \in BOOLEAN, StartReturns(ok) PROVE CapturesInv'
  BY <1>7 DEF StartReturns, captureVars
<1>8. ASSUME NEW p \in alive, CaptureEnds(p) PROVE CapturesInv'
  BY <1>8 DEF CaptureEnds
<1>9. ASSUME NEW result \in {"PASS", "FAIL"}, RunTests(result) PROVE CapturesInv'
  BY <1>9 DEF RunTests, captureVars
<1>10. CASE StopCaptures
  <2>1. CASE capFile
    BY <1>10, <2>1 DEF StopCaptures, StopAt
  <2>2. CASE ~capFile
    BY <1>10, <2>2 DEF StopCaptures, StopAt, StopOver
  <2> QED
    BY <2>1, <2>2
<1>11. CASE KillCaptures
  BY <1>11 DEF KillCaptures, StopOver
<1>15. CASE TermCaptures
  BY <1>15 DEF TermCaptures
<1>12. CASE Interrupt
  BY <1>12 DEF Interrupt, Ended, BeforeScript, RunnerTypes
<1>13. CASE Terminate
  BY <1>13 DEF Terminate, Ended, BeforeScript, RunnerTypes
<1>14. CASE UNCHANGED runnerVars
  BY <1>14 DEF runnerVars
<1> QED
  BY <1>1, <1>2, <1>3, <1>4, <1>5, <1>6, <1>7, <1>8, <1>9, <1>10, <1>11, <1>12, <1>13, <1>14, <1>15 DEF RunnerStep

\* What was asked for, and what the suites list, is settled from the start.
LEMMA ChoiceKept ==
  ASSUME UNCHANGED <<call, listing>>
  PROVE  /\ Batch' <=> Batch
         /\ Wanted' = Wanted
         /\ Suite' = Suite
         /\ UseFile' <=> UseFile
<1> QED
  BY DEF Batch, Wanted, Suite, UseFile, Upgrade, Discover, Filter, Profile

LEMMA NothingIsAPlan == ASSUME NEW S PROVE << >> \in Seq(S)
<1> QED
  OBVIOUS

LEMMA RepeatedIsAPlan ==
  ASSUME RunnerTypes, NEW selection
  PROVE  Repeated(selection) \in Seq({selection})
<1>1. call.repeat \in Nat
  BY DEF RunnerTypes, CallRecords
<1> QED
  BY <1>1 DEF Repeated

LEMMA NextBatchPlan ==
  ASSUME RunnerAssumption, RunnerInv, [RunnerStep]_runnerVars
  PROVE  BatchPlan'
<1>0. UNCHANGED <<call, listing>>
  BY DEF RunnerStep, Prepare, Prompt, NextRun, PlanDone, Launch, WritePid, StartReturns, CaptureEnds,
         RunTests, StopCaptures, StopAt, TermCaptures, KillCaptures, Interrupt, Terminate, runnerVars
<1>1. /\ Batch' <=> Batch
      /\ Wanted' = Wanted
      /\ Suite' = Suite
      /\ UseFile' <=> UseFile
  BY <1>0, ChoiceKept
<1> SUFFICES ASSUME Batch
             PROVE  /\ plan' \in Seq({Wanted})
                    /\ stage' \in {"starting", "testing"} => plan' # << >>
                    /\ stage' = "discover" => plan' = << >>
                    /\ plan' # << >> /\ UseFile => Wanted \subseteq listing[Suite]
                    /\ asking' = {} /\ stage' # "prompt"
                    /\ ran' \in {{}, Wanted}
  BY <1>0, <1>1, Zenon DEF BatchPlan
<1>2. /\ plan \in Seq({Wanted})
      /\ stage \in {"starting", "testing"} => plan # << >>
      /\ stage = "discover" => plan = << >>
      /\ plan # << >> /\ UseFile => Wanted \subseteq listing[Suite]
      /\ asking = {} /\ stage # "prompt"
      /\ ran \in {{}, Wanted}
  BY Zenon DEF RunnerInv, BatchPlan
<1>3. CASE Prepare
  <2>1. /\ asking' = {}
        /\ \/ stage' = "exit" /\ plan' = << >>
           \/ /\ stage' = "next" /\ plan' = Repeated(Wanted)
              /\ UseFile => Wanted \subseteq listing[Suite]
    BY <1>3, Zenon DEF Prepare, Batch
  <2>2. ran' = ran
    BY <1>3 DEF Prepare
  <2>3. Repeated(Wanted) \in Seq({Wanted})
    BY RepeatedIsAPlan DEF RunnerInv
  <2>4. plan' \in Seq({Wanted})
    BY ONLY <2>1, <2>3, NothingIsAPlan
  <2>5. ran' \in {{}, Wanted}
    BY <1>2, <2>2
  <2>6. plan' # << >> /\ UseFile => Wanted \subseteq listing[Suite]
    BY <2>1, Zenon
  <2>7. /\ stage' \in {"starting", "testing"} => plan' # << >>
        /\ stage' = "discover" => plan' = << >>
        /\ stage' # "prompt"
    BY <2>1
  <2> QED
    BY <2>1, <2>4, <2>5, <2>6, <2>7
<1>4. CASE Prompt
  BY <1>2, <1>4 DEF Prompt
<1>5. CASE NextRun
  BY <1>2, <1>5 DEF NextRun
<1>6. CASE PlanDone
  BY <1>2, <1>6 DEF PlanDone
<1>7. CASE Launch
  BY <1>2, <1>7 DEF Launch
<1>8. CASE WritePid
  BY <1>2, <1>8 DEF WritePid
<1>9. ASSUME NEW ok \in BOOLEAN, StartReturns(ok)
      PROVE  UNCHANGED <<plan, asking, ran>> /\ stage = "starting" /\ stage' \in {"testing", "exit"}
  BY <1>9 DEF StartReturns
<1>10. ASSUME NEW p \in alive, CaptureEnds(p) PROVE UNCHANGED <<plan, asking, ran, stage>>
  BY <1>10 DEF CaptureEnds
<1>11. ASSUME NEW result \in {"PASS", "FAIL"}, RunTests(result)
       PROVE  /\ plan' \in Seq({Wanted}) /\ asking' = {}
              /\ stage' \in {"exit", "stop"} /\ ran' \in {{}, Wanted}
              /\ UseFile => Wanted \subseteq listing[Suite]
  <2>1. plan # << >> /\ plan \in Seq({Wanted})
    BY <1>2, <1>11 DEF RunTests
  <2>2. Head(plan) = Wanted /\ Tail(plan) \in Seq({Wanted})
    BY <2>1
  <2>3. UseFile => Wanted \subseteq listing[Suite]
    BY <1>2, <2>1
  <2>4. Executed(Head(plan)) = Wanted
    BY <2>2, <2>3, ExecutesWanted DEF RunnerInv
  <2>5. ran' = ran \cup Wanted
    BY <1>11, <2>4 DEF RunTests
  <2>6. plan' \in {<< >>, Tail(plan)}
    BY <1>11, Zenon DEF RunTests
  <2>7. stage' \in {"exit", "stop"} /\ asking' = {}
    BY <1>2, <1>11 DEF RunTests
  <2>8. plan' \in Seq({Wanted})
    BY ONLY <2>2, <2>6, NothingIsAPlan
  <2>9. ran' \in {{}, Wanted}
    <3>1. ran = {} \/ ran = Wanted
      BY <1>2
    <3> QED
      BY <2>5, <3>1
  <2> QED
    BY <2>3, <2>7, <2>8, <2>9
<1>12. CASE StopCaptures
  <2>1. UNCHANGED <<plan, asking, ran>> /\ stage' \in {"call", "lastCall", "done", "next"}
    BY <1>12 DEF StopCaptures, StopAt, StopOver
  <2> QED
    BY <1>2, <2>1
<1>13. CASE KillCaptures
  BY <1>2, <1>13 DEF KillCaptures, StopOver
<1>20. CASE TermCaptures
  BY <1>2, <1>20 DEF TermCaptures
<1>14. CASE Interrupt
  BY <1>2, <1>14 DEF Interrupt, Ended
<1>15. CASE Terminate
  BY <1>2, <1>15 DEF Terminate, Ended
<1>16. CASE UNCHANGED runnerVars
  BY <1>2, <1>16 DEF runnerVars
<1>17. CASE \E ok \in BOOLEAN : StartReturns(ok)
  <2>1. UNCHANGED <<plan, asking, ran>> /\ stage = "starting" /\ stage' \in {"testing", "exit"}
    BY <1>9, <1>17
  <2> QED
    BY <1>2, <2>1
<1>18. CASE \E p \in alive : CaptureEnds(p)
  <2>1. UNCHANGED <<plan, asking, ran, stage>>
    BY <1>10, <1>18
  <2> QED
    BY <1>2, <2>1
<1>19. CASE \E result \in {"PASS", "FAIL"} : RunTests(result)
  <2>1. /\ plan' \in Seq({Wanted}) /\ asking' = {}
        /\ stage' \in {"exit", "stop"} /\ ran' \in {{}, Wanted}
        /\ UseFile => Wanted \subseteq listing[Suite]
    BY <1>11, <1>19
  <2> QED
    BY <2>1
<1> QED
  BY <1>3, <1>4, <1>5, <1>6, <1>7, <1>8, <1>12, <1>13, <1>14, <1>15, <1>16, <1>17, <1>18, <1>19, <1>20 DEF RunnerStep

LEMMA RunnerInvariant == ASSUME RunnerAssumption PROVE RunnerSpec => []RunnerInv
<1>1. InitRunner => RunnerInv
  BY InitRunnerInv
<1>2. RunnerInv /\ [RunnerStep]_runnerVars => RunnerInv'
  BY NextTypes, NextCaptures, NextBatchPlan DEF RunnerInv
<1> QED
  BY <1>1, <1>2, PTL DEF RunnerSpec

\* The state of the runners stays of its types, whatever is selected, run,
\* interrupted or terminated.
THEOREM RunnerTypeCorrect == ASSUME RunnerAssumption PROVE RunnerSpec => []RunnerTypeOK
<1>1. RunnerInv => RunnerTypeOK
  BY DEF RunnerInv, RunnerTypes, RunnerTypeOK
<1> QED
  BY <1>1, RunnerInvariant, PTL

\* However the runner ends (through its plan, by Ctrl-C or by TERM at any
\* point), it leaves no capture running but those whose pid a Ctrl-C kept from
\* the file and those of a stop that a signal cut short.
THEOREM CapturesStoppedHolds == ASSUME RunnerAssumption PROVE RunnerSpec => []CapturesStopped
<1>1. RunnerInv => CapturesStopped
  BY DEF RunnerInv, CapturesInv, FileNamed, Stoppable, CapturesStopped
<1> QED
  BY <1>1, RunnerInvariant, PTL

\* Whatever suites a payload lists and whatever profile and flags are given, a
\* batch suite run executes the tests that were selected or none.
THEOREM RanWhatWasSelectedHolds == ASSUME RunnerAssumption PROVE RunnerSpec => []RanWhatWasSelected
<1>1. RunnerInv => RanWhatWasSelected
  BY Zenon DEF RunnerInv, BatchPlan, Batch, RanWhatWasSelected
<1> QED
  BY <1>1, RunnerInvariant, PTL

(***************************************************************************)
(* The union                                                               *)
(***************************************************************************)
\* The union behaves like each of its parts: what is proved of a part holds of
\* the specification that TLC runs.
THEOREM ImplementsParts == Spec => RcSpec /\ YoloSpec /\ HandoffSpec /\ RunnerSpec
<1>1. Init => InitRc /\ InitYolo /\ InitHandoff /\ InitRunner
  BY DEF Init
<1>2. [Next]_vars => [RcStep]_rcVars /\ [YoloStep]_yoloVars /\ [HandoffStep]_handoffVars /\ [RunnerStep]_runnerVars
  BY DEF Next, InRc, vars
<1> QED  BY <1>1, <1>2, PTL DEF Spec, RcSpec, YoloSpec, HandoffSpec, RunnerSpec

\* Types of all four loops, each while it moves and while it does not.
THEOREM TypesHold == Spec => []TypesOK
<1>1. RcTypeOK /\ YoloTypeOK /\ HandoffTypeOK /\ RunnerTypeOK => TypesOK
  BY DEF TypesOK
<1>2. RcSpec => []RcTypeOK
  BY LoopsAssumption, RcTypeCorrect
<1>3. YoloSpec => []YoloTypeOK
  BY LoopsAssumption, YoloTypeCorrect
<1>4. HandoffSpec => []HandoffTypeOK
  BY LoopsAssumption, HandoffTypeCorrect
<1>5. RunnerSpec => []RunnerTypeOK
  BY LoopsAssumption, RunnerTypeCorrect
<1> QED  BY <1>1, <1>2, <1>3, <1>4, <1>5, ImplementsParts, PTL
=============================================================================
