------------------------------- MODULE Handoff -------------------------------
(***************************************************************************)
(* The next plugin: /next:go has the agent write a note for the project    *)
(* directory and arm it, clears the session, and resumes in the new one.   *)
(* handoff.py read, the SessionStart hook of every session that starts in  *)
(* the directory, retires the note and injects it; register.ts drives the  *)
(* session through the turn.  What handoff.py reads and what it does with  *)
(* it are steps of their own: several terminals share the note.  Writing   *)
(* the file is one step: a reader between the truncation and the text      *)
(* would find an empty note, which fires nothing.                          *)
(***************************************************************************)
EXTENDS Integers

CONSTANTS
  Terminals,   \* where sessions of the directory may run
  MaxNotes,    \* bound on the notes written
  MaxTime,     \* bound on the clock
  Ttl,         \* of a note, from its arming or its writing
  NoNote

HandoffAssumption == MaxNotes \in Nat /\ MaxTime \in Nat /\ Ttl \in Nat \ {0}

VARIABLES
  note,      \* the note at the project's path
  clock,
  written,   \* notes written so far; the newest one has this number
  phase,     \* register.ts: "idle", "running" or "armed"; "off" without a session;
             \* "starting" and "retiring" while the hook of a new one runs
  found,     \* what the hook of a starting session has read
  given,     \* number of the note injected into the session, 0 for none
  queued,    \* "clear" or "resume", what the ended turn left to be run
  draft,     \* number of the note whose text an arm has read, 0 for none
  spent,     \* numbers of the notes that were injected, or deleted by the user
  again      \* of them, those an arm wrote back or a hook could not retire

disk  == <<note, written>>
tui   == <<phase, found, given, queued, draft>>
ghost == <<spent, again>>
handoffVars == <<disk, clock, tui, ghost>>

InitHandoff ==
  /\ note = NoNote /\ written = 0 /\ clock = 0
  /\ spent = {} /\ again = {}
  /\ phase = [s \in Terminals |-> "off"]
  /\ found = [s \in Terminals |-> NoNote]
  /\ given = [s \in Terminals |-> 0] /\ draft = given
  /\ queued = [s \in Terminals |-> "none"]

(***************************************************************************)
(* handoff.py read                                                         *)
(***************************************************************************)
\* A session starts, by a new process or after clear: its hook looks whether
\* there is a note.
Begin(s) ==
  /\ phase' = [phase EXCEPT ![s] = IF note = NoNote THEN "idle" ELSE "starting"]
  /\ given' = [given EXCEPT ![s] = 0]

\* The age of the note and its text; neither, when it is gone by now.  The
\* last field is for FiresOnce.
ReadNote(s) ==
  /\ phase[s] = "starting"
  /\ phase' = [phase EXCEPT ![s] = "retiring"]
  /\ found' = [found EXCEPT ![s] =
       IF note = NoNote THEN NoNote
       ELSE [number |-> note.number, age |-> clock - note.at, expires |-> note.expires,
             fresh |-> note.number \notin spent]]
  /\ UNCHANGED <<disk, clock, given, queued, draft, ghost>>

\* Without an expiry the time of the last write counts.
Expired(n) == IF n.expires > 0 THEN clock > n.expires ELSE n.age > Ttl

\* Mutant: a live note stays where it is until the next one is written.
RetiredLate(s) ==
  /\ IF found[s] # NoNote /\ ~Expired(found[s])
     THEN UNCHANGED note
     ELSE note' = NoNote
  /\ UNCHANGED again

\* retire, of whatever is at the path by now: moved aside or else deleted
\* (nothing reads the .consumed.md file), or else left where it is.
Retired(s) ==
  \/ note' = NoNote /\ UNCHANGED again
  \/ /\ UNCHANGED note
     /\ again' = IF note = NoNote THEN again ELSE again \union (spent' \intersect {note.number})

\* A live note is injected, unless the hook is stopped before it tells it.
Retire(s) ==
  /\ phase[s] = "retiring"
  /\ phase' = [phase EXCEPT ![s] = "idle"]
  /\ found' = [found EXCEPT ![s] = NoNote]
  /\ \/ UNCHANGED <<given, spent>>
     \/ /\ found[s] # NoNote /\ ~Expired(found[s])
        /\ given' = [given EXCEPT ![s] = found[s].number]
        /\ spent' = spent \union {found[s].number}
  /\ Retired(s)
  /\ UNCHANGED <<written, clock, queued, draft>>

(***************************************************************************)
(* The note is written, armed and deleted by sessions                      *)
(***************************************************************************)
Ready(s) == phase[s] \in {"idle", "running", "armed"} /\ queued[s] = "none" /\ draft[s] = 0

\* The agent's Write tool, at the path that handoff.py tells.
WriteNote(s) ==
  /\ Ready(s) /\ phase[s] # "armed" /\ written < MaxNotes
  /\ written' = written + 1
  /\ note' = [number |-> written + 1, at |-> clock, expires |-> 0]
  /\ UNCHANGED <<clock, tui, ghost>>

\* arm reads the note; it fails without one.
ArmRead(s) ==
  /\ Ready(s) /\ note # NoNote
  /\ draft' = [draft EXCEPT ![s] = note.number]
  /\ UNCHANGED <<disk, clock, phase, found, given, queued, ghost>>

\* It is written back with the expiry, whatever is at the path by now; the
\* tool call's hook moves the phase only in a turn of /next:go.
ArmWrite(s) ==
  /\ draft[s] > 0
  /\ note' = [number |-> draft[s], at |-> clock, expires |-> clock + Ttl]
  /\ again' = again \union (spent \intersect {draft[s]})
  /\ draft' = [draft EXCEPT ![s] = 0]
  /\ phase' = [phase EXCEPT ![s] = IF @ = "running" THEN "armed" ELSE @]
  /\ UNCHANGED <<written, clock, found, given, queued, spent>>

\* An empty or too long note, an expiry that cannot be, a failed write.
ArmFails(s) ==
  /\ draft[s] > 0
  /\ draft' = [draft EXCEPT ![s] = 0]
  /\ UNCHANGED <<disk, clock, phase, found, given, queued, ghost>>

\* handoff.py clear, at the user's wish.
Disarm ==
  /\ note # NoNote
  /\ note' = NoNote /\ spent' = spent \union {note.number}
  /\ UNCHANGED <<written, clock, tui, again>>

(***************************************************************************)
(* register.ts                                                             *)
(***************************************************************************)
Startup(s) ==
  /\ phase[s] = "off"
  /\ Begin(s)
  /\ UNCHANGED <<disk, clock, found, queued, draft, ghost>>

\* The user's own /clear, or the one that is queued.
Clear(s) ==
  /\ phase[s] = "idle" /\ queued[s] # "resume" /\ draft[s] = 0
  /\ Begin(s)
  /\ queued' = [queued EXCEPT ![s] = IF @ = "clear" THEN "resume" ELSE @]
  /\ UNCHANGED <<disk, clock, found, draft, ghost>>

\* The queued clear fails, or the prompt that tells the new session to start
\* the next task is submitted, or not.
Dequeue(s) ==
  /\ phase[s] = "idle" /\ queued[s] # "none"
  /\ queued' = [queued EXCEPT ![s] = "none"]
  /\ UNCHANGED <<disk, clock, phase, found, given, draft, ghost>>

Go(s) ==
  /\ Ready(s) /\ phase[s] = "idle"
  /\ phase' = [phase EXCEPT ![s] = "running"]
  /\ UNCHANGED <<disk, clock, found, given, queued, draft, ghost>>

\* The turn ends, with an answer or not: it clears only an armed session.
TurnComplete(s) ==
  /\ phase[s] \in {"running", "armed"} /\ draft[s] = 0
  /\ phase' = [phase EXCEPT ![s] = "idle"]
  /\ \/ queued' = queued
     \/ phase[s] = "armed" /\ queued' = [queued EXCEPT ![s] = "clear"]
  /\ UNCHANGED <<disk, clock, found, given, draft, ghost>>

\* The session is ended, with the hook or the tool call it runs.
Exit(s) ==
  /\ phase[s] # "off"
  /\ phase' = [phase EXCEPT ![s] = "off"]
  /\ found' = [found EXCEPT ![s] = NoNote]
  /\ queued' = [queued EXCEPT ![s] = "none"]
  /\ given' = [given EXCEPT ![s] = 0] /\ draft' = [draft EXCEPT ![s] = 0]
  /\ UNCHANGED <<disk, clock, ghost>>

Tick ==
  /\ clock < MaxTime
  /\ clock' = clock + 1
  /\ UNCHANGED <<disk, tui, ghost>>

HandoffStep ==
  \/ Disarm \/ Tick
  \/ \E s \in Terminals :
       \/ Startup(s) \/ ReadNote(s) \/ Retire(s)
       \/ WriteNote(s) \/ ArmRead(s) \/ ArmWrite(s) \/ ArmFails(s)
       \/ Clear(s) \/ Dequeue(s) \/ Go(s) \/ TurnComplete(s) \/ Exit(s)

HandoffSpec == InitHandoff /\ [][HandoffStep]_handoffVars
(***************************************************************************)
(* Properties                                                              *)
(***************************************************************************)
Notes == [number : 1..MaxNotes, at : 0..MaxTime, expires : 0..(MaxTime + Ttl)] \union {NoNote}

HandoffTypeOK ==
  /\ note \in Notes
  /\ again \subseteq spent /\ spent \subseteq 1..written
  /\ \A s \in Terminals :
       /\ phase[s] \in {"off", "starting", "retiring", "idle", "running", "armed"}
       /\ queued[s] \in {"none", "clear", "resume"}
       /\ found[s] # NoNote => phase[s] = "retiring" /\ found[s].number \in 1..written
       /\ given[s] \in 0..written /\ draft[s] \in 0..written

Injected(s) == given[s] = 0 /\ given'[s] > 0

\* A note that was injected or deleted is injected once more only by a hook
\* that had read it before (two sessions that start together, a deletion under
\* way), after an arm that had read it before and wrote it back, or because it
\* could not be retired: no later session and no /clear finds it otherwise.
FiresOnce ==
  [][\A s \in Terminals : Injected(s) /\ given'[s] \in spent =>
       found[s].fresh \/ given'[s] \in again']_handoffVars
=============================================================================
