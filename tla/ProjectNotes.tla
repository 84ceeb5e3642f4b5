----------------------------- MODULE ProjectNotes -----------------------------
(***************************************************************************)
(* consolidate-project.py of the workspace plugin: completed items of a    *)
(* project's CLAUDE.md move to progress-archive.md.  The archive is        *)
(* written first and CLAUDE.md then, and a run may die between the two;    *)
(* the user and update-project edit the notes at any time between runs.    *)
(***************************************************************************)
EXTENDS Lists, SequencesExt

CONSTANTS
  Headings,      \* of the sections of CLAUDE.md
  Progress,      \* the section whose narrative is archived, too
  ItemThreshold,     \* items that make a section qualify (10 in the code)
  KeepRecent,    \* completed items that stay (3 in the code)
  MaxItems,      \* bound on the items ever written
  MaxDay         \* bound on the days

NotesAssumption ==
  /\ Progress \in Headings
  /\ ItemThreshold \in Nat \ {0} /\ KeepRecent \in Nat /\ MaxItems \in Nat /\ MaxDay \in Nat

VARIABLES
  doc,            \* CLAUDE.md: of each section its items and whether it has the pointer line
  archive,        \* progress-archive.md, a set of blocks
  exists,         \* it is there
  consolidation,  \* the CLAUDE.md a run has read, its blocks being written; << >> without a run
  day,
  made,           \* items written so far
  deleted         \* items the user took out

notesVars == <<doc, archive, exists, consolidation, day, made, deleted>>

ItemKinds == {"checked", "unchecked", "strikethrough", "plain"}

InitNotes ==
  /\ doc = [h \in Headings |-> [items |-> << >>, pointer |-> FALSE]]
  /\ archive = {} /\ exists = FALSE /\ consolidation = << >>
  /\ day = 1 /\ made = 0 /\ deleted = {}

(***************************************************************************)
(* Sections.  An item is its number and its kind.                          *)
(***************************************************************************)
Of(section, kinds) == Keeping(section.items, {i \in Range(section.items) : i.kind \in kinds})
Checked(section)   == Of(section, {"checked"})

Qualifies(h, section) ==
  /\ ~section.pointer
  /\ \/ Len(Checked(section)) >= ItemThreshold
     \/ h = Progress /\ Len(Of(section, {"checked", "plain"})) >= ItemThreshold

\* All completed items but the last ones, and what is struck through; of the
\* progress section its narrative.
ToArchive(h, section) ==
  LET old == Len(Checked(section)) - KeepRecent
  IN  {Checked(section)[i] : i \in 1..old}
      \union Range(Of(section, IF h = Progress THEN {"strikethrough", "plain"} ELSE {"strikethrough"}))

Block(h, section) == [heading |-> h, date |-> day, items |-> ToArchive(h, section)]

Qualifying(notes) == {h \in Headings : Qualifies(h, notes[h])}
Blocks(notes)     == {Block(h, notes[h]) : h \in Qualifying(notes)}

(***************************************************************************)
(* consolidate                                                             *)
(***************************************************************************)
\* Mutant: a block is known by its heading alone.
InArchiveByName(block) == exists /\ \E b \in archive : b.heading = block.heading

\* A block whose heading line with this date is in the file is not appended.
InArchive(block) ==
  exists /\ \E b \in archive : b.heading = block.heading /\ b.date = block.date

WriteArchive ==
  /\ consolidation = << >> /\ Qualifying(doc) # {}
  /\ archive' = archive \union {b \in Blocks(doc) : ~InArchive(b)}
  /\ exists' = TRUE
  /\ consolidation' = <<doc>>
  /\ UNCHANGED <<doc, day, made, deleted>>

\* Mutant: only the last items of a section stay, of whatever kind.
RewrittenFromLast(h, section) ==
  [items |-> SubSeq(section.items, Len(section.items) - KeepRecent + 1, Len(section.items)), pointer |-> TRUE]

Rewritten(h, section) ==
  [items |-> Keeping(section.items, Range(section.items) \ ToArchive(h, section)), pointer |-> TRUE]

\* The pointer line and the items that stay, from the notes as they were read.
WriteNotes ==
  /\ consolidation # << >>
  /\ doc' = [h \in Headings |-> IF h \in Qualifying(consolidation[1]) THEN Rewritten(h, consolidation[1][h]) ELSE consolidation[1][h]]
  /\ consolidation' = << >>
  /\ UNCHANGED <<archive, exists, day, made, deleted>>

\* The run is killed, or CLAUDE.md cannot be written.
ConsolidationDies ==
  /\ consolidation # << >>
  /\ consolidation' = << >>
  /\ UNCHANGED <<doc, archive, exists, day, made, deleted>>

(***************************************************************************)
(* The user and update-project, while no run writes                        *)
(***************************************************************************)
Edit(h, section) ==
  /\ consolidation = << >>
  /\ doc' = [doc EXCEPT ![h] = section]
  /\ UNCHANGED <<archive, exists, consolidation, day>>

Add(h) ==
  /\ made < MaxItems
  /\ \E k \in ItemKinds :
       Edit(h, [doc[h] EXCEPT !.items = Append(@, [number |-> made + 1, kind |-> k])])
  /\ made' = made + 1 /\ UNCHANGED deleted

\* An item is completed or struck through.
Change(h) ==
  /\ \E i \in DOMAIN doc[h].items, k \in {"checked", "strikethrough"} :
       doc[h].items[i].kind = "unchecked" /\ Edit(h, [doc[h] EXCEPT !.items[i].kind = k])
  /\ UNCHANGED <<made, deleted>>

Delete(h) ==
  /\ \E i \in DOMAIN doc[h].items :
       /\ Edit(h, [doc[h] EXCEPT !.items = RemoveAt(@, i)])
       /\ deleted' = deleted \union {doc[h].items[i].number}
  /\ UNCHANGED made

\* The pointer line goes when the section is written anew.
RemovePointer(h) ==
  /\ doc[h].pointer
  /\ Edit(h, [doc[h] EXCEPT !.pointer = FALSE])
  /\ UNCHANGED <<made, deleted>>

NextDay ==
  /\ day < MaxDay /\ consolidation = << >>
  /\ day' = day + 1
  /\ UNCHANGED <<doc, archive, exists, consolidation, made, deleted>>

NotesStep ==
  \/ WriteArchive \/ WriteNotes \/ ConsolidationDies \/ NextDay
  \/ \E h \in Headings : Add(h) \/ Change(h) \/ Delete(h) \/ RemovePointer(h)

NotesSpec == InitNotes /\ [][NotesStep]_notesVars
(***************************************************************************)
(* Properties                                                              *)
(***************************************************************************)
Items(notes) == UNION {Range(notes[h].items) : h \in Headings}
Archived     == UNION {b.items : b \in archive}

NotesTypeOK ==
  /\ \A h \in Headings : doc[h].pointer \in BOOLEAN /\ Items(doc) \subseteq [number : 1..made, kind : ItemKinds]
  /\ Archived \subseteq [number : 1..made, kind : ItemKinds]
  /\ \A b \in archive : b.date \in 1..day

\* What a run takes out of CLAUDE.md is in the archive, unless that had a block
\* of the section of the same day before; open items stay in any case.
DroppedIsArchived ==
  [][consolidation # << >> =>
       \A i \in Items(doc) \ Items(doc') :
         /\ i.kind # "unchecked"
         /\ i \notin Archived =>
              \E b \in archive : b.date = day /\ i \in ToArchive(b.heading, consolidation[1][b.heading])]_notesVars

\* Items are archived, not deleted: only the user's own deletions lose any.
NothingLost ==
  \A n \in 1..made : n \in deleted \/ \E i \in Items(doc) \union Archived : i.number = n
=============================================================================
