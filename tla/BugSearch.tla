------------------------------ MODULE BugSearch ------------------------------
(***************************************************************************)
(* search-bugs.py asks Jira for the bugs of every candidate, one bounded   *)
(* page per query, by jira_search.py, and for the inventory of open bugs.  *)
(* People open and close bugs meanwhile.  A bug counts as evidence only    *)
(* with two keywords, with a test ID and a keyword, or with an OCP ID.     *)
(*                                                                         *)
(* A term is <<"word", w>>, <<"bare", id>> or <<"ocp", id>>; a candidate   *)
(* is the terms of its signature, most specific first, and its test IDs.   *)
(***************************************************************************)
EXTENDS Lists, SequencesExt, FiniteSetsExt

CONSTANTS
  Keys,         \* what keywords are taken from
  TestIds,
  Searches,     \* what may be searched for: the candidates of each source in turn
  Filed,        \* the bugs in the component's scope
  Labelled,     \* those that bear the label of the inventory
  Texts,        \* what a bug may say, a set of sets of terms
  PageLimit,    \* 50: results of a keyword query, and of an inventory page
  IdLimit,      \* 5: results of a query by test ID
  MaxSheets,    \* max_pages of search_all
  Attempts,     \* _SEARCH_ATTEMPTS
  MaxMoves      \* bound: bugs people open or close during the search

Terms == ({"word"} \X Keys) \cup ({"bare", "ocp"} \X TestIds)

BugSearchAssumption ==
  /\ \A search \in Searches : search # << >> /\ search \in Seq(Seq([terms : Seq(Terms), ids : Seq(TestIds)]))
  /\ Texts \subseteq SUBSET Terms /\ IsFiniteSet(Filed)
  /\ PageLimit \in Nat \ {0} /\ IdLimit \in Nat \ {0}
  /\ MaxSheets \in Nat \ {0} /\ Attempts \in Nat \ {0} /\ MaxMoves \in Nat
  /\ Labelled \subseteq Filed

VARIABLES
  wording,    \* the terms in the text of each bug
  standing,   \* "open" or "closed" (Closed, Verified)
  moved,      \* bugs whose standing changed during the search
  asked,      \* the candidates of each source
  unasked,    \* the queries that are left
  tries,      \* failed attempts of the request under way
  hits,       \* recorded evidence
  inventory,  \* bugs of the inventory pages read so far
  sheets,     \* their number
  outcome     \* "searching", "aborted" or "published"

bugSearchVars == <<wording, standing, moved, asked, unasked, tries, hits, inventory, sheets, outcome>>

(***************************************************************************)
(* Queries                                                                 *)
(***************************************************************************)
\* extract_keywords keeps four terms; the test IDs among them are no keywords.
Keywords(cand) ==
  Keeping(SubSeq(cand.terms, 1, Min({4, Len(cand.terms)})),
          {t \in Terms : \A i \in ToSet(cand.ids) : t \notin {<<"bare", i>>, <<"ocp", i>>}})

Top(cand) == SubSeq(Keywords(cand), 1, Min({3, Len(Keywords(cand))}))

Query(cand, kind, terms, limit) == [cand |-> cand, kind |-> kind, terms |-> terms, limit |-> limit]

ByKeyword(cand) == [k \in DOMAIN Top(cand) |-> Query(cand, "open", {Top(cand)[k]}, PageLimit)]

\* Mutant: a bug must be on the page of each keyword.
NoPairs(cand) == << >>

ByPair(cand) ==
  LET pairs == SetToSeq(kSubset(2, ToSet(Top(cand))))
  IN [p \in DOMAIN pairs |-> Query(cand, "open", pairs[p], PageLimit)]

ById(cand) ==
  FlattenSeq([i \in DOMAIN cand.ids |-> <<Query(cand, "open", {<<"bare", cand.ids[i]>>}, IdLimit),
                                          Query(cand, "open", {<<"ocp", cand.ids[i]>>}, IdLimit)>>])

ByIdAndKeyword(cand) ==
  FlattenSeq([i \in DOMAIN cand.ids |->
    [k \in DOMAIN Top(cand) |-> Query(cand, "open", {<<"bare", cand.ids[i]>>, Top(cand)[k]}, PageLimit)]])

ClosedByPair(cand) ==
  IF Len(Keywords(cand)) < 2 THEN << >>
  ELSE <<Query(cand, "closed", {Keywords(cand)[1], Keywords(cand)[2]}, PageLimit)>>

Queries(cand) == ByKeyword(cand) \o ByPair(cand) \o ById(cand) \o ByIdAndKeyword(cand) \o ClosedByPair(cand)

\* The inventory is asked for once, behind the candidates of the first source.
Inventory == Query([terms |-> << >>, ids |-> << >>], "inventory", {}, PageLimit)

Plan(search) ==
  FlattenSeq([s \in DOMAIN search |->
    FlattenSeq([c \in DOMAIN search[s] |-> Queries(search[s][c])]) \o (IF s = 1 THEN <<Inventory>> ELSE << >>)])

(***************************************************************************)
(* Evidence                                                                *)
(***************************************************************************)
Evidence(cand, kind, b) == {h.term : h \in {g \in hits : g.cand = cand /\ g.kind = kind /\ g.bug = b}}

Accepted(cand, kind) ==
  {b \in Filed :
    LET words == {t \in Evidence(cand, kind, b) : t \in ToSet(Keywords(cand))}
        ids   == {t[1] : t \in Evidence(cand, kind, b) \ words}
    IN "ocp" \in ids \/ Cardinality(words) >= 2 \/ ("bare" \in ids /\ words # {})}

Duplicates(cand)  == Accepted(cand, "open")
Regressions(cand) == Accepted(cand, "closed")

(***************************************************************************)
(* The search                                                              *)
(***************************************************************************)
InitBugSearch ==
  /\ wording \in [Filed -> Texts] /\ standing \in [Filed -> {"open", "closed"}] /\ moved = {}
  /\ asked \in Searches /\ unasked = Plan(asked)
  /\ tries = 0 /\ hits = {} /\ inventory = {} /\ sheets = 0 /\ outcome = "searching"

Asking == outcome = "searching" /\ unasked # << >>

\* The first page of what matches.
Pages(matching, limit) == kSubset(Min({limit, Cardinality(matching)}), matching)

Matching(q) == {b \in Filed : q.terms \subseteq wording[b] /\ standing[b] = q.kind}

\* What a query's page says of its bugs: each has the terms.
PageHits(q, page) == {[cand |-> q.cand, kind |-> q.kind, bug |-> b, term |-> t] : b \in page, t \in q.terms}

\* search answers with one page, whose bugs are recorded.
Answer ==
  /\ Asking /\ Head(unasked).kind # "inventory"
  /\ LET q == Head(unasked)
     IN \E page \in Pages(Matching(q), q.limit) : hits' = hits \cup PageHits(q, page)
  /\ unasked' = Tail(unasked) /\ tries' = 0
  /\ UNCHANGED <<wording, standing, moved, asked, inventory, sheets, outcome>>

\* search_all reads on until a page says it is the last; Jira may say so only
\* on an empty page.  Too many pages are an error.
ReadSheet ==
  /\ Asking /\ Head(unasked).kind = "inventory"
  /\ LET others == {b \in Labelled : standing[b] = "open"} \ inventory
     IN \E page \in Pages(others, PageLimit), last \in BOOLEAN :
          /\ last => page = others
          /\ inventory' = inventory \cup page
          /\ unasked' = IF last THEN Tail(unasked) ELSE unasked
          /\ outcome' = IF ~last /\ sheets + 1 = MaxSheets THEN "aborted" ELSE outcome
  /\ sheets' = sheets + 1 /\ tries' = 0
  /\ UNCHANGED <<wording, standing, moved, asked, hits>>

\* _request: a temporary transport failure, tried again.
Retry ==
  /\ Asking /\ tries + 1 < Attempts
  /\ tries' = tries + 1
  /\ UNCHANGED <<wording, standing, moved, asked, unasked, hits, inventory, sheets, outcome>>

\* Any other failure, no credentials, the last attempt, an answer without
\* issues or without a new token: JiraSearchError.
SearchFails ==
  /\ Asking
  /\ outcome' = "aborted"
  /\ UNCHANGED <<wording, standing, moved, asked, unasked, tries, hits, inventory, sheets>>

\* The mappings of all sources are written once every search is complete.
PublishMappings ==
  /\ outcome = "searching" /\ unasked = << >>
  /\ outcome' = "published"
  /\ UNCHANGED <<wording, standing, moved, asked, unasked, tries, hits, inventory, sheets>>

\* Somebody closes or reopens a bug.
Move(b) ==
  /\ outcome = "searching" /\ Cardinality(moved) < MaxMoves
  /\ standing' = [standing EXCEPT ![b] = IF @ = "open" THEN "closed" ELSE "open"]
  /\ moved' = moved \cup {b}
  /\ UNCHANGED <<wording, asked, unasked, tries, hits, inventory, sheets, outcome>>

BugSearchStep == Answer \/ ReadSheet \/ Retry \/ SearchFails \/ PublishMappings \/ \E b \in Filed : Move(b)

BugSearchSpec == InitBugSearch /\ [][BugSearchStep]_bugSearchVars

(***************************************************************************)
(* Properties                                                              *)
(***************************************************************************)
Candidates == UNION {ToSet(asked[s]) : s \in DOMAIN asked}

\* Types of the state.
BugSearchTypeOK ==
  /\ wording \in [Filed -> Texts] /\ standing \in [Filed -> {"open", "closed"}] /\ moved \subseteq Filed
  /\ asked \in Searches /\ (\A q \in ToSet(unasked) : q.kind \in {"open", "closed", "inventory"})
  /\ tries \in 0..(Attempts - 1)
  /\ \A h \in hits : h.cand \in Candidates /\ h.kind \in {"open", "closed"} /\ h.bug \in Filed
  /\ inventory \subseteq Labelled /\ sheets \in 0..MaxSheets
  /\ outcome \in {"searching", "aborted", "published"}

\* Everything that says these terms and may have been of this standing when
\* it was asked for fits one page.
FitsPage(terms, kind, limit) ==
  Cardinality({b \in Filed : terms \subseteq wording[b] /\ (standing[b] = kind \/ b \in moved)}) <= limit

\* The bug says terms of the candidate that count, and the query for just
\* these terms was not cut.
Told(cand, kind, b) ==
  LET words == {Keywords(cand)[k] : k \in DOMAIN Keywords(cand) \cap 1..(IF kind = "open" THEN 3 ELSE 2)}
  IN \/ \E v, w \in words : v # w /\ {v, w} \subseteq wording[b] /\ FitsPage({v, w}, kind, PageLimit)
     \/ /\ kind = "open"
        /\ \E i \in ToSet(cand.ids) :
             \/ <<"ocp", i>> \in wording[b] /\ FitsPage({<<"ocp", i>>}, kind, IdLimit)
             \/ \E w \in words : {<<"bare", i>>, w} \subseteq wording[b] /\ FitsPage({<<"bare", i>>, w}, kind, PageLimit)

\* search-bugs.py:242, 260, 271: broad queries are cut at a page, which must
\* not cost a bug its evidence.  Whatever else matches, a bug nobody moved is
\* among the duplicates (open) or the regressions (closed) of a candidate if
\* it says compound terms whose own query was not cut; it is never both; and
\* it is in the inventory if it is open and bears the label.
EvidenceNotLost ==
  outcome = "published" =>
    \A b \in Filed \ moved :
      /\ (b \in Labelled /\ standing[b] = "open") <=> b \in inventory
      /\ \A cand \in Candidates :
           /\ standing[b] = "open" /\ Told(cand, "open", b) => b \in Duplicates(cand)
           /\ standing[b] = "closed" /\ Told(cand, "closed", b) => b \in Regressions(cand)
           /\ b \notin Duplicates(cand) \cap Regressions(cand)
=============================================================================
