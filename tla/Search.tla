------------------------------- MODULE Search -------------------------------
(***************************************************************************)
(* Searching and correcting the index (search.py) while the library it     *)
(* reads goes on changing.  Of the index only what VersionIndex promises   *)
(* is used.  A search asks the database several times and lets go of it    *)
(* while it waits for the vector of its text; every statement sees the     *)
(* library as it is then.                                                  *)
(***************************************************************************)
EXTENDS QueryQueue

CONSTANTS
    Versions,         \* versions of documents the searcher may read
    ByWord,           \* those the search text is found in; all are near it
    Searchers,        \* bound: callers that search while the library changes
    MaxParses,        \* bound: parses of one version
    MaxChanges        \* bound: changes of the library

ASSUME SearchAssumption ==
    /\ ByWord \subseteq Versions /\ Searchers \subseteq Callers
    /\ MaxParses \in Nat /\ MaxChanges \in Nat

VARIABLES
    latest, shown, gone, \* the index: see VersionIndex
    published,        \* versions that are published and active
    corrected,        \* versions whose text an approver has corrected
    editing,          \* the approver's request
    step,             \* how far each search is
    found,            \* chunks it has collected: <<version, generation>>
    touched,          \* history: versions that changed since it began
    page,             \* a reader's request for a page of text
    changes           \* changes of the library so far

libraryVars == <<latest, shown, gone, published, corrected>>
searchVars == <<libraryVars, editing, step, found, touched, page, changes>>

Index == INSTANCE VersionIndex

NotEditing == [pc |-> "none"]
NoPage == [pc |-> "none"]

SearchInit ==
    /\ latest = [v \in Versions |-> 1]
    /\ shown = [v \in Versions |-> {1}]
    /\ gone = {} /\ corrected = {}
    /\ published \in SUBSET Versions
    /\ editing = NotEditing
    /\ step = [c \in Callers |-> "idle"]
    /\ found = [c \in Callers |-> {}]
    /\ touched = [c \in Callers |-> {}]
    /\ page = NoPage
    /\ changes = 0

-----------------------------------------------------------------------------
(* The library.  edit_chunk holds the row of its version from the moment   *)
(* it has read active_generation until it commits.                         *)
Held_Never(v) == FALSE
Held(v) == editing.pc = "locked" /\ editing.version = v

Changed == {v \in Versions : shown'[v] # shown[v] \/ (v \in published) # (v \in published')}

Library(change) ==
    /\ changes < MaxChanges /\ changes' = changes + 1
    /\ change
    /\ \A v \in Changed : ~Held(v)
    /\ corrected' = corrected \ {v \in Versions : shown'[v] # shown[v]}
    /\ touched' = [c \in Callers |->
                     IF step[c] \in {"idle", "done"} THEN touched[c] ELSE touched[c] \cup Changed]
    /\ UNCHANGED <<queueVars, editing, step, found, page>>

Reparse(v) ==
    /\ latest[v] < MaxParses
    /\ latest' = [latest EXCEPT ![v] = @ + 1]
    /\ Index!Switch(v)
    /\ UNCHANGED published

Delete(v) ==
    /\ v \notin gone
    /\ Index!Remove({v})
    /\ published' = published \ {v}

Publish(v) ==
    /\ v \notin gone \cup published
    /\ published' = published \cup {v}
    /\ UNCHANGED <<latest, shown, gone>>

Withdraw(v) ==
    /\ v \in published
    /\ published' = published \ {v}
    /\ UNCHANGED <<latest, shown, gone>>

LibraryNext ==
    \E v \in Versions :
        Library(Reparse(v)) \/ Library(Delete(v)) \/ Library(Publish(v)) \/ Library(Withdraw(v))

-----------------------------------------------------------------------------
(* permission_filter joined with the chunks of active_generation.          *)
Visible == {row \in published \X (1 .. MaxParses) : row[2] \in shown[row[1]]}
Lexical == {row \in Visible : row[1] \in ByWord}
Listed == {<<v, latest[v]>> : v \in published}

Advance(c, next, rows) ==
    /\ step' = [step EXCEPT ![c] = next]
    /\ found' = [found EXCEPT ![c] = rows]
    /\ UNCHANGED <<libraryVars, editing, touched, page, changes>>

(* Mode "content" collects by keyword first; mode "files" asks for the     *)
(* files of its page at once.                                              *)
Begin(c) ==
    /\ step[c] = "idle"
    /\ Advance(c, "vector", Lexical)
    /\ \E t \in Texts : Arrive(c, t)

BeginFiles(c) ==
    /\ step[c] = "idle" /\ at[c] = "idle"
    /\ Advance(c, "recheck", Listed)
    /\ UNCHANGED queueVars

(* A vector adds what is near it; any failure leaves the keyword matches   *)
(* ("model/driver failures deliberately degrade to keyword search").       *)
Semantic(c) == IF at[c] = "got" THEN found[c] \cup Visible ELSE found[c]

Collect(c) ==
    /\ step[c] = "vector" /\ at[c] \in {"got", "failed"}
    /\ Advance(c, "hydrate", Semantic(c))
    /\ UNCHANGED queueVars

(* _page: the texts of what is still there, then once more what of it is   *)
(* still published.                                                        *)
Hydrate(c) ==
    /\ step[c] = "hydrate"
    /\ Advance(c, "recheck", found[c] \cap Visible)
    /\ UNCHANGED queueVars

Allowed_AsFound(c) == found[c]
Allowed(c) == {row \in found[c] : row[1] \in published}

Recheck(c) ==
    /\ step[c] = "recheck"
    /\ Advance(c, "done", Allowed(c))
    /\ UNCHANGED queueVars

-----------------------------------------------------------------------------
(* edit_chunk: is it a draft?  Then, holding the row of the version, is    *)
(* the chunk still one of its text?  Then embed, and write.  The draft may *)
(* have been published between the first two.                              *)
Edit(pc, v, n) ==
    /\ editing' = [pc |-> pc, version |-> v, generation |-> n]
    /\ UNCHANGED <<queueVars, latest, shown, gone, published, step, found, touched, page,
                   changes>>

CheckDraft(v, n) ==
    /\ editing.pc = "none"
    /\ v \notin gone \cup published /\ n \in shown[v]
    /\ Edit("checked", v, n) /\ UNCHANGED corrected

LockVersion ==
    /\ editing.pc = "checked"
    /\ Edit(IF editing.generation \in shown[editing.version] THEN "locked" ELSE "refused",
            editing.version, editing.generation)
    /\ UNCHANGED corrected

(* UPDATE chunks ... WHERE id: a row that is gone is not written, and the  *)
(* answer is "updated" all the same.                                       *)
Save ==
    /\ editing.pc = "locked"
    /\ Edit("saved", editing.version, editing.generation)
    /\ corrected' = IF editing.generation \in shown[editing.version]
                    THEN corrected \cup {editing.version} ELSE corrected

-----------------------------------------------------------------------------
(* read: which text does the version have?  Then, when the reader starts   *)
(* from a chunk it has found, where is that chunk in this text?  Then the  *)
(* chunks from there.  They are three statements: the text may have been   *)
(* parsed again between them, and then the page is empty.                  *)
Page(next) == page' = next /\ UNCHANGED <<queueVars, libraryVars, editing, step, found, touched, changes>>

OpenVersion(v, chunk) ==
    /\ page.pc \in {"none", "given"}
    /\ v \in published /\ chunk <= latest[v]
    /\ Page([pc |-> IF chunk = 0 THEN "placed" ELSE "opened", version |-> v,
             generation |-> latest[v], chunk |-> chunk, text |-> 0])

FindChunk ==
    /\ page.pc = "opened"
    /\ IF page.chunk = page.generation /\ page.chunk \in shown[page.version]
       THEN Page([page EXCEPT !.pc = "placed"])
       ELSE Page(NoPage)     \* "please search again"

TakePage ==
    /\ page.pc = "placed"
    /\ Page([page EXCEPT !.pc = "given",
                         !.text = IF page.generation \in shown[page.version] THEN page.generation ELSE 0])

Searching ==
    \/ \E c \in Searchers : Begin(c) \/ BeginFiles(c) \/ Collect(c) \/ Hydrate(c) \/ Recheck(c)
    \/ QueueNext /\ UNCHANGED searchVars

Editing ==
    \/ \E v \in Versions, n \in 1 .. MaxParses : CheckDraft(v, n)
    \/ LockVersion \/ Save

Paging ==
    \/ \E v \in Versions, chunk \in 0 .. MaxParses : OpenVersion(v, chunk)
    \/ FindChunk \/ TakePage

-----------------------------------------------------------------------------
(* An answer is current: nothing that has left the library by the time of  *)
(* the last question is in it, and whatever matched and stayed as it was   *)
(* is, also when no vector was to be had.  A page of text that starts from *)
(* a chunk is of the text that chunk was found in.                         *)
Answers(c) == step[c] # "done" /\ step'[c] = "done"

CurrentAnswer(c) ==
    /\ \A row \in found'[c] : row[1] \in published
    /\ \A row \in Visible :
          row[1] \notin touched[c] /\ (row[1] \in ByWord \/ at[c] # "failed") => row \in found'[c]

CurrentPage == page.pc = "given" => page.text = 0 \/ page.chunk \in {0, page.text}

EveryAnswerIsCurrent ==
    [][(\A c \in Callers : Answers(c) => CurrentAnswer(c)) /\ CurrentPage']_searchVars

(* A correction that was reported as saved is in the text readers find.    *)
SavedEditIsShown ==
    [][editing.pc # "saved" /\ editing'.pc = "saved" => editing.version \in corrected']_searchVars
=============================================================================
