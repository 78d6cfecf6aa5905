-------------------------- MODULE ScriptWorkbench --------------------------
(***************************************************************************)
(* The Script workbench of the desktop app: one table of rows in memory    *)
(* (knowledge.store.ts), the flows that load, search, edit and save it     *)
(* (script.vm.ts), and the two views it is shown in.  The gallery loads    *)
(* the table each time it is mounted, and it is mounted each time the row  *)
(* editor closes.                                                          *)
(*                                                                         *)
(* What is visible is filtered, sorted and cut to a window; the gallery    *)
(* names a row by its place there, and the handlers take that for its      *)
(* index in the table.                                                     *)
(*                                                                         *)
(* Everything the user starts is one step of the window's event loop up to *)
(* its first await.  What it awaits, a read, a save, a validation, an      *)
(* import preview or an answer to a dialog, arrives in any order.          *)
(***************************************************************************)
EXTENDS Naturals, FiniteSets, Sequences, Bags

CONSTANTS
    KnowledgeBase, \* the topics of knowledge_base.csv, in file order
    TopicList,     \* the topics of topics.csv
    ImportedFile,  \* the topics of the CSV the user imports
    Blank,         \* the topic of a row with empty cells
    Matching,      \* the topics the query "q" finds
    Invalid,       \* topics whose row as delivered fails validation
    Chosen,        \* the topics of the category the filter chip names
    Rank,          \* of each topic among the cells of the sorted column
    PageCap,       \* FULL_LOAD: rows in one answer
    WindowSize,    \* rows of the visible window
    UserOps,       \* what the user does in this instance
    MaxActs,       \* bound: user actions
    MaxFaults      \* bound: calls that answer an error

Sources == {"knowledge", "topics"}
Queries == {"", "q"}
Operations == {"edit", "type", "new", "duplicate", "delete", "cancel",
               "save", "search", "source", "reopen", "validate", "import",
               "view"}

ToSetOf(s) == {s[i] : i \in DOMAIN s}
ToBag(s) == [x \in ToSetOf(s) |-> Cardinality({i \in DOMAIN s : s[i] = x})]
Topics == ToSetOf(KnowledgeBase) \cup ToSetOf(TopicList)
              \cup ToSetOf(ImportedFile) \cup {Blank}

(* A row has the columns of one source; text is the edit it was last typed *)
(* in, 0 as it was delivered.                                              *)
Row == [of : Sources, topic : Topics, text : 0..MaxActs]

ASSUME ConstantsAssumption ==
    /\ KnowledgeBase \in Seq(Topics) /\ TopicList \in Seq(Topics)
    /\ ImportedFile \in Seq(Topics)
    /\ Matching \subseteq Topics /\ Invalid \subseteq Topics
    /\ Chosen \subseteq Topics /\ Rank \in [Topics -> Nat]
    /\ PageCap \in Nat \ {0} /\ WindowSize \in Nat \ {0}
    /\ UserOps \subseteq Operations
    /\ MaxActs \in Nat /\ MaxFaults \in Nat

VARIABLES
    file,       \* the rows of each source's CSV
    (* KnowledgeStore *)
    source, query, allRows, tableDirty, loading, searching,
    view,       \* [sort, filtered, offset]: what is visible of allRows
    validation, \* [checked, errors]: the report and its rows with errors
    editor,     \* [open, isNew, rowIndex, draft, original, asked]; asked is
                \* the row the user opened it for
    (* ScriptVm and UiStore *)
    generation, \* of the latest read
    searchTimer,\* the query that waits for its debounce, or NoTimer
    confirm,    \* the dialog that is open, or NoConfirm
    (* Calls that were not answered yet *)
    reads,      \* [gen, kind, source, query, answered, rows]; kind is
                \* "load" or "search"
    saves,      \* [source, rows, act, written]
    checking,   \* a validation: [call, errors], call is "idle", "running"
                \* or "done"
    preview,    \* an import preview is under way
    (* History *)
    shown,      \* the generation of the read whose rows are in the table
    current,    \* the table holds all rows of the file, as they are now
    wanted,     \* for each source: the rows the user asked for, as a bag
    mishaps,    \* what happened that no handler guards against
    (* Bounds *)
    acts, faults

store == <<source, query, allRows, tableDirty, loading, searching, view,
           validation, editor>>
calls == <<reads, saves, checking, preview>>
history == <<shown, current, wanted, mishaps>>
vars == <<file, store, generation, searchTimer, confirm, calls, history,
          acts, faults>>

NoTimer == "none"
RowOf(src, topic) == [of |-> src, topic |-> topic, text |-> 0]
NoRow == [of |-> "none", topic |-> Blank, text |-> 0]
NoConfirm == [what |-> "none", index |-> 0, row |-> NoRow,
              inEditor |-> FALSE]
NoEditor == [open |-> FALSE, isNew |-> FALSE, rowIndex |-> 0,
             draft |-> NoRow, original |-> NoRow, asked |-> NoRow]
NoReport == [checked |-> FALSE, errors |-> {}]
Idle == [call |-> "idle", errors |-> {}]
PlainView == [sort |-> "none", filtered |-> FALSE, offset |-> 0]
RowsOf(src, topics) == [i \in DOMAIN topics |-> RowOf(src, topics[i])]

-----------------------------------------------------------------------------
(* What the backend answers                                                *)

Hits(rows) == {i \in DOMAIN rows : rows[i].topic \in Matching}

(* The k-th position of a set of positions.                                *)
Nth(positions, k) == CHOOSE i \in positions :
    (\E j \in positions : Cardinality({h \in positions : h <= j}) = k)
        => Cardinality({h \in positions : h <= i}) = k

(* search_rows: the rows the query is found in, in file order.             *)
SearchRows(rows, q) ==
    IF q = "" THEN rows
    ELSE [k \in 1..Cardinality(Hits(rows)) |-> rows[Nth(Hits(rows), k)]]

(* page_rows: an answer has at most PageCap rows.                          *)
Page(rows) ==
    [i \in 1..(IF Len(rows) > PageCap THEN PageCap ELSE Len(rows))
        |-> rows[i]]

(* validate_knowledge_csv.py reads the file, not the table.                *)
Errors(rows) ==
    {i \in DOMAIN rows : rows[i].topic \in Invalid /\ rows[i].text = 0}

-----------------------------------------------------------------------------
(* What of the table is visible                                            *)

(* filterRows                                                              *)
Kept == {i \in DOMAIN allRows :
            view.filtered => allRows[i].topic \in Chosen}

(* sortRows: ascending or descending, empty cells last in both.            *)
Before(a, b) ==
    /\ a # Blank
    /\ \/ b = Blank
       \/ view.sort = "asc" /\ Rank[a] < Rank[b]
       \/ view.sort = "desc" /\ Rank[b] < Rank[a]

(* The sort is stable: rows it does not tell apart stay in table order.    *)
Precedes(i, j) ==
    IF view.sort = "none" THEN i < j
    ELSE \/ Before(allRows[i].topic, allRows[j].topic)
         \/ i < j /\ ~Before(allRows[j].topic, allRows[i].topic)

(* visible, as places in allRows: filtered, then sorted, then the window   *)
(* cut out (windowSlice).                                                  *)
InPlace(k, i) ==
    Cardinality({j \in Kept : Precedes(j, i)}) + 1 = view.offset + k
Visible == [k \in {n \in 1..WindowSize : \E i \in Kept : InPlace(n, i)} |->
               CHOOSE i \in Kept : InPlace(k, i)]

-----------------------------------------------------------------------------
(* Steps that several handlers take                                        *)

(* Mutant: the generation is passed on but not counted.                    *)
ReadMutant(kind, src, q) ==
    /\ UNCHANGED generation
    /\ reads' = reads \cup
           {[gen |-> generation + 1, kind |-> kind, source |-> src,
             query |-> q, answered |-> FALSE, rows |-> <<>>]}

(* The request load_csv or search_csv; it becomes the latest one.          *)
Read(kind, src, q) ==
    /\ generation' = generation + 1
    /\ reads' = reads \cup
           {[gen |-> generation + 1, kind |-> kind, source |-> src,
             query |-> q, answered |-> FALSE, rows |-> <<>>]}

(* reload                                                                  *)
Reload(src) == Read("load", src, "") /\ loading' = TRUE

(* closeEditor: if it was open the gallery is mounted, which loads.        *)
CloseEditor ==
    /\ editor' = NoEditor
    /\ IF editor.open THEN Reload(source)
       ELSE UNCHANGED <<generation, reads, loading>>

(* The row a table index stands for; past the end, empty cells.            *)
RowAt(i) == IF i \in DOMAIN allRows THEN allRows[i]
            ELSE RowOf(source, Blank)

(* The row the gallery shows at place i, which is the one a user means who *)
(* points there; where nothing is shown they take what the editor shows.   *)
RowShown(i) == IF i \in DOMAIN Visible THEN allRows[Visible[i]] ELSE RowAt(i)

(* The gallery passes on the place in visible, the handlers take it as the *)
(* index in allRows.                                                       *)
Aim(asked, i) == mishaps' = mishaps \cup (IF asked = RowAt(i) THEN {}
                                          ELSE {"misaimed"})

(* The window goes back to the first rows; filters and sort stay.          *)
FirstWindow == view' = [view EXCEPT !.offset = 0]

(* clearValidation                                                         *)
ClearValidation == validation' = NoReport

(* The editor holds an index into the table.                               *)
Points == editor.open /\ ~editor.isNew

(* applyPage replaces the table, whatever is unsaved or points into it.    *)
ApplyPage(rows) ==
    /\ allRows' = rows /\ FirstWindow
    /\ loading' = FALSE /\ searching' = FALSE
    /\ mishaps' = mishaps
         \cup (IF tableDirty /\ ToBag(rows) # ToBag(allRows)
               THEN {"discarded"} ELSE {})
         \cup (IF Points \/ confirm.what = "delete"
               THEN {"drift"} ELSE {})

(* The user acts: with the keyboard at any time, with the pointer only     *)
(* while no dialog covers the window.                                      *)
Act(operation) == /\ operation \in UserOps
                  /\ acts < MaxActs /\ acts' = acts + 1
Pointer == confirm = NoConfirm
Gallery == ~editor.open

-----------------------------------------------------------------------------
Init ==
    /\ file = [s \in Sources |->
                 RowsOf(s, IF s = "knowledge" THEN KnowledgeBase
                           ELSE TopicList)]
    /\ source = "knowledge" /\ query = ""
    /\ allRows = <<>> /\ tableDirty = FALSE
    /\ loading = TRUE /\ searching = FALSE
    /\ view = PlainView /\ validation = NoReport
    /\ editor = NoEditor
    /\ generation = 1
    /\ searchTimer = NoTimer /\ confirm = NoConfirm
    /\ reads = {[gen |-> 1, kind |-> "load", source |-> "knowledge",
                 query |-> "", answered |-> FALSE, rows |-> <<>>]}
    /\ saves = {} /\ checking = Idle /\ preview = FALSE
    /\ shown = 0 /\ current = FALSE
    /\ wanted = [s \in Sources |-> ToBag(file[s])]
    /\ mishaps = {}
    /\ acts = 0 /\ faults = 0

(* The user leaves the workbench and comes back: the gallery is mounted.   *)
Reopen ==
    /\ Act("reopen") /\ Gallery
    /\ Reload(source)
    /\ UNCHANGED <<file, source, query, allRows, tableDirty, searching, view,
                   validation, editor, searchTimer, confirm, saves,
                   checking, preview, history, faults>>

(* Mutant: the rows of the other source stay in the table.                 *)
SetSourceMutant(s) ==
    /\ Act("source") /\ Gallery /\ Pointer
    /\ s # source
    /\ source' = s /\ query' = "" /\ tableDirty' = FALSE
    /\ current' = FALSE
    /\ view' = PlainView /\ ClearValidation
    /\ Reload(s)
    /\ UNCHANGED <<file, allRows, searching, editor, searchTimer, confirm,
                   saves, checking, preview, shown, wanted, mishaps, faults>>

(* setSource: another source empties the table, the same one only loads.   *)
SetSource(s) ==
    /\ Act("source") /\ Gallery /\ Pointer
    /\ IF s = source
       THEN UNCHANGED <<source, query, allRows, tableDirty, view, current,
                        mishaps>>
       ELSE /\ source' = s /\ query' = "" /\ allRows' = <<>>
            /\ tableDirty' = FALSE /\ view' = PlainView /\ current' = FALSE
            /\ mishaps' = IF tableDirty THEN mishaps \cup {"discarded"}
                          ELSE mishaps
    /\ ClearValidation
    /\ Reload(s)
    /\ UNCHANGED <<file, searching, editor, searchTimer, confirm, saves,
                   checking, preview, shown, wanted, faults>>

(* onSearch: the query is set at once, the search waits for its debounce.  *)
OnSearch(q) ==
    /\ Act("search") /\ Gallery /\ Pointer
    /\ q # query
    /\ query' = q /\ searchTimer' = q /\ FirstWindow
    /\ UNCHANGED <<file, source, allRows, tableDirty, loading, searching,
                   validation, editor, generation, confirm, calls, history,
                   faults>>

(* The empty state's "Clear search" sets the query and searches nothing.   *)
ClearSearch ==
    /\ Act("search") /\ Gallery /\ Pointer
    /\ ~loading /\ DOMAIN Visible = {} /\ query # ""
    /\ query' = "" /\ FirstWindow
    /\ UNCHANGED <<file, source, allRows, tableDirty, loading, searching,
                   validation, editor, generation, searchTimer, confirm,
                   calls, history, faults>>

(* The debounce ends: runSearch, unless the query is another one by now.   *)
RunSearch ==
    /\ searchTimer # NoTimer
    /\ searchTimer' = NoTimer
    /\ IF searchTimer = query
       THEN Read("search", source, query) /\ searching' = TRUE
       ELSE UNCHANGED <<generation, reads, searching>>
    /\ UNCHANGED <<file, source, query, allRows, tableDirty, loading, view,
                   validation, editor, confirm, saves, checking, preview,
                   history, acts, faults>>

(* The backend reads the file.                                             *)
ReadFile(r) ==
    /\ ~r.answered
    /\ reads' = (reads \ {r}) \cup
           {[r EXCEPT !.answered = TRUE,
                      !.rows = Page(SearchRows(file[r.source], r.query))]}
    /\ UNCHANGED <<file, store, generation, searchTimer, confirm, saves,
                   checking, preview, history, acts, faults>>

(* Mutant: answers are applied in the order they arrive.                   *)
SupersededMutant(r) == FALSE

(* An answer is dropped when a later read was started.                     *)
Superseded(r) == r.gen # generation

(* Mutant: the answer of a search does not end the load it replaced.       *)
AppliedMutant(r) ==
    /\ allRows' = r.rows
    /\ searching' = FALSE
    /\ loading' = IF r.kind = "search" THEN loading ELSE FALSE
    /\ current' = FALSE
    /\ shown' = r.gen
    /\ validation' = IF r.kind = "search" THEN NoReport ELSE validation
    /\ UNCHANGED <<view, mishaps>>

(* The rows of the latest read become the table.                           *)
Applied(r) ==
    /\ ApplyPage(r.rows)
    /\ current' = (/\ r.rows = file[r.source]
                   /\ \A s \in saves : s.source = r.source => s.written)
    /\ shown' = r.gen
    /\ validation' = IF r.kind = "search" THEN NoReport ELSE validation

Receive(r) ==
    /\ r.answered
    /\ reads' = reads \ {r}
    /\ IF Superseded(r)
       THEN UNCHANGED <<allRows, loading, searching, view, validation,
                        shown, current, mishaps>>
       ELSE Applied(r)
    /\ UNCHANGED <<file, source, query, tableDirty, editor, generation,
                   searchTimer, confirm, saves, checking, preview, wanted,
                   acts, faults>>

(* A read answers an error: a load and a search each end their own flag.   *)
ReadFails(r) ==
    /\ faults < MaxFaults /\ faults' = faults + 1
    /\ ~r.answered
    /\ reads' = reads \ {r}
    /\ IF Superseded(r) THEN UNCHANGED <<loading, searching>>
       ELSE IF r.kind = "load"
            THEN loading' = FALSE /\ UNCHANGED searching
            ELSE searching' = FALSE /\ UNCHANGED loading
    /\ UNCHANGED <<file, source, query, allRows, tableDirty, view, validation,
                   editor, generation, searchTimer, confirm, saves, checking,
                   preview, history, acts>>

-----------------------------------------------------------------------------
(* What is visible                                                         *)

ViewUnchanged == <<file, source, query, allRows, tableDirty, loading,
                   searching, validation, editor, generation, searchTimer,
                   confirm, calls, history, faults>>

Toggled == [none |-> "asc", asc |-> "desc", desc |-> "none"]

(* toggleSort, on a column header of the grid: ascending, descending, none.*)
ToggleSort ==
    /\ Act("view") /\ Gallery /\ Pointer
    /\ ~loading /\ DOMAIN Visible # {}
    /\ view' = [view EXCEPT !.sort = Toggled[@], !.offset = 0]
    /\ UNCHANGED ViewUnchanged

(* setCategory, by a chip of a category in the table or by "All".          *)
SetCategory ==
    /\ Act("view") /\ Gallery /\ Pointer
    /\ \/ view.filtered
       \/ \E i \in DOMAIN allRows : allRows[i].topic \in Chosen
    /\ view' = [view EXCEPT !.filtered = ~@, !.offset = 0]
    /\ UNCHANGED ViewUnchanged

(* jumpToRow, from a row of the report: the window its index falls in.     *)
JumpToRow(i) ==
    /\ Act("view") /\ Gallery /\ Pointer /\ query = ""
    /\ view' = [view EXCEPT !.offset = ((i - 1) \div WindowSize) * WindowSize]
    /\ UNCHANGED ViewUnchanged

-----------------------------------------------------------------------------
(* The row editor                                                          *)

EditorUnchanged == <<file, source, query, allRows, tableDirty, loading,
                     searching, view, validation, generation, searchTimer,
                     confirm, calls, shown, current, wanted, faults>>

(* openEditor: from the grid, or with the shortcut for the selected place, *)
(* also while a row is edited, dropping its draft.                         *)
OpenEditor(i) ==
    /\ Act("edit")
    /\ editor' = [open |-> TRUE, isNew |-> FALSE, rowIndex |-> i,
                  draft |-> RowAt(i), original |-> RowAt(i),
                  asked |-> RowShown(i)]
    /\ Aim(RowShown(i), i)
    /\ UNCHANGED EditorUnchanged

(* next and prev of the editor, also of one whose table became shorter.    *)
TurnTo(i) ==
    /\ Act("edit") /\ Pointer /\ Points
    /\ i # editor.rowIndex
    /\ editor' = [open |-> TRUE, isNew |-> FALSE, rowIndex |-> i,
                  draft |-> RowAt(i), original |-> RowAt(i),
                  asked |-> RowAt(i)]
    /\ UNCHANGED <<EditorUnchanged, mishaps>>
NextIndex == IF editor.rowIndex < Len(allRows) THEN editor.rowIndex + 1
              ELSE Len(allRows)
PrevIndex == IF editor.rowIndex > 1 THEN editor.rowIndex - 1 ELSE 1

(* "Add row" opens the editor on a copy of the first row.                  *)
NewRow ==
    /\ Act("new") /\ Gallery /\ Pointer /\ source = "knowledge"
    /\ editor' = [open |-> TRUE, isNew |-> TRUE, rowIndex |-> 0,
                  draft |-> RowAt(1), original |-> RowAt(1), asked |-> NoRow]
    /\ UNCHANGED <<EditorUnchanged, mishaps>>

(* duplicateRow: the draft is a copy of the row in the table.              *)
DuplicateRow ==
    /\ Act("duplicate") /\ editor.open
    /\ LET i == IF editor.isNew THEN 1 ELSE editor.rowIndex IN
          /\ Pointer \/ i \in DOMAIN allRows
          /\ editor' = [open |-> TRUE, isNew |-> TRUE, rowIndex |-> 0,
                        draft |-> RowAt(i), original |-> NoRow,
                        asked |-> NoRow]
    /\ UNCHANGED <<EditorUnchanged, mishaps>>

(* updateDraft                                                             *)
UpdateDraft ==
    /\ Act("type") /\ editor.open /\ Pointer
    /\ editor' = [editor EXCEPT !.draft.text = acts + 1]
    /\ UNCHANGED <<EditorUnchanged, mishaps>>

(* Mutant: the row after the one that was edited is replaced.              *)
CommittedMutant ==
    IF editor.isNew THEN Append(allRows, editor.draft)
    ELSE [i \in DOMAIN allRows |->
             IF i = editor.rowIndex + 1 THEN editor.draft ELSE allRows[i]]

(* commitDraft: a new row is appended, an edited one replaced by index.    *)
Committed ==
    IF editor.isNew THEN Append(allRows, editor.draft)
    ELSE [i \in DOMAIN allRows |->
             IF i = editor.rowIndex THEN editor.draft ELSE allRows[i]]

(* save: the rows and the file they go to are those of this moment.        *)
StartSave(rows) ==
    /\ saves' = saves \cup {[source |-> source, rows |-> rows,
                             act |-> acts + 1, written |-> FALSE]}
    /\ mishaps' = mishaps \cup (IF current THEN {} ELSE {"partial"})
                          \cup (IF saves = {} THEN {} ELSE {"overlap"})
                          \cup (IF Points /\ confirm.what = "delete"
                                THEN {"drift"} ELSE {})

(* commitAndSave: the commit closes the editor, so the gallery loads the   *)
(* table while it is being saved.                                          *)
CommitAndSave ==
    /\ Act("save") /\ editor.open
    /\ allRows' = Committed
    /\ tableDirty' = TRUE
    /\ ClearValidation
    /\ CloseEditor
    /\ StartSave(Committed)
    /\ wanted' = [wanted EXCEPT ![source] =
           (IF editor.isNew THEN @ ELSE @ (-) SetToBag({editor.asked}))
               (+) SetToBag({editor.draft})]
    /\ UNCHANGED <<file, source, query, searching, view, searchTimer, confirm,
                   checking, preview, shown, current, faults>>

(* save, from the gallery: blocked without changes and on known errors.    *)
Save ==
    /\ Act("save") /\ Gallery
    /\ tableDirty /\ validation.errors = {}
    /\ StartSave(allRows)
    /\ UNCHANGED <<file, store, generation, searchTimer, confirm, reads,
                   checking, preview, shown, current, wanted, faults>>

(* save_csv writes the whole file.                                         *)
WriteFile(s) ==
    /\ ~s.written
    /\ file' = [file EXCEPT ![s.source] = s.rows]
    /\ saves' = (saves \ {s}) \cup {[s EXCEPT !.written = TRUE]}
    /\ UNCHANGED <<store, generation, searchTimer, confirm, reads, checking,
                   preview, history, acts, faults>>

(* markSaved: the table is clean, whatever was edited since, and an editor *)
(* that was opened since is closed.                                        *)
SaveOk(s) ==
    /\ s.written
    /\ saves' = saves \ {s}
    /\ tableDirty' = FALSE
    /\ CloseEditor
    /\ mishaps' = IF tableDirty /\ (\/ s.source # source
                                    \/ ToBag(s.rows) # ToBag(allRows))
                  THEN mishaps \cup {"busy"} ELSE mishaps
    /\ UNCHANGED <<file, source, query, allRows, searching, view, validation,
                   searchTimer, confirm, checking, preview, shown, current,
                   wanted, acts, faults>>

SaveFails(s) ==
    /\ faults < MaxFaults /\ faults' = faults + 1
    /\ ~s.written
    /\ saves' = saves \ {s}
    /\ UNCHANGED <<file, store, generation, searchTimer, confirm, reads,
                   checking, preview, history, acts>>

-----------------------------------------------------------------------------
(* Dialogs                                                                 *)

ConfirmUnchanged == <<file, source, query, allRows, tableDirty, searching,
                      view, validation, searchTimer, saves, checking, preview,
                      shown, current, wanted, faults>>

(* requestDelete: the dialog asks about the row of that index, from the    *)
(* grid for the row shown at a place, from the editor for the one it has.  *)
AskToDelete(asked, i) ==
    /\ confirm' = [what |-> "delete", index |-> i, row |-> asked,
                   inEditor |-> editor.open]
    /\ Aim(asked, i)

RequestDelete(i) ==
    /\ Act("delete") /\ Pointer
    /\ \/ /\ Gallery /\ ~loading /\ i \in DOMAIN Visible
          /\ AskToDelete(RowShown(i), i)
       \/ Points /\ i = editor.rowIndex /\ AskToDelete(RowAt(i), i)
    /\ UNCHANGED <<ConfirmUnchanged, loading, editor, generation, reads>>

(* discard: a dirty draft is only dropped after a dialog.                  *)
Discard ==
    /\ Act("cancel") /\ Pointer /\ editor.open
    /\ IF editor.draft # editor.original
       THEN /\ confirm' = [what |-> "discard", index |-> 0, row |-> NoRow,
                           inEditor |-> TRUE]
            /\ UNCHANGED <<loading, editor, generation, reads>>
       ELSE CloseEditor /\ UNCHANGED confirm
    /\ UNCHANGED <<ConfirmUnchanged, mishaps>>

(* deleteRow, by index; nothing is at an index past the end.               *)
Deleted(i) ==
    IF i \in DOMAIN allRows
    THEN SubSeq(allRows, 1, i - 1) \o SubSeq(allRows, i + 1, Len(allRows))
    ELSE allRows

(* The answer to requestDelete; the editor's own handler then closes the   *)
(* editor, also when the user said no.                                     *)
AnswerDelete(ok) ==
    /\ confirm.what = "delete"
    /\ confirm' = NoConfirm
    /\ IF ok
       THEN /\ allRows' = Deleted(confirm.index)
            /\ tableDirty' = TRUE
            /\ ClearValidation
            /\ wanted' = [wanted EXCEPT ![source] =
                             @ (-) SetToBag({confirm.row})]
            /\ mishaps' = mishaps
                 \cup (IF current THEN {} ELSE {"partial"})
                 \cup (IF Points /\ ~confirm.inEditor THEN {"drift"} ELSE {})
       ELSE UNCHANGED <<allRows, tableDirty, validation, wanted, mishaps>>
    /\ IF confirm.inEditor /\ ~editor.isNew THEN CloseEditor
       ELSE UNCHANGED <<editor, generation, reads, loading>>
    /\ UNCHANGED <<file, source, query, searching, view, searchTimer, saves,
                   checking, preview, shown, current, acts, faults>>

AnswerDiscard(ok) ==
    /\ confirm.what = "discard"
    /\ confirm' = NoConfirm
    /\ IF ok THEN CloseEditor
       ELSE UNCHANGED <<editor, generation, reads, loading>>
    /\ UNCHANGED <<ConfirmUnchanged, mishaps, acts>>

(* import: the user picks a file and its preview is read ...               *)
PickImport ==
    /\ Act("import") /\ Gallery /\ Pointer /\ source = "knowledge"
    /\ ~preview /\ preview' = TRUE
    /\ UNCHANGED <<file, store, generation, searchTimer, confirm, reads,
                   saves, checking, history, faults>>

(* ... its columns are compared with those of the table shown by then, and *)
(* a dialog asks, in place of one that may be open ...                     *)
Previewed ==
    /\ preview /\ preview' = FALSE
    /\ confirm' = IF source = "knowledge"
                  THEN [what |-> "import", index |-> 0, row |-> NoRow,
                        inEditor |-> FALSE]
                  ELSE confirm
    /\ UNCHANGED <<file, store, generation, searchTimer, reads, saves,
                   checking, history, acts, faults>>

(* (the file cannot be read, or is no knowledge base)                      *)
PreviewFails ==
    /\ faults < MaxFaults /\ faults' = faults + 1
    /\ preview /\ preview' = FALSE
    /\ UNCHANGED <<file, store, generation, searchTimer, confirm, reads,
                   saves, checking, history, acts>>

(* ... and its rows become the table, unsaved.                             *)
AnswerImport(ok) ==
    /\ confirm.what = "import"
    /\ confirm' = NoConfirm
    /\ IF ok
       THEN LET rows == RowsOf("knowledge", ImportedFile) IN
            /\ allRows' = rows
            /\ loading' = FALSE /\ searching' = FALSE
            /\ tableDirty' = TRUE
            /\ FirstWindow /\ ClearValidation
            /\ current' = TRUE
            /\ wanted' = [wanted EXCEPT !["knowledge"] = ToBag(rows)]
            /\ mishaps' = IF Points THEN mishaps \cup {"drift"}
                          ELSE mishaps
       ELSE UNCHANGED <<allRows, loading, searching, tableDirty, view,
                        validation, current, wanted, mishaps>>
    /\ UNCHANGED <<file, source, query, editor, generation, searchTimer,
                   calls, shown, acts, faults>>

-----------------------------------------------------------------------------
(* Validation                                                              *)

ValidateAll ==
    /\ Act("validate") /\ Gallery /\ Pointer /\ source = "knowledge"
    /\ checking = Idle /\ checking' = [Idle EXCEPT !.call = "running"]
    /\ UNCHANGED <<file, store, generation, searchTimer, confirm, reads,
                   saves, preview, history, faults>>

RunValidator ==
    /\ checking.call = "running"
    /\ checking' = [call |-> "done", errors |-> Errors(file["knowledge"])]
    /\ UNCHANGED <<file, store, generation, searchTimer, confirm, reads,
                   saves, preview, history, acts, faults>>

(* The report is applied whenever it comes, whatever the table is by then. *)
ApplyValidation ==
    /\ checking.call = "done" /\ checking' = Idle
    /\ validation' = [checked |-> TRUE, errors |-> checking.errors]
    /\ UNCHANGED <<file, source, query, allRows, tableDirty, loading,
                   searching, view, editor, generation, searchTimer, confirm,
                   reads, saves, preview, history, acts, faults>>

ValidatorFails ==
    /\ faults < MaxFaults /\ faults' = faults + 1
    /\ checking.call = "running" /\ checking' = Idle
    /\ UNCHANGED <<file, store, generation, searchTimer, confirm, reads,
                   saves, preview, history, acts>>

(* The user closes the report.                                             *)
DismissReport ==
    /\ Act("validate") /\ Gallery /\ Pointer /\ validation.checked
    /\ ClearValidation
    /\ UNCHANGED <<file, source, query, allRows, tableDirty, loading,
                   searching, view, editor, generation, searchTimer, confirm,
                   calls, history, faults>>

-----------------------------------------------------------------------------
UserActs ==
    \/ Reopen \/ ClearSearch \/ NewRow \/ DuplicateRow \/ UpdateDraft
    \/ CommitAndSave \/ Save \/ Discard \/ PickImport \/ ValidateAll
    \/ DismissReport \/ ToggleSort \/ SetCategory
    \/ TurnTo(NextIndex) \/ TurnTo(PrevIndex)
    \/ \E i \in validation.errors : JumpToRow(i)
    \/ \E s \in Sources : SetSource(s)
    \/ \E q \in Queries : OnSearch(q)
    \/ \E i \in DOMAIN allRows : OpenEditor(i)
    \/ \E i \in (DOMAIN allRows) \cup {editor.rowIndex} : RequestDelete(i)

UserAnswers == \E ok \in BOOLEAN :
    AnswerDelete(ok) \/ AnswerDiscard(ok) \/ AnswerImport(ok)

(* What happens without the user: the timer, the backend, its answers.     *)
Answer(r) == ReadFile(r) \/ Receive(r)
System ==
    \/ RunSearch \/ RunValidator \/ ApplyValidation \/ Previewed
    \/ \E r \in reads : Answer(r)
    \/ \E s \in saves : WriteFile(s) \/ SaveOk(s)

Failures ==
    \/ PreviewFails \/ ValidatorFails
    \/ \E r \in reads : ReadFails(r)
    \/ \E s \in saves : SaveFails(s)

Next == UserActs \/ UserAnswers \/ System \/ Failures

Spec == Init /\ [][Next]_vars

(* The event loop and the backend go on by themselves, the user need not.  *)
FairSpec == Spec /\ WF_vars(System)

-----------------------------------------------------------------------------
(* Properties                                                              *)

Editors == [open : BOOLEAN, isNew : BOOLEAN, rowIndex : Nat,
            draft : Row \cup {NoRow}, original : Row \cup {NoRow},
            asked : Row \cup {NoRow}]
Views == [sort : {"none", "asc", "desc"}, filtered : BOOLEAN, offset : Nat]
Reports == [checked : BOOLEAN, errors : SUBSET (Nat \ {0})]
Checks == [call : {"idle", "running", "done"}, errors : SUBSET (Nat \ {0})]
Dialogs == [what : {"none", "delete", "discard", "import"}, index : Nat,
            row : Row \cup {NoRow}, inEditor : BOOLEAN]
ReadCalls == [gen : Nat, kind : {"load", "search"}, source : Sources,
              query : Queries, answered : BOOLEAN, rows : Seq(Row)]
SaveCalls == [source : Sources, rows : Seq(Row), act : Nat,
              written : BOOLEAN]
Mishaps == {"partial", "discarded", "drift", "busy", "overlap", "misaimed"}

StoreOK ==
    /\ source \in Sources /\ query \in Queries
    /\ allRows \in Seq(Row)
    /\ tableDirty \in BOOLEAN /\ loading \in BOOLEAN
    /\ searching \in BOOLEAN
    /\ view \in Views /\ validation \in Reports
    /\ editor \in Editors
    /\ editor.open => editor.draft \in Row

ReadsOK ==
    /\ generation \in Nat /\ shown \in 0..generation
    /\ reads \subseteq ReadCalls
    /\ \A r \in reads : r.gen <= generation

CallsOK ==
    /\ file \in [Sources -> Seq(Row)]
    /\ saves \subseteq SaveCalls
    /\ searchTimer \in Queries \cup {NoTimer}
    /\ confirm \in Dialogs
    /\ checking \in Checks
    /\ preview \in BOOLEAN

HistoryOK ==
    /\ current \in BOOLEAN
    /\ DOMAIN wanted = Sources
    /\ mishaps \subseteq Mishaps
    /\ acts \in 0..MaxActs /\ faults \in 0..MaxFaults

(* Every variable keeps its shape, and the latest read has the highest     *)
(* generation.                                                             *)
TypeOK == StoreOK /\ ReadsOK /\ CallsOK /\ HistoryOK

(* Answers arrive in any order, the table never goes back to an older one. *)
ShownNeverOlder == [][shown' >= shown]_vars

(* However fast the user changes between the sources, and however late     *)
(* their rows arrive: no row of one file is ever saved into the other.     *)
RowsStayInTheirFile ==
    \A s \in Sources : \A i \in DOMAIN file[s] : file[s][i].of = s

(* Six things can lose work: changing or saving a table that is not the    *)
(* whole file as it is, a load that replaces unsaved rows, rows replaced   *)
(* under an open editor or dialog, an edit while a save is under way, two  *)
(* saves at a time, and a place in a sorted, filtered or moved view, where *)
(* the table has another row.  While none of them happened, a table that   *)
(* is unsaved or current has the rows the user asked for, whatever calls   *)
(* are under way, and every file has them but the one yet to be saved.     *)
AskedForIsKept == mishaps = {} =>
    /\ tableDirty \/ current => ToBag(allRows) = wanted[source]
    /\ \A s \in Sources : \/ s = source /\ tableDirty
                          \/ ToBag(file[s]) = wanted[s]

(* "Loading..." gives way to the table, unless a call answered an error.   *)
LoadingEnds == []<>(~loading \/ faults > 0)

(* A row that was in the knowledge base, and that the user did not delete  *)
(* or replace by an import, stays in the file.                             *)
UnaskedRowsStay ==
    \A row \in DOMAIN wanted["knowledge"] :
        row.topic \in ToSetOf(KnowledgeBase) =>
            \E i \in DOMAIN file["knowledge"] :
                file["knowledge"][i].topic = row.topic
=============================================================================
