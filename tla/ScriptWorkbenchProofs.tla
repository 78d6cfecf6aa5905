----------------------- MODULE ScriptWorkbenchProofs -----------------------
(***************************************************************************)
(* What holds of ScriptWorkbench for any files, queries, bounds and any    *)
(* order of answers.                                                       *)
(*                                                                         *)
(* Typing is the type invariant and TableNeverOlder the ordering of the    *)
(* answers.  SeparateFiles says that the two files never mix.  It is not   *)
(* inductive: Apart adds that the table, the draft and every call under    *)
(* way hold rows of their own source only, that the latest read asks for   *)
(* the source that is shown, and that an import is only confirmed while    *)
(* the knowledge base is.                                                  *)
(*                                                                         *)
(* WorkIsKept says that nothing the user did is lost but by one of the     *)
(* six mishaps.  Followed adds to it that at most one save is under way    *)
(* and that it is one of the unsaved table on the screen, IndexesHold that *)
(* the editor and the dialog name the row that is at their index: a        *)
(* commit and a delete then do to the table, as a bag of rows, what the    *)
(* user asked for.                                                         *)
(***************************************************************************)
EXTENDS ScriptWorkbench, FiniteSetTheorems, FunctionTheorems,
        SequenceTheorems, TLAPS

-----------------------------------------------------------------------------
(* Tables                                                                  *)

(* The positions the query is found at are finitely many.                  *)
LEMMA HitsFinite ==
    ASSUME NEW R, NEW rows \in Seq(R)
    PROVE  IsFiniteSet(Hits(rows)) /\ Cardinality(Hits(rows)) \in Nat
<1>1. Hits(rows) \subseteq 1..Len(rows)
  BY DEF Hits
<1>2. IsFiniteSet(1..Len(rows))
  BY FS_Interval
<1> QED BY <1>1, <1>2, FS_Subset, FS_CardinalityType

(* A search answers rows of the table it searched.                         *)
LEMMA SearchTyping ==
    ASSUME NEW R, NEW rows \in Seq(R), NEW q
    PROVE  SearchRows(rows, q) \in Seq(R)
<1>1. CASE q = ""
  BY <1>1 DEF SearchRows
<1>2. CASE q # ""
  <2> DEFINE n == Cardinality(Hits(rows))
  <2>1. n \in Nat
    BY HitsFinite
  <2>2. ASSUME NEW k \in 1..n PROVE rows[Nth(Hits(rows), k)] \in R
    <3>1. Hits(rows) # {}
      <4>1. Cardinality({}) = 0
        BY FS_EmptySet
      <4>2. n # 0
        BY <2>1, <2>2
      <4> QED BY <4>1, <4>2
    <3>2. Nth(Hits(rows), k) \in Hits(rows)
      <4> DEFINE At(i) == Cardinality({h \in Hits(rows) : h <= i}) = k
      <4>1. \E i \in Hits(rows) : (\E j \in Hits(rows) : At(j)) => At(i)
        BY <3>1, Zenon
      <4> QED BY <4>1, Zenon DEF Nth
    <3>3. Hits(rows) \subseteq 1..Len(rows)
      BY DEF Hits
    <3> QED BY <3>2, <3>3
  <2>3. SearchRows(rows, q) = [k \in 1..n |-> rows[Nth(Hits(rows), k)]]
    BY <1>2 DEF SearchRows
  <2> HIDE DEF n
  <2> QED BY <2>1, <2>2, <2>3
<1> QED BY <1>1, <1>2

(* So does a page of it.                                                   *)
LEMMA PageTyping ==
    ASSUME NEW R, NEW rows \in Seq(R)
    PROVE  Page(rows) \in Seq(R)
BY ConstantsAssumption DEF Page

(* Removing a row, by any index, leaves rows of the table.                 *)
LEMMA DeletedTyping ==
    ASSUME NEW R, allRows \in Seq(R), NEW i \in Nat
    PROVE  Deleted(i) \in Seq(R)
BY DEF Deleted

(* So does committing a draft that is such a row.                          *)
LEMMA CommittedTyping ==
    ASSUME NEW R, allRows \in Seq(R), editor.draft \in R
    PROVE  Committed \in Seq(R)
BY DEF Committed

(* The rows of a source that have not been edited.                         *)
RowsFrom(src) == [of : {src}, topic : Topics, text : 0..MaxActs]

(* Delivered topics are rows of their source.                              *)
LEMMA RowsOfTyping ==
    ASSUME NEW src \in Sources, NEW topics \in Seq(Topics)
    PROVE  RowsOf(src, topics) \in Seq(RowsFrom(src))
<1>1. MaxActs \in Nat
  BY ConstantsAssumption
<1>2. \A i \in 1..Len(topics) : topics[i] \in Topics
  OBVIOUS
<1>3. \A t \in Topics : RowOf(src, t) \in RowsFrom(src)
  BY <1>1 DEF RowOf, RowsFrom
<1> QED BY <1>2, <1>3 DEF RowsOf

(* Rows of a source are rows.                                              *)
LEMMA RowsFromRows ==
    ASSUME NEW src \in Sources, NEW rows \in Seq(RowsFrom(src))
    PROVE  rows \in Seq(Row)
<1>1. RowsFrom(src) \subseteq Row
  BY DEF RowsFrom, Row
<1> QED BY <1>1, SeqMonotonic

(* The row an index stands for is one of the table or an empty one.        *)
LEMMA RowAtTyping ==
    ASSUME NEW i, source \in Sources, allRows \in Seq(RowsFrom(source))
    PROVE  RowAt(i) \in RowsFrom(source)
<1>1. RowOf(source, Blank) \in RowsFrom(source)
  BY ConstantsAssumption DEF RowOf, RowsFrom, Topics
<1> QED BY <1>1 DEF RowAt

-----------------------------------------------------------------------------
(* Type correctness                                                        *)

(* The type invariant holds in every initial state.                        *)
LEMMA FirstState == Init => TypeOK
<1> SUFFICES ASSUME Init PROVE TypeOK
  OBVIOUS
<1> USE ConstantsAssumption DEF Init
<1>1. file \in [Sources -> Seq(Row)]
  <2>1. \A s \in Sources : file[s] \in Seq(RowsFrom(s))
    BY RowsOfTyping
  <2>2. \A s \in Sources : file[s] \in Seq(Row)
    BY <2>1, RowsFromRows
  <2> QED BY <2>2
<1>2. reads \subseteq ReadCalls /\ (\A r \in reads : r.gen <= generation)
  <2> DEFINE first == [gen |-> 1, kind |-> "load", source |-> "knowledge",
                       query |-> "", answered |-> FALSE, rows |-> <<>>]
  <2>1. first \in ReadCalls /\ first.gen = 1
    BY EmptySeq DEF Sources, Queries, ReadCalls
  <2>2. reads = {first} /\ generation = 1
    OBVIOUS
  <2> HIDE DEF first
  <2> QED BY ONLY <2>1, <2>2
<1>3. /\ editor \in Editors /\ ~editor.open
      /\ view \in Views /\ validation \in Reports /\ checking \in Checks
  BY DEF NoEditor, Editors, PlainView, Views, NoReport, Reports, Idle, Checks
<1>4. confirm \in Dialogs
  BY DEF NoConfirm, Dialogs
<1>5. source \in Sources /\ query \in Queries /\ allRows \in Seq(Row)
  BY EmptySeq DEF Sources, Queries
<1>6. /\ generation \in Nat /\ shown \in 0..generation
      /\ acts \in 0..MaxActs /\ faults \in 0..MaxFaults
  <2>1. /\ generation = 1 /\ shown = 0 /\ acts = 0 /\ faults = 0
        /\ MaxActs \in Nat /\ MaxFaults \in Nat
    OBVIOUS
  <2> QED BY ONLY <2>1
<1>7. saves \subseteq SaveCalls /\ mishaps \subseteq Mishaps
  OBVIOUS
<1>8. DOMAIN wanted = Sources
  OBVIOUS
<1> QED BY <1>1, <1>2, <1>3, <1>4, <1>5, <1>6, <1>7, <1>8
    DEF TypeOK, StoreOK, ReadsOK, CallsOK, HistoryOK, NoTimer

(* A read that is started keeps the shape of the reads.                    *)
LEMMA ReadTyping ==
    ASSUME TypeOK, NEW kind \in {"load", "search"}, NEW src \in Sources,
           NEW q \in Queries, Read(kind, src, q)
    PROVE  UNCHANGED shown => ReadsOK'
<1>1. generation' = generation + 1 /\ generation \in Nat
  BY DEF TypeOK, ReadsOK, Read
<1>2. \A r \in reads : r \in ReadCalls /\ r.gen <= generation
  BY DEF TypeOK, ReadsOK
<1>3. \A r \in reads : r.gen \in Nat
  BY <1>2 DEF ReadCalls
<1>4. [gen |-> generation + 1, kind |-> kind, source |-> src, query |-> q,
       answered |-> FALSE, rows |-> <<>>] \in ReadCalls
  BY <1>1 DEF ReadCalls
<1>5. PICK r \in ReadCalls : r.gen = generation + 1 /\ reads' = reads \cup {r}
  BY <1>4 DEF Read
<1> QED BY ONLY <1>1, <1>2, <1>3, <1>5, TypeOK DEF TypeOK, ReadsOK

(* So does closing the editor, with the load it may start.                 *)
LEMMA CloseTyping ==
    ASSUME TypeOK, CloseEditor
    PROVE  /\ editor' = NoEditor /\ loading' \in BOOLEAN
           /\ UNCHANGED shown => ReadsOK'
<1>1. "" \in Queries /\ source \in Sources
  BY DEF TypeOK, StoreOK, Queries
<1>2. CASE editor.open
  BY <1>1, <1>2, ReadTyping DEF CloseEditor, Reload
<1>3. CASE ~editor.open
  BY <1>3 DEF CloseEditor, TypeOK, StoreOK, ReadsOK
<1> QED BY <1>2, <1>3

(* No editor, dialog, report or validation, and the view of the table as   *)
(* it is, are well-formed.                                                 *)
LEMMA NothingOpen ==
    /\ NoEditor \in Editors /\ ~NoEditor.open /\ NoConfirm \in Dialogs
    /\ NoReport \in Reports /\ Idle \in Checks /\ PlainView \in Views
BY DEF NoEditor, NoConfirm, NoReport, Idle, PlainView, Editors, Dialogs,
   Reports, Checks, Views

(* So is the view of the first rows.                                       *)
LEMMA FirstWindowTyping == ASSUME TypeOK, FirstWindow PROVE view' \in Views
BY DEF TypeOK, StoreOK, FirstWindow, Views

(* The row an index stands for is a row.                                   *)
LEMMA RowAtRow == ASSUME TypeOK, NEW i PROVE RowAt(i) \in Row
<1>1. RowOf(source, Blank) \in Row
  BY ConstantsAssumption DEF TypeOK, StoreOK, RowOf, Row, Topics
<1> QED BY <1>1 DEF TypeOK, StoreOK, RowAt

(* What is shown at a place of the view is a row of the table.             *)
LEMMA VisibleRows ==
    ASSUME NEW i \in DOMAIN Visible PROVE Visible[i] \in DOMAIN allRows
BY DEF Visible, Kept

LEMMA RowShownRow == ASSUME TypeOK, NEW i PROVE RowShown(i) \in Row
<1>1. CASE i \in DOMAIN Visible
  <2>1. Visible[i] \in DOMAIN allRows
    BY <1>1, VisibleRows
  <2>2. allRows[Visible[i]] \in Row
    BY <2>1 DEF TypeOK, StoreOK
  <2> QED BY <1>1, <2>2 DEF RowShown
<1>2. CASE i \notin DOMAIN Visible
  BY <1>2, RowAtRow DEF RowShown
<1> QED BY <1>1, <1>2

(* A row has as many rows before it as the table has others at most: every *)
(* place of the view is an index of the table.                             *)
LEMMA VisiblePlaces ==
    ASSUME TypeOK, NEW k \in DOMAIN Visible PROVE k \in DOMAIN allRows
<1>1. PICK n \in Nat : n = Len(allRows) /\ DOMAIN allRows = 1..n
  BY DEF TypeOK, StoreOK
<1>2. PICK i \in Kept : InPlace(k, i)
  BY DEF Visible
<1>3. k \in Nat /\ 1 <= k
  BY ConstantsAssumption DEF Visible
<1>4. i \in 1..n
  BY <1>1, <1>2 DEF Kept
<1> DEFINE before == {j \in Kept : Precedes(j, i)}
<1>5. ~Precedes(i, i)
  <2>0. allRows[i] \in Row
    BY <1>1, <1>4 DEF TypeOK, StoreOK
  <2>1. allRows[i].topic \in Topics
    BY <2>0 DEF Row
  <2>2. Rank[allRows[i].topic] \in Nat
    BY <2>1, ConstantsAssumption
  <2>3. ~Before(allRows[i].topic, allRows[i].topic)
    BY <2>2 DEF Before
  <2> QED BY <1>4, <2>3 DEF Precedes
<1>6. before \subseteq (1..n) \ {i}
  BY <1>1, <1>5 DEF Kept
<1>7. /\ IsFiniteSet((1..n) \ {i})
      /\ Cardinality((1..n) \ {i}) = n - 1
  <2>1. IsFiniteSet(1..n) /\ Cardinality(1..n) = n
    <3>1. 1 \in Int /\ n \in Int /\ ~(1 > n /\ n # 0) /\ n - 1 + 1 = n
      BY <1>1
    <3> QED BY <3>1, FS_Interval
  <2> QED BY <1>1, <1>4, <2>1, FS_RemoveElement
<1> HIDE DEF before
<1>8. PICK c \in Nat : c = Cardinality(before) /\ c <= n - 1
  <2>1. IsFiniteSet(before)
    BY <1>6, <1>7, FS_Subset, Zenon
  <2>2. Cardinality(before) <= Cardinality((1..n) \ {i})
    BY <1>6, <1>7, FS_Subset, Zenon
  <2>3. Cardinality(before) \in Nat
    BY <2>1, FS_CardinalityType
  <2> QED BY <2>2, <2>3, <1>7
<1>9. c + 1 = view.offset + k
  BY <1>2, <1>8 DEF InPlace, before
<1>10. view.offset \in Nat
  BY DEF TypeOK, StoreOK, Views
<1>11. k <= n
  BY ONLY <1>1, <1>3, <1>8, <1>9, <1>10
<1> QED BY <1>1, <1>3, <1>11

(* In the view of the whole table as it is, from its first row on, every   *)
(* place shows the row the handlers take for it: only sorting, filtering   *)
(* and jumping to a row make a click miss.                                 *)
THEOREM PlainViewAims ==
    ASSUME TypeOK, view = PlainView, NEW k
    PROVE  RowShown(k) = RowAt(k)
<1> SUFFICES ASSUME k \in DOMAIN Visible PROVE Visible[k] = k
  BY VisiblePlaces DEF RowShown, RowAt
<1>1. PICK n \in Nat : n = Len(allRows) /\ DOMAIN allRows = 1..n
  BY DEF TypeOK, StoreOK
<1>2. Kept = 1..n
  BY <1>1 DEF Kept, PlainView
<1>3. k \in Nat
  BY ConstantsAssumption DEF Visible
<1>4. ASSUME NEW i \in Kept, InPlace(k, i) PROVE i = k
  <2>1. i \in 1..n
    BY <1>2, <1>4
  <2>2. {j \in Kept : Precedes(j, i)} = 1..(i - 1)
    BY <1>1, <1>2, <2>1 DEF Precedes, PlainView
  <2>3. Cardinality(1..(i - 1)) = i - 1
    BY <2>1, FS_Interval
  <2>4. Cardinality({j \in Kept : Precedes(j, i)}) + 1 = 0 + k
    BY <1>4 DEF InPlace, PlainView
  <2>5. i - 1 + 1 = 0 + k
    BY <2>2, <2>3, <2>4
  <2> QED BY ONLY <1>1, <1>3, <2>1, <2>5
<1>5. \E i \in Kept : InPlace(k, i)
  BY DEF Visible
<1>6. Visible[k] \in Kept /\ InPlace(k, Visible[k])
  BY <1>5 DEF Visible
<1> QED BY <1>4, <1>6

(* A click may be off its row.                                             *)
LEMMA AimTyping ==
    ASSUME TypeOK, NEW asked, NEW i, Aim(asked, i)
    PROVE  mishaps' \subseteq Mishaps
BY DEF TypeOK, HistoryOK, Aim, Mishaps

(* So does a load.                                                         *)
LEMMA ReloadTyping ==
    ASSUME TypeOK, NEW src \in Sources, Reload(src)
    PROVE  loading' = TRUE /\ (UNCHANGED shown => ReadsOK')
BY ReadTyping DEF Reload, Queries

(* A save that is started keeps the shape of the saves.                    *)
LEMMA SaveTyping ==
    ASSUME TypeOK, NEW rows \in Seq(Row), StartSave(rows)
    PROVE  saves' \subseteq SaveCalls /\ mishaps' \subseteq Mishaps
<1>1. acts + 1 \in Nat /\ source \in Sources
  BY DEF TypeOK, HistoryOK, StoreOK
<1>2. [source |-> source, rows |-> rows, act |-> acts + 1, written |-> FALSE]
        \in SaveCalls
  BY <1>1 DEF SaveCalls
<1>3. saves \subseteq SaveCalls
  BY DEF TypeOK, CallsOK
<1>4. saves' \subseteq SaveCalls
  BY <1>2, <1>3 DEF StartSave
<1>5. mishaps \subseteq Mishaps
  BY DEF TypeOK, HistoryOK
<1> QED BY <1>4, <1>5 DEF StartSave, Mishaps

(* The window that holds a row starts at some row.                         *)
LEMMA WindowStarts ==
    ASSUME NEW i \in Nat \ {0}
    PROVE  ((i - 1) \div WindowSize) * WindowSize \in Nat
<1>1. WindowSize \in Nat \ {0} /\ i - 1 \in Nat
  BY ConstantsAssumption
<1>2. PICK n \in Nat : n = (i - 1) \div WindowSize
  BY <1>1
<1> QED BY <1>1, <1>2

(* The rows next to the one that is edited have an index.                  *)
LEMMA IndexesTyping == TypeOK => NextIndex \in Nat /\ PrevIndex \in Nat
<1> SUFFICES ASSUME TypeOK PROVE NextIndex \in Nat /\ PrevIndex \in Nat
  OBVIOUS
<1>1. editor.rowIndex \in Nat /\ Len(allRows) \in Nat
  BY DEF TypeOK, StoreOK, Editors
<1> QED BY <1>1 DEF NextIndex, PrevIndex

(* Every user action, answer and failure keeps the type invariant.         *)
LEMMA StepTyping == TypeOK /\ [Next]_vars => TypeOK'
<1> SUFFICES ASSUME TypeOK, [Next]_vars PROVE TypeOK'
  OBVIOUS
<1> USE DEF TypeOK, Act
<1>0. MaxActs \in Nat /\ MaxFaults \in Nat
  BY ConstantsAssumption
<1>1. ASSUME Reopen PROVE TypeOK'
  <2>1. StoreOK'
    BY <1>1 DEF Reopen, StoreOK, Reload
  <2>2. ReadsOK'
    <3>1. source \in Sources
      BY DEF StoreOK
    <3> QED BY <3>1, <1>1, ReloadTyping DEF Reopen, history
  <2>3. CallsOK'
    BY <1>1 DEF Reopen, CallsOK, calls, EditorUnchanged, ConfirmUnchanged
  <2>4. HistoryOK'
    BY <1>0, <1>1 DEF Reopen, HistoryOK, history
  <2> QED BY <2>1, <2>2, <2>3, <2>4
<1>2. ASSUME NEW s \in Sources, SetSource(s) PROVE TypeOK'
  <2>1. StoreOK'
    BY <1>2, EmptySeq, NothingOpen
       DEF SetSource, StoreOK, Reload, ClearValidation, Queries
  <2>2. ReadsOK'
    BY <1>2, ReloadTyping DEF SetSource
  <2>3. CallsOK'
    BY <1>2 DEF SetSource, CallsOK, calls, EditorUnchanged, ConfirmUnchanged
  <2>4. HistoryOK'
    <3>1. mishaps' \subseteq Mishaps
      BY <1>2 DEF SetSource, HistoryOK, Mishaps
    <3>2. current' \in BOOLEAN
      BY <1>2 DEF SetSource, HistoryOK
    <3>3. acts' \in 0..MaxActs
      <4>1. acts < MaxActs /\ acts' = acts + 1
        BY <1>2 DEF SetSource
      <4>2. acts \in 0..MaxActs
        BY DEF HistoryOK
      <4> QED BY ONLY <1>0, <4>1, <4>2
    <3> QED BY <3>1, <3>2, <3>3, <1>2 DEF SetSource, HistoryOK
  <2> QED BY <2>1, <2>2, <2>3, <2>4
<1>3. ASSUME NEW q \in Queries, OnSearch(q) PROVE TypeOK'
  <2>1. StoreOK'
    BY <1>3, FirstWindowTyping DEF OnSearch, StoreOK
  <2>2. ReadsOK'
    BY <1>3 DEF OnSearch, ReadsOK, store, calls, history, EditorUnchanged, ConfirmUnchanged
  <2>3. CallsOK'
    BY <1>3 DEF OnSearch, CallsOK, calls, EditorUnchanged, ConfirmUnchanged
  <2>4. HistoryOK'
    BY <1>0, <1>3 DEF OnSearch, calls, store, HistoryOK, history
  <2> QED BY <2>1, <2>2, <2>3, <2>4
<1>4. ASSUME ClearSearch PROVE TypeOK'
  <2>1. StoreOK'
    BY <1>4, FirstWindowTyping DEF ClearSearch, StoreOK, Queries
  <2>2. ReadsOK'
    BY <1>4 DEF ClearSearch, ReadsOK, store, calls, history, EditorUnchanged, ConfirmUnchanged
  <2>3. CallsOK'
    BY <1>4 DEF ClearSearch, CallsOK, calls, EditorUnchanged, ConfirmUnchanged
  <2>4. HistoryOK'
    <3>1. acts' \in 0..MaxActs
      <4>1. acts < MaxActs /\ acts' = acts + 1
        BY <1>4 DEF ClearSearch
      <4>2. acts \in 0..MaxActs
        BY DEF HistoryOK
      <4> QED BY ONLY <1>0, <4>1, <4>2
    <3> QED BY <3>1, <1>4 DEF ClearSearch, HistoryOK, history
  <2> QED BY <2>1, <2>2, <2>3, <2>4
<1>5. ASSUME RunSearch PROVE TypeOK'
  <2>1. StoreOK'
    BY <1>5 DEF RunSearch, StoreOK, store, EditorUnchanged, ConfirmUnchanged
  <2>2. ReadsOK'
    <3>1. source \in Sources /\ query \in Queries
      BY DEF StoreOK
    <3>2. CASE Read("search", source, query)
      BY <3>1, <3>2, <1>5, ReadTyping DEF RunSearch, history
    <3>3. CASE UNCHANGED <<generation, reads>>
      BY <3>3, <1>5 DEF RunSearch, ReadsOK, history
    <3> QED BY <3>2, <3>3, <1>5 DEF RunSearch
  <2>3. CallsOK'
    BY <1>5 DEF RunSearch, CallsOK, calls, EditorUnchanged, ConfirmUnchanged
  <2>4. HistoryOK'
    BY <1>5 DEF RunSearch, HistoryOK, history, EditorUnchanged, ConfirmUnchanged
  <2> QED BY <2>1, <2>2, <2>3, <2>4
<1>6. ASSUME NEW r \in reads, ReadFile(r) PROVE TypeOK'
  <2>1. StoreOK'
    BY <1>6 DEF ReadFile, StoreOK, store, EditorUnchanged, ConfirmUnchanged
  <2>2. ReadsOK'
    <3> DEFINE rows == Page(SearchRows(file[r.source], r.query))
               new == [r EXCEPT !.answered = TRUE, !.rows = rows]
    <3>1. r \in ReadCalls /\ r.gen <= generation
      BY DEF ReadsOK
    <3>2. file[r.source] \in Seq(Row)
      BY <3>1 DEF ReadCalls, CallsOK
    <3>3. rows \in Seq(Row)
      BY <3>2, SearchTyping, PageTyping
    <3> HIDE DEF rows
    <3>4. new \in ReadCalls /\ new.gen = r.gen
      BY <3>1, <3>3 DEF ReadCalls
    <3>5. reads' = (reads \ {r}) \cup {new}
      BY <1>6 DEF ReadFile, rows
    <3> HIDE DEF new
    <3>6. UNCHANGED <<generation, shown>>
      BY <1>6 DEF ReadFile, history
    <3> QED BY <3>1, <3>4, <3>5, <3>6 DEF ReadsOK
  <2>3. CallsOK'
    BY <1>6 DEF ReadFile, CallsOK, calls, EditorUnchanged, ConfirmUnchanged
  <2>4. HistoryOK'
    BY <1>6 DEF ReadFile, HistoryOK, history, EditorUnchanged, ConfirmUnchanged
  <2> QED BY <2>1, <2>2, <2>3, <2>4
<1>7. ASSUME NEW r \in reads, Receive(r) PROVE TypeOK'
  <2>1. StoreOK'
    <3>1. r.rows \in Seq(Row)
      BY DEF ReadsOK, ReadCalls
    <3> QED BY <3>1, <1>7, NothingOpen, FirstWindowTyping
               DEF Receive, Applied, ApplyPage, StoreOK
  <2>2. ReadsOK'
    <3>1. r \in ReadCalls /\ r.gen \in Nat /\ r.gen <= generation
      BY DEF ReadsOK, ReadCalls
    <3>2. shown' = shown \/ shown' = r.gen
      BY <1>7 DEF Receive, Applied
    <3>3. reads' = reads \ {r} /\ UNCHANGED generation
      BY <1>7 DEF Receive
    <3> QED BY <3>1, <3>2, <3>3 DEF ReadsOK
  <2>3. CallsOK'
    BY <1>7 DEF Receive, CallsOK, calls, EditorUnchanged, ConfirmUnchanged
  <2>4. HistoryOK'
    <3>1. current' \in BOOLEAN
      BY <1>7 DEF Receive, Applied, HistoryOK
    <3>2. mishaps' \subseteq Mishaps
      BY <1>7 DEF Receive, Applied, ApplyPage, HistoryOK, Mishaps
    <3> QED BY <3>1, <3>2, <1>7 DEF Receive, HistoryOK
  <2> QED BY <2>1, <2>2, <2>3, <2>4
<1>8. ASSUME NEW r \in reads, ReadFails(r) PROVE TypeOK'
  <2>1. StoreOK'
    BY <1>8 DEF ReadFails, StoreOK, store, EditorUnchanged, ConfirmUnchanged
  <2>2. ReadsOK'
    BY <1>8 DEF ReadFails, ReadsOK, store, calls, history, EditorUnchanged, ConfirmUnchanged
  <2>3. CallsOK'
    BY <1>8 DEF ReadFails, CallsOK, calls, EditorUnchanged, ConfirmUnchanged
  <2>4. HistoryOK'
    BY <1>0, <1>8 DEF ReadFails, calls, store, HistoryOK, history
  <2> QED BY <2>1, <2>2, <2>3, <2>4
<1>9. ASSUME NEW i \in DOMAIN allRows, OpenEditor(i) PROVE TypeOK'
  <2>1. StoreOK'
    <3>1. i \in Nat
      BY DEF StoreOK
    <3>2. editor' \in Editors /\ editor'.draft \in Row
      BY <3>1, <1>9, RowAtRow, RowShownRow DEF OpenEditor, Editors
    <3> QED BY <3>2, <1>9 DEF OpenEditor, EditorUnchanged, StoreOK
  <2>2. ReadsOK'
    BY <1>9 DEF OpenEditor, ReadsOK, store, calls, history, EditorUnchanged, ConfirmUnchanged
  <2>3. CallsOK'
    BY <1>9 DEF OpenEditor, CallsOK, calls, EditorUnchanged, ConfirmUnchanged
  <2>4. HistoryOK'
    <3>1. mishaps' \subseteq Mishaps
      BY <1>9, AimTyping DEF OpenEditor
    <3> QED BY <3>1, <1>0, <1>9 DEF OpenEditor, EditorUnchanged, HistoryOK
  <2> QED BY <2>1, <2>2, <2>3, <2>4
<1>10. ASSUME NewRow PROVE TypeOK'
  <2>1. StoreOK'
    <3>1. editor' \in Editors /\ editor'.draft \in Row
      BY <1>10, RowAtRow DEF NewRow, Editors
    <3> QED BY <3>1, <1>10 DEF NewRow, EditorUnchanged, StoreOK
  <2>2. ReadsOK'
    BY <1>10 DEF NewRow, ReadsOK, store, calls, history, EditorUnchanged, ConfirmUnchanged
  <2>3. CallsOK'
    BY <1>10 DEF NewRow, CallsOK, calls, EditorUnchanged, ConfirmUnchanged
  <2>4. HistoryOK'
    BY <1>0, <1>10 DEF NewRow, EditorUnchanged, HistoryOK, history
  <2> QED BY <2>1, <2>2, <2>3, <2>4
<1>11. ASSUME DuplicateRow PROVE TypeOK'
  <2>1. StoreOK'
    <3>1. editor' \in Editors /\ editor'.draft \in Row
      BY <1>11, RowAtRow DEF DuplicateRow, Editors
    <3> QED BY <3>1, <1>11 DEF DuplicateRow, EditorUnchanged, StoreOK
  <2>2. ReadsOK'
    BY <1>11 DEF DuplicateRow, ReadsOK, store, calls, history, EditorUnchanged, ConfirmUnchanged
  <2>3. CallsOK'
    BY <1>11 DEF DuplicateRow, CallsOK, calls, EditorUnchanged, ConfirmUnchanged
  <2>4. HistoryOK'
    BY <1>0, <1>11 DEF DuplicateRow, EditorUnchanged, HistoryOK, history
  <2> QED BY <2>1, <2>2, <2>3, <2>4
<1>12. ASSUME UpdateDraft PROVE TypeOK'
  <2>1. StoreOK'
    <3>1. editor \in Editors /\ editor.draft \in Row
      BY <1>12 DEF UpdateDraft, StoreOK
    <3>2. acts + 1 \in 0..MaxActs
      BY <1>0, <1>12 DEF UpdateDraft, HistoryOK
    <3>3. [editor.draft EXCEPT !.text = acts + 1] \in Row
      BY <3>1, <3>2 DEF Row
    <3>4. editor' = [editor EXCEPT !.draft = [@ EXCEPT !.text = acts + 1]]
      BY <1>12, <3>1 DEF UpdateDraft, Editors
    <3>5. editor' \in Editors /\ editor'.draft \in Row
      BY <3>1, <3>3, <3>4 DEF Editors
    <3> QED BY <3>5, <1>12 DEF UpdateDraft, EditorUnchanged, StoreOK
  <2>2. ReadsOK'
    BY <1>12 DEF UpdateDraft, ReadsOK, store, calls, history, EditorUnchanged, ConfirmUnchanged
  <2>3. CallsOK'
    BY <1>12 DEF UpdateDraft, CallsOK, calls, EditorUnchanged, ConfirmUnchanged
  <2>4. HistoryOK'
    BY <1>0, <1>12 DEF UpdateDraft, EditorUnchanged, HistoryOK, history
  <2> QED BY <2>1, <2>2, <2>3, <2>4
<1>13. ASSUME CommitAndSave PROVE TypeOK'
  <2>1. StoreOK'
    <3>1. Committed \in Seq(Row)
      BY <1>13, CommittedTyping DEF CommitAndSave, StoreOK
    <3>2. editor' = NoEditor /\ loading' \in BOOLEAN
      BY <1>13, CloseTyping DEF CommitAndSave
    <3> QED BY <3>1, <3>2, <1>13, NothingOpen
           DEF CommitAndSave, ClearValidation, StoreOK
  <2>2. ReadsOK'
    BY <1>13, CloseTyping DEF CommitAndSave
  <2>3. CallsOK'
    <3>1. Committed \in Seq(Row)
      BY <1>13, CommittedTyping DEF CommitAndSave, StoreOK
    <3>2. saves' \subseteq SaveCalls
      BY <3>1, <1>13, SaveTyping DEF CommitAndSave
    <3> QED BY <3>2, <1>13 DEF CommitAndSave, CallsOK
  <2>4. HistoryOK'
    <3>1. Committed \in Seq(Row)
      BY <1>13, CommittedTyping DEF CommitAndSave, StoreOK
    <3>2. mishaps' \subseteq Mishaps
      BY <3>1, <1>13, SaveTyping DEF CommitAndSave
    <3>3. DOMAIN wanted' = Sources
      BY <1>13 DEF CommitAndSave, HistoryOK
    <3> QED BY <1>0, <3>2, <3>3, <1>13 DEF CommitAndSave, HistoryOK
  <2> QED BY <2>1, <2>2, <2>3, <2>4
<1>14. ASSUME Save PROVE TypeOK'
  <2>1. StoreOK'
    BY <1>14 DEF Save, StoreOK, store, EditorUnchanged, ConfirmUnchanged
  <2>2. ReadsOK'
    BY <1>14 DEF Save, ReadsOK, store, calls, history, EditorUnchanged, ConfirmUnchanged
  <2>3. CallsOK'
    <3>1. allRows \in Seq(Row)
      BY DEF StoreOK
    <3>2. saves' \subseteq SaveCalls /\ mishaps' \subseteq Mishaps
      BY <3>1, <1>14, SaveTyping DEF Save
    <3> QED BY <1>0, <3>2, <1>14 DEF Save, CallsOK
  <2>4. HistoryOK'
    <3>1. allRows \in Seq(Row)
      BY DEF StoreOK
    <3>2. saves' \subseteq SaveCalls /\ mishaps' \subseteq Mishaps
      BY <3>1, <1>14, SaveTyping DEF Save
    <3> QED BY <1>0, <3>2, <1>14 DEF Save, HistoryOK
  <2> QED BY <2>1, <2>2, <2>3, <2>4
<1>15. ASSUME NEW s \in saves, WriteFile(s) PROVE TypeOK'
  <2>1. StoreOK'
    BY <1>15 DEF WriteFile, StoreOK, store, EditorUnchanged, ConfirmUnchanged
  <2>2. ReadsOK'
    BY <1>15 DEF WriteFile, ReadsOK, store, calls, history, EditorUnchanged, ConfirmUnchanged
  <2>3. CallsOK'
    <3> DEFINE new == [s EXCEPT !.written = TRUE]
    <3>1. s \in SaveCalls
      BY DEF CallsOK
    <3>2. file' \in [Sources -> Seq(Row)]
      BY <3>1, <1>15 DEF WriteFile, CallsOK, SaveCalls
    <3>3. new \in SaveCalls
      BY <3>1 DEF SaveCalls
    <3>4. saves' = (saves \ {s}) \cup {new}
      BY <1>15 DEF WriteFile
    <3> HIDE DEF new
    <3>5. saves' \subseteq SaveCalls
      BY <3>3, <3>4 DEF CallsOK
    <3> QED BY <3>2, <3>5, <1>15 DEF WriteFile, CallsOK
  <2>4. HistoryOK'
    BY <1>15 DEF WriteFile, HistoryOK, history, EditorUnchanged, ConfirmUnchanged
  <2> QED BY <2>1, <2>2, <2>3, <2>4
<1>16. ASSUME NEW s \in saves, SaveOk(s) PROVE TypeOK'
  <2>1. StoreOK'
    BY <1>16, CloseTyping, NothingOpen DEF SaveOk, StoreOK
  <2>2. ReadsOK'
    BY <1>16, CloseTyping DEF SaveOk
  <2>3. CallsOK'
    BY <1>16 DEF SaveOk, CallsOK, calls, EditorUnchanged, ConfirmUnchanged
  <2>4. HistoryOK'
    <3>1. mishaps' \subseteq Mishaps
      BY <1>16 DEF SaveOk, HistoryOK, Mishaps
    <3> QED BY <3>1, <1>16 DEF SaveOk, HistoryOK
  <2> QED BY <2>1, <2>2, <2>3, <2>4
<1>17. ASSUME NEW s \in saves, SaveFails(s) PROVE TypeOK'
  <2>1. StoreOK'
    BY <1>17 DEF SaveFails, StoreOK, store, EditorUnchanged, ConfirmUnchanged
  <2>2. ReadsOK'
    BY <1>17 DEF SaveFails, ReadsOK, store, calls, history, EditorUnchanged, ConfirmUnchanged
  <2>3. CallsOK'
    BY <1>17 DEF SaveFails, CallsOK, calls, EditorUnchanged, ConfirmUnchanged
  <2>4. HistoryOK'
    BY <1>0, <1>17 DEF SaveFails, calls, store, HistoryOK, history
  <2> QED BY <2>1, <2>2, <2>3, <2>4
<1>18. ASSUME NEW i \in (DOMAIN allRows) \cup {editor.rowIndex}, RequestDelete(i) PROVE TypeOK'
  <2>1. StoreOK'
    BY <1>18 DEF RequestDelete, StoreOK, store, EditorUnchanged, ConfirmUnchanged
  <2>2. ReadsOK'
    BY <1>18 DEF RequestDelete, ReadsOK, store, calls, history, EditorUnchanged, ConfirmUnchanged
  <2>3. CallsOK'
    <3>1. i \in Nat
      BY DEF StoreOK, Editors
    <3>2. editor.open \in BOOLEAN
      BY DEF StoreOK, Editors
    <3>3. confirm' \in Dialogs
      BY <3>1, <3>2, <1>18, RowAtRow, RowShownRow
         DEF RequestDelete, AskToDelete, Dialogs
    <3> QED BY <3>3, <1>18 DEF RequestDelete, ConfirmUnchanged, CallsOK
  <2>4. HistoryOK'
    <3>1. mishaps' \subseteq Mishaps
      BY <1>18, AimTyping DEF RequestDelete, AskToDelete
    <3> QED BY <3>1, <1>0, <1>18 DEF RequestDelete, ConfirmUnchanged, HistoryOK
  <2> QED BY <2>1, <2>2, <2>3, <2>4
<1>19. ASSUME Discard PROVE TypeOK'
  <2>1. StoreOK'
    <3>1. CASE CloseEditor
      BY <3>1, <1>19, CloseTyping, NothingOpen
         DEF Discard, ConfirmUnchanged, StoreOK, ClearValidation
    <3>2. CASE UNCHANGED <<editor, generation, reads, loading>>
      BY <3>2, <1>19 DEF Discard, ConfirmUnchanged, StoreOK, ClearValidation
    <3> QED BY <3>1, <3>2, <1>19 DEF Discard
  <2>2. ReadsOK'
    <3>1. CASE CloseEditor
      BY <3>1, <1>19, CloseTyping DEF Discard, ConfirmUnchanged, history
    <3>2. CASE UNCHANGED <<editor, generation, reads, loading>>
      BY <3>2, <1>19 DEF Discard, ConfirmUnchanged, ReadsOK, history
    <3> QED BY <3>1, <3>2, <1>19 DEF Discard
  <2>3. CallsOK'
    <3>1. [what |-> "discard", index |-> 0, row |-> NoRow,
           inEditor |-> TRUE] \in Dialogs
      BY DEF Dialogs
    <3>2. confirm' \in Dialogs
      BY <3>1, <1>19 DEF Discard, CallsOK
    <3> QED BY <3>2, <1>19 DEF Discard, CallsOK, ConfirmUnchanged
  <2>4. HistoryOK'
    BY <1>0, <1>19 DEF Discard, ConfirmUnchanged, HistoryOK, history
  <2> QED BY <2>1, <2>2, <2>3, <2>4
<1>20. ASSUME NEW ok \in BOOLEAN, AnswerDelete(ok) PROVE TypeOK'
  <2>1. StoreOK'
    <3>1. allRows' \in Seq(Row)
      <4>1. confirm.index \in Nat
        BY DEF CallsOK, Dialogs
      <4>2. Deleted(confirm.index) \in Seq(Row)
        BY <4>1, DeletedTyping DEF StoreOK
      <4> QED BY <4>2, <1>20 DEF AnswerDelete, StoreOK
    <3>2. /\ tableDirty' \in BOOLEAN
          /\ validation' \in Reports
      BY <1>20, NothingOpen DEF AnswerDelete, ClearValidation, StoreOK
    <3>3. CASE CloseEditor
      BY <3>1, <3>2, <3>3, <1>20, CloseTyping, NothingOpen
         DEF AnswerDelete, StoreOK
    <3>4. CASE UNCHANGED <<editor, generation, reads, loading>>
      BY <3>1, <3>2, <3>4, <1>20 DEF AnswerDelete, StoreOK
    <3> QED BY <3>3, <3>4, <1>20 DEF AnswerDelete
  <2>2. ReadsOK'
    <3>1. CASE CloseEditor
      BY <3>1, <1>20, CloseTyping DEF AnswerDelete, ConfirmUnchanged, history
    <3>2. CASE UNCHANGED <<editor, generation, reads, loading>>
      BY <3>2, <1>20 DEF AnswerDelete, ConfirmUnchanged, ReadsOK, history
    <3> QED BY <3>1, <3>2, <1>20 DEF AnswerDelete
  <2>3. CallsOK'
    BY <1>20, NothingOpen DEF AnswerDelete, CallsOK, ConfirmUnchanged, calls
  <2>4. HistoryOK'
    <3>1. mishaps' \subseteq Mishaps
      BY <1>20 DEF AnswerDelete, HistoryOK, Mishaps
    <3>2. DOMAIN wanted' = Sources
      BY <1>20 DEF AnswerDelete, HistoryOK
    <3> QED BY <3>1, <3>2, <1>20 DEF AnswerDelete, HistoryOK
  <2> QED BY <2>1, <2>2, <2>3, <2>4
<1>21. ASSUME NEW ok \in BOOLEAN, AnswerDiscard(ok) PROVE TypeOK'
  <2>1. StoreOK'
    <3>1. CASE CloseEditor
      BY <3>1, <1>21, CloseTyping, NothingOpen
         DEF AnswerDiscard, ConfirmUnchanged, StoreOK, ClearValidation
    <3>2. CASE UNCHANGED <<editor, generation, reads, loading>>
      BY <3>2, <1>21 DEF AnswerDiscard, ConfirmUnchanged, StoreOK, ClearValidation
    <3> QED BY <3>1, <3>2, <1>21 DEF AnswerDiscard
  <2>2. ReadsOK'
    <3>1. CASE CloseEditor
      BY <3>1, <1>21, CloseTyping DEF AnswerDiscard, ConfirmUnchanged, history
    <3>2. CASE UNCHANGED <<editor, generation, reads, loading>>
      BY <3>2, <1>21 DEF AnswerDiscard, ConfirmUnchanged, ReadsOK, history
    <3> QED BY <3>1, <3>2, <1>21 DEF AnswerDiscard
  <2>3. CallsOK'
    BY <1>21, NothingOpen DEF AnswerDiscard, CallsOK, ConfirmUnchanged, calls
  <2>4. HistoryOK'
    BY <1>21 DEF AnswerDiscard, HistoryOK, history, EditorUnchanged, ConfirmUnchanged
  <2> QED BY <2>1, <2>2, <2>3, <2>4
<1>22. ASSUME PickImport PROVE TypeOK'
  <2>1. StoreOK'
    BY <1>22 DEF PickImport, StoreOK, store, EditorUnchanged, ConfirmUnchanged
  <2>2. ReadsOK'
    BY <1>22 DEF PickImport, ReadsOK, store, calls, history, EditorUnchanged, ConfirmUnchanged
  <2>3. CallsOK'
    BY <1>22 DEF PickImport, CallsOK, calls, EditorUnchanged, ConfirmUnchanged
  <2>4. HistoryOK'
    BY <1>0, <1>22 DEF PickImport, calls, store, HistoryOK, history
  <2> QED BY <2>1, <2>2, <2>3, <2>4
<1>23. ASSUME Previewed PROVE TypeOK'
  <2>1. StoreOK'
    BY <1>23 DEF Previewed, StoreOK, store, EditorUnchanged, ConfirmUnchanged
  <2>2. ReadsOK'
    BY <1>23 DEF Previewed, ReadsOK, store, calls, history, EditorUnchanged, ConfirmUnchanged
  <2>3. CallsOK'
    <3>1. confirm' \in Dialogs
      BY <1>23 DEF Previewed, CallsOK, Dialogs
    <3> QED BY <3>1, <1>23 DEF Previewed, CallsOK
  <2>4. HistoryOK'
    BY <1>23 DEF Previewed, HistoryOK, history, EditorUnchanged, ConfirmUnchanged
  <2> QED BY <2>1, <2>2, <2>3, <2>4
<1>24. ASSUME PreviewFails PROVE TypeOK'
  <2>1. StoreOK'
    BY <1>24 DEF PreviewFails, StoreOK, store, EditorUnchanged, ConfirmUnchanged
  <2>2. ReadsOK'
    BY <1>24 DEF PreviewFails, ReadsOK, store, calls, history, EditorUnchanged, ConfirmUnchanged
  <2>3. CallsOK'
    BY <1>24 DEF PreviewFails, CallsOK, calls, EditorUnchanged, ConfirmUnchanged
  <2>4. HistoryOK'
    BY <1>0, <1>24 DEF PreviewFails, calls, store, HistoryOK, history
  <2> QED BY <2>1, <2>2, <2>3, <2>4
<1>25. ASSUME NEW ok \in BOOLEAN, AnswerImport(ok) PROVE TypeOK'
  <2>1. StoreOK'
    <3>1. RowsOf("knowledge", ImportedFile) \in Seq(Row)
      <4>1. RowsOf("knowledge", ImportedFile) \in Seq(RowsFrom("knowledge"))
        BY RowsOfTyping, ConstantsAssumption DEF Sources
      <4> QED BY <4>1, RowsFromRows DEF Sources
    <3> QED BY <3>1, <1>25, NothingOpen, FirstWindowTyping
               DEF AnswerImport, ClearValidation, StoreOK
  <2>2. ReadsOK'
    BY <1>25 DEF AnswerImport, ReadsOK, store, calls, history, EditorUnchanged, ConfirmUnchanged
  <2>3. CallsOK'
    BY <1>25, NothingOpen DEF AnswerImport, CallsOK, ConfirmUnchanged, calls
  <2>4. HistoryOK'
    <3>1. mishaps' \subseteq Mishaps
      BY <1>25 DEF AnswerImport, HistoryOK, Mishaps
    <3>2. DOMAIN wanted' = Sources
      BY <1>25 DEF AnswerImport, HistoryOK
    <3> QED BY <3>1, <3>2, <1>25 DEF AnswerImport, HistoryOK
  <2> QED BY <2>1, <2>2, <2>3, <2>4
<1>26. ASSUME ValidateAll PROVE TypeOK'
  <2>1. StoreOK'
    BY <1>26 DEF ValidateAll, StoreOK, store, EditorUnchanged, ConfirmUnchanged
  <2>2. ReadsOK'
    BY <1>26 DEF ValidateAll, ReadsOK, store, calls, history, EditorUnchanged, ConfirmUnchanged
  <2>3. CallsOK'
    BY <1>26 DEF ValidateAll, CallsOK, Idle, Checks
  <2>4. HistoryOK'
    BY <1>0, <1>26 DEF ValidateAll, calls, store, HistoryOK, history
  <2> QED BY <2>1, <2>2, <2>3, <2>4
<1>27. ASSUME RunValidator PROVE TypeOK'
  <2>1. StoreOK'
    BY <1>27 DEF RunValidator, StoreOK, store, EditorUnchanged, ConfirmUnchanged
  <2>2. ReadsOK'
    BY <1>27 DEF RunValidator, ReadsOK, store, calls, history, EditorUnchanged, ConfirmUnchanged
  <2>3. CallsOK'
    <3>1. \A n \in DOMAIN file["knowledge"] : n \in Nat \ {0}
      BY DEF CallsOK, Sources
    <3>2. Errors(file["knowledge"]) \subseteq Nat \ {0}
      BY <3>1 DEF Errors
    <3> QED BY <3>2, <1>27 DEF RunValidator, CallsOK, Checks
  <2>4. HistoryOK'
    BY <1>27 DEF RunValidator, HistoryOK, history, EditorUnchanged, ConfirmUnchanged
  <2> QED BY <2>1, <2>2, <2>3, <2>4
<1>28. ASSUME ApplyValidation PROVE TypeOK'
  <2>1. StoreOK'
    <3>1. checking.errors \in SUBSET (Nat \ {0})
      BY DEF CallsOK, Checks
    <3> QED BY <3>1, <1>28 DEF ApplyValidation, StoreOK, Reports
  <2>2. ReadsOK'
    BY <1>28 DEF ApplyValidation, ReadsOK, store, calls, history, EditorUnchanged, ConfirmUnchanged
  <2>3. CallsOK'
    BY <1>28, NothingOpen DEF ApplyValidation, CallsOK
  <2>4. HistoryOK'
    BY <1>28 DEF ApplyValidation, HistoryOK, history, EditorUnchanged, ConfirmUnchanged
  <2> QED BY <2>1, <2>2, <2>3, <2>4
<1>29. ASSUME ValidatorFails PROVE TypeOK'
  <2>1. StoreOK'
    BY <1>29 DEF ValidatorFails, StoreOK, store, EditorUnchanged, ConfirmUnchanged
  <2>2. ReadsOK'
    BY <1>29 DEF ValidatorFails, ReadsOK, store, calls, history, EditorUnchanged, ConfirmUnchanged
  <2>3. CallsOK'
    BY <1>29, NothingOpen DEF ValidatorFails, CallsOK
  <2>4. HistoryOK'
    BY <1>0, <1>29 DEF ValidatorFails, calls, store, HistoryOK, history
  <2> QED BY <2>1, <2>2, <2>3, <2>4
<1>30. ASSUME DismissReport PROVE TypeOK'
  <2>1. StoreOK'
    BY <1>30, NothingOpen DEF DismissReport, ClearValidation, StoreOK
  <2>2. ReadsOK'
    BY <1>30 DEF DismissReport, ReadsOK, store, calls, history, EditorUnchanged, ConfirmUnchanged
  <2>3. CallsOK'
    BY <1>30 DEF DismissReport, CallsOK, calls, EditorUnchanged, ConfirmUnchanged
  <2>4. HistoryOK'
    BY <1>0, <1>30 DEF DismissReport, calls, store, HistoryOK, history
  <2> QED BY <2>1, <2>2, <2>3, <2>4
<1>31. ASSUME ToggleSort PROVE TypeOK'
  <2>1. StoreOK'
    <3>1. view \in Views
      BY DEF StoreOK
    <3>2. Toggled[view.sort] \in {"none", "asc", "desc"}
      BY <3>1 DEF Toggled, Views
    <3>3. view' = [view EXCEPT !.sort = Toggled[view.sort], !.offset = 0]
      BY <1>31 DEF ToggleSort
    <3>4. view' \in Views
      BY <3>1, <3>2, <3>3 DEF Views
    <3> QED BY <3>4, <1>31 DEF ToggleSort, ViewUnchanged, StoreOK
  <2>2. ReadsOK'
    BY <1>31 DEF ToggleSort, ReadsOK, ViewUnchanged, EditorUnchanged, calls, history
  <2>3. CallsOK'
    BY <1>31 DEF ToggleSort, CallsOK, ViewUnchanged, EditorUnchanged, calls
  <2>4. HistoryOK'
    BY <1>0, <1>31 DEF ToggleSort, ViewUnchanged, EditorUnchanged, HistoryOK,
       history
  <2> QED BY <2>1, <2>2, <2>3, <2>4
<1>32. ASSUME SetCategory PROVE TypeOK'
  <2>1. StoreOK'
    <3>1. view \in Views
      BY DEF StoreOK
    <3>2. view' \in Views
      BY <3>1, <1>32 DEF SetCategory, Views
    <3> QED BY <3>2, <1>32 DEF SetCategory, ViewUnchanged, StoreOK
  <2>2. ReadsOK'
    BY <1>32 DEF SetCategory, ReadsOK, ViewUnchanged, EditorUnchanged, calls, history
  <2>3. CallsOK'
    BY <1>32 DEF SetCategory, CallsOK, ViewUnchanged, EditorUnchanged, calls
  <2>4. HistoryOK'
    BY <1>0, <1>32 DEF SetCategory, ViewUnchanged, EditorUnchanged, HistoryOK,
       history
  <2> QED BY <2>1, <2>2, <2>3, <2>4
<1>33. ASSUME NEW i \in validation.errors, JumpToRow(i) PROVE TypeOK'
  <2>1. StoreOK'
    <3>1. view \in Views /\ i \in Nat \ {0}
      BY DEF StoreOK, Reports
    <3>2. ((i - 1) \div WindowSize) * WindowSize \in Nat
      BY <3>1, WindowStarts
    <3>3. view' \in Views
      BY <3>1, <3>2, <1>33 DEF JumpToRow, Views
    <3> QED BY <3>3, <1>33 DEF JumpToRow, ViewUnchanged, StoreOK
  <2>2. ReadsOK'
    BY <1>33 DEF JumpToRow, ReadsOK, ViewUnchanged, EditorUnchanged, calls, history
  <2>3. CallsOK'
    BY <1>33 DEF JumpToRow, CallsOK, ViewUnchanged, EditorUnchanged, calls
  <2>4. HistoryOK'
    <3>1. acts' \in 0..MaxActs
      <4>1. acts < MaxActs /\ acts' = acts + 1
        BY <1>33 DEF JumpToRow
      <4>2. acts \in 0..MaxActs
        BY DEF HistoryOK
      <4> QED BY ONLY <1>0, <4>1, <4>2
    <3> QED BY <3>1, <1>33 DEF JumpToRow, ViewUnchanged, HistoryOK, history
  <2> QED BY <2>1, <2>2, <2>3, <2>4
<1>34. ASSUME NEW i \in Nat, TurnTo(i) PROVE TypeOK'
  <2>1. StoreOK'
    <3>1. editor' \in Editors /\ editor'.draft \in Row
      BY <1>34, RowAtRow DEF TurnTo, Editors
    <3> QED BY <3>1, <1>34 DEF TurnTo, EditorUnchanged, StoreOK
  <2>2. ReadsOK'
    BY <1>34 DEF TurnTo, ReadsOK, ViewUnchanged, EditorUnchanged, calls, history
  <2>3. CallsOK'
    BY <1>34 DEF TurnTo, CallsOK, ViewUnchanged, EditorUnchanged, calls
  <2>4. HistoryOK'
    BY <1>0, <1>34 DEF TurnTo, ViewUnchanged, EditorUnchanged, HistoryOK,
       history
  <2> QED BY <2>1, <2>2, <2>3, <2>4
<1>35. NextIndex \in Nat /\ PrevIndex \in Nat
  BY IndexesTyping
<1>36. CASE UNCHANGED vars
  BY <1>36 DEF vars, store, calls, history, StoreOK, ReadsOK, CallsOK,
     HistoryOK
<1> QED BY <1>1, <1>2, <1>3, <1>4, <1>5, <1>6, <1>7, <1>8, <1>9, <1>10, <1>11, <1>12, <1>13, <1>14, <1>15, <1>16, <1>17, <1>18, <1>19, <1>20, <1>21, <1>22, <1>23, <1>24, <1>25, <1>26, <1>27, <1>28, <1>29, <1>30, <1>31, <1>32, <1>33, <1>34, <1>35, <1>36
    DEF Next, UserActs, UserAnswers, System, Answer, Failures

(* For any files and bounds: every variable keeps its shape.               *)
THEOREM Typing == Spec => []TypeOK
<1>1. Init => TypeOK
  BY FirstState
<1>2. TypeOK /\ [Next]_vars => TypeOK'
  BY StepTyping
<1> QED BY <1>1, <1>2, PTL DEF Spec

-----------------------------------------------------------------------------
(* The order of the answers                                                *)

(* Only an answer to the latest read changes which read is shown.          *)
LEMMA ShownStep == TypeOK /\ [Next]_vars => shown' >= shown
<1> SUFFICES ASSUME TypeOK, [Next]_vars PROVE shown' >= shown
  OBVIOUS
<1>1. shown \in Nat /\ generation \in Nat /\ shown <= generation
  BY DEF TypeOK, ReadsOK
<1>2. ASSUME NEW r \in reads, Receive(r) PROVE shown' >= shown
  <2>1. CASE Superseded(r)
    BY <1>1, <1>2, <2>1 DEF Receive
  <2>2. CASE ~Superseded(r)
    BY <1>1, <1>2, <2>2 DEF Receive, Applied, Superseded
  <2> QED BY <2>1, <2>2
<1>3. CASE UNCHANGED shown
  BY <1>1, <1>3
<1>4. ASSUME UserActs PROVE UNCHANGED shown
  BY <1>4 DEF UserActs, Reopen, ClearSearch, NewRow, DuplicateRow,
     UpdateDraft, CommitAndSave, Save, Discard, PickImport, ValidateAll,
     DismissReport, SetSource, OnSearch, OpenEditor, RequestDelete,
     ToggleSort, SetCategory, JumpToRow, TurnTo, ViewUnchanged,
     EditorUnchanged, ConfirmUnchanged, history
<1>5. ASSUME UserAnswers PROVE UNCHANGED shown
  BY <1>5 DEF UserAnswers, AnswerDelete, AnswerDiscard, AnswerImport,
     ConfirmUnchanged, history
<1>6. ASSUME System PROVE shown' >= shown
  BY <1>2, <1>3, <1>6 DEF System, Answer, RunSearch, RunValidator,
     ApplyValidation, Previewed, ReadFile, WriteFile, SaveOk, history
<1>7. ASSUME Failures PROVE UNCHANGED shown
  BY <1>7 DEF Failures, PreviewFails, ValidatorFails, ReadFails, SaveFails,
     history
<1>8. CASE UNCHANGED vars
  BY <1>3, <1>8 DEF vars, history
<1> QED BY <1>3, <1>4, <1>5, <1>6, <1>7, <1>8 DEF Next

(* However late an answer comes, the table never goes back to an older     *)
(* one: generation in script.vm.ts is enough.                              *)
THEOREM TableNeverOlder == Spec => ShownNeverOlder
<1>1. Init => TypeOK
  BY FirstState
<1>2. TypeOK /\ [Next]_vars => TypeOK'
  BY StepTyping
<1>3. TypeOK /\ [Next]_vars => [shown' >= shown]_vars
  BY ShownStep
<1> QED BY <1>1, <1>2, <1>3, PTL DEF Spec, ShownNeverOlder

-----------------------------------------------------------------------------
(* The two files                                                           *)

(* Everything in memory and under way holds rows of its own source.        *)
TablesApart ==
    /\ \A s \in Sources : file[s] \in Seq(RowsFrom(s))
    /\ allRows \in Seq(RowsFrom(source))
    /\ editor.open => editor.draft \in RowsFrom(source)
    /\ \A s \in saves : s.rows \in Seq(RowsFrom(s.source))
    /\ confirm.what = "import" => source = "knowledge"
ReadsApart ==
    \A r \in reads : /\ r.rows \in Seq(RowsFrom(r.source))
                     /\ r.gen = generation => r.source = source
Apart == TablesApart /\ ReadsApart
(* It holds before anything was read.                                      *)
LEMMA FirstApart == Init => Apart
<1> SUFFICES ASSUME Init PROVE Apart
  OBVIOUS
<1>1. \A s \in Sources : file[s] \in Seq(RowsFrom(s))
  BY RowsOfTyping, ConstantsAssumption DEF Init
<1>2. allRows = <<>> /\ saves = {}
  BY DEF Init
<1>3. ~editor.open
  BY DEF Init, NoEditor
<1>4. confirm.what # "import"
  BY DEF Init, NoConfirm
<1>5. \A r \in reads : r.rows = <<>> /\ r.source = source
  <2> DEFINE new == [gen |-> 1, kind |-> "load", source |-> "knowledge",
                     query |-> "", answered |-> FALSE, rows |-> <<>>]
  <2>1. new.rows = <<>> /\ new.source = "knowledge"
    OBVIOUS
  <2>2. reads = {new} /\ source = "knowledge"
    BY DEF Init
  <2> HIDE DEF new
  <2> QED BY ONLY <2>1, <2>2
<1> QED BY <1>1, <1>2, <1>3, <1>4, <1>5, EmptySeq
    DEF Apart, TablesApart, ReadsApart

(* The latest read asks for the source that is shown.                      *)
LEMMA ReadApart ==
    ASSUME TypeOK, ReadsApart, NEW kind, NEW src, NEW q,
           Read(kind, src, q), source' = src
    PROVE  ReadsApart'
<1>1. \A r \in reads : r.gen <= generation /\ r.gen \in Nat
  BY DEF TypeOK, ReadsOK, ReadCalls
<1>2. generation' = generation + 1 /\ generation \in Nat
  BY DEF Read, TypeOK, ReadsOK
<1>3. \A r \in reads : r.gen # generation'
  BY <1>1, <1>2
<1> DEFINE new == [gen |-> generation + 1, kind |-> kind, source |-> src,
                   query |-> q, answered |-> FALSE, rows |-> <<>>]
<1>4. /\ reads' = reads \cup {new}
      /\ new.rows = <<>> /\ new.source = src
  BY DEF Read
<1> HIDE DEF new
<1>5. new.rows \in Seq(RowsFrom(src))
  BY <1>4, EmptySeq
<1> QED BY ONLY <1>3, <1>4, <1>5, source' = src, ReadsApart DEF ReadsApart

(* So does the load of a gallery that is mounted.                          *)
LEMMA CloseApart ==
    ASSUME TypeOK, ReadsApart, CloseEditor, UNCHANGED source
    PROVE  ReadsApart' /\ ~editor'.open
<1>1. CASE editor.open
  BY <1>1, ReadApart DEF CloseEditor, Reload, NoEditor
<1>2. CASE ~editor.open
  BY <1>2 DEF CloseEditor, ReadsApart, NoEditor
<1> QED BY <1>1, <1>2

(* A save takes its rows and its file from the same moment.                *)
LEMMA SaveApart ==
    ASSUME TablesApart, NEW rows \in Seq(RowsFrom(source)), StartSave(rows)
    PROVE  \A s \in saves' : s.rows \in Seq(RowsFrom(s.source))
<1> DEFINE new == [source |-> source, rows |-> rows, act |-> acts + 1,
                   written |-> FALSE]
<1>1. /\ saves' = saves \cup {new}
      /\ new.rows = rows /\ new.source = source
  BY DEF StartSave
<1> HIDE DEF new
<1> QED BY ONLY <1>1, TablesApart, rows \in Seq(RowsFrom(source))
        DEF TablesApart

(* Every step keeps the tables apart.                                      *)
LEMMA StepApart == TypeOK /\ Apart /\ [Next]_vars => Apart'
<1> SUFFICES ASSUME TypeOK, Apart, [Next]_vars PROVE Apart'
  OBVIOUS
<1> USE DEF Apart
<1>0. MaxActs \in Nat
  BY ConstantsAssumption
<1>1. ASSUME Reopen PROVE Apart'
  <2>1. TablesApart'
    BY <1>1 DEF Reopen, TablesApart, store, calls,
       EditorUnchanged, ConfirmUnchanged, NoConfirm
  <2>2. ReadsApart'
    BY <1>1, ReadApart DEF Reopen, Reload, ReadsApart
  <2> QED BY <2>1, <2>2
<1>2. ASSUME NEW s \in Sources, SetSource(s) PROVE Apart'
  <2>1. TablesApart'
    <3>1. confirm.what # "import" /\ ~editor.open
      BY <1>2 DEF SetSource, Pointer, Gallery, NoConfirm
    <3>2. CASE s = source
      BY <3>2, <1>2 DEF SetSource, TablesApart
    <3>3. CASE s # source
      BY <3>1, <3>3, <1>2, EmptySeq DEF SetSource, TablesApart
    <3> QED BY <3>2, <3>3
  <2>2. ReadsApart'
    <3>1. source' = s
      BY <1>2 DEF SetSource
    <3> QED BY <3>1, <1>2, ReadApart DEF SetSource, Reload
  <2> QED BY <2>1, <2>2
<1>3. ASSUME NEW q \in Queries, OnSearch(q) PROVE Apart'
  <2>1. TablesApart'
    BY <1>3 DEF OnSearch, TablesApart, store, calls,
       EditorUnchanged, ConfirmUnchanged, NoConfirm
  <2>2. ReadsApart'
    BY <1>3 DEF OnSearch, ReadsApart, store, calls,
       EditorUnchanged, ConfirmUnchanged
  <2> QED BY <2>1, <2>2
<1>4. ASSUME ClearSearch PROVE Apart'
  <2>1. TablesApart'
    BY <1>4 DEF ClearSearch, TablesApart, store, calls,
       EditorUnchanged, ConfirmUnchanged, NoConfirm
  <2>2. ReadsApart'
    BY <1>4 DEF ClearSearch, ReadsApart, store, calls,
       EditorUnchanged, ConfirmUnchanged
  <2> QED BY <2>1, <2>2
<1>5. ASSUME RunSearch PROVE Apart'
  <2>1. TablesApart'
    BY <1>5 DEF RunSearch, TablesApart, store, calls,
       EditorUnchanged, ConfirmUnchanged, NoConfirm
  <2>2. ReadsApart'
    <3>1. CASE Read("search", source, query)
      BY <3>1, <1>5, ReadApart DEF RunSearch
    <3>2. CASE UNCHANGED <<generation, reads>>
      BY <3>2, <1>5 DEF RunSearch, ReadsApart
    <3> QED BY <3>1, <3>2, <1>5 DEF RunSearch
  <2> QED BY <2>1, <2>2
<1>6. ASSUME NEW r \in reads, ReadFile(r) PROVE Apart'
  <2>1. TablesApart'
    BY <1>6 DEF ReadFile, TablesApart, store, calls,
       EditorUnchanged, ConfirmUnchanged, NoConfirm
  <2>2. ReadsApart'
    <3> DEFINE rows == Page(SearchRows(file[r.source], r.query))
               new == [r EXCEPT !.answered = TRUE, !.rows = rows]
    <3>1. r \in ReadCalls
      BY DEF TypeOK, ReadsOK
    <3>2. file[r.source] \in Seq(RowsFrom(r.source))
      BY <3>1 DEF ReadCalls, TablesApart
    <3>3. rows \in Seq(RowsFrom(r.source))
      BY <3>2, SearchTyping, PageTyping
    <3> HIDE DEF rows
    <3>4. new.rows = rows /\ new.gen = r.gen /\ new.source = r.source
      BY <3>1 DEF ReadCalls
    <3>5. reads' = (reads \ {r}) \cup {new}
      BY <1>6 DEF ReadFile, rows
    <3> HIDE DEF new
    <3>6. UNCHANGED <<generation, source>>
      BY <1>6 DEF ReadFile, store
    <3> QED BY <3>3, <3>4, <3>5, <3>6 DEF ReadsApart
  <2> QED BY <2>1, <2>2
<1>7. ASSUME NEW r \in reads, Receive(r) PROVE Apart'
  <2>1. TablesApart'
    <3>1. CASE Superseded(r)
      BY <3>1, <1>7 DEF Receive, TablesApart
    <3>2. CASE ~Superseded(r)
      <4>1. r.rows \in Seq(RowsFrom(source))
        BY <3>2 DEF Superseded, ReadsApart
      <4>2. allRows' = r.rows
        BY <3>2, <1>7 DEF Receive, Applied, ApplyPage
      <4> QED BY <4>1, <4>2, <1>7 DEF Receive, TablesApart
    <3> QED BY <3>1, <3>2
  <2>2. ReadsApart'
    BY <1>7 DEF Receive, ReadsApart, store, calls,
       EditorUnchanged, ConfirmUnchanged
  <2> QED BY <2>1, <2>2
<1>8. ASSUME NEW r \in reads, ReadFails(r) PROVE Apart'
  <2>1. TablesApart'
    BY <1>8 DEF ReadFails, TablesApart, store, calls,
       EditorUnchanged, ConfirmUnchanged, NoConfirm
  <2>2. ReadsApart'
    BY <1>8 DEF ReadFails, ReadsApart, store, calls,
       EditorUnchanged, ConfirmUnchanged
  <2> QED BY <2>1, <2>2
<1>9. ASSUME NEW i \in DOMAIN allRows, OpenEditor(i) PROVE Apart'
  <2>1. TablesApart'
    <3>1. editor'.draft \in RowsFrom(source)
      BY <1>9, RowAtTyping DEF OpenEditor, TablesApart, TypeOK, StoreOK
    <3> QED BY <3>1, <1>9 DEF OpenEditor, EditorUnchanged, calls, TablesApart
  <2>2. ReadsApart'
    BY <1>9 DEF OpenEditor, ReadsApart, store, calls,
       EditorUnchanged, ConfirmUnchanged
  <2> QED BY <2>1, <2>2
<1>10. ASSUME NewRow PROVE Apart'
  <2>1. TablesApart'
    <3>1. editor'.draft \in RowsFrom(source)
      BY <1>10, RowAtTyping DEF NewRow, TablesApart, TypeOK, StoreOK
    <3> QED BY <3>1, <1>10 DEF NewRow, EditorUnchanged, calls, TablesApart
  <2>2. ReadsApart'
    BY <1>10 DEF NewRow, ReadsApart, store, calls,
       EditorUnchanged, ConfirmUnchanged
  <2> QED BY <2>1, <2>2
<1>11. ASSUME DuplicateRow PROVE Apart'
  <2>1. TablesApart'
    <3>1. editor'.draft \in RowsFrom(source)
      BY <1>11, RowAtTyping DEF DuplicateRow, TablesApart, TypeOK, StoreOK
    <3> QED BY <3>1, <1>11 DEF DuplicateRow, EditorUnchanged, calls, TablesApart
  <2>2. ReadsApart'
    BY <1>11 DEF DuplicateRow, ReadsApart, store, calls,
       EditorUnchanged, ConfirmUnchanged
  <2> QED BY <2>1, <2>2
<1>12. ASSUME UpdateDraft PROVE Apart'
  <2>1. TablesApart'
    <3>1. /\ editor \in Editors /\ editor.open
          /\ editor.draft \in RowsFrom(source)
      BY <1>12 DEF UpdateDraft, TypeOK, StoreOK, TablesApart
    <3>2. acts + 1 \in 0..MaxActs
      BY <1>0, <1>12 DEF UpdateDraft, Act, TypeOK, HistoryOK
    <3>3. [editor.draft EXCEPT !.text = acts + 1] \in RowsFrom(source)
      BY <3>1, <3>2 DEF RowsFrom
    <3>4. editor'.draft = [editor.draft EXCEPT !.text = acts + 1]
      BY <1>12, <3>1 DEF UpdateDraft, Editors
    <3> QED BY <3>3, <3>4, <1>12
        DEF UpdateDraft, EditorUnchanged, calls, TablesApart
  <2>2. ReadsApart'
    BY <1>12 DEF UpdateDraft, ReadsApart, store, calls,
       EditorUnchanged, ConfirmUnchanged
  <2> QED BY <2>1, <2>2
<1>13. ASSUME CommitAndSave PROVE Apart'
  <2>1. TablesApart'
    <3>1. Committed \in Seq(RowsFrom(source))
      BY <1>13, CommittedTyping DEF CommitAndSave, TablesApart
    <3>2. \A s \in saves' : s.rows \in Seq(RowsFrom(s.source))
      BY <3>1, <1>13, SaveApart DEF CommitAndSave
    <3>3. ~editor'.open
      BY <1>13, CloseApart DEF CommitAndSave
    <3> QED BY <3>1, <3>2, <3>3, <1>13 DEF CommitAndSave, TablesApart
  <2>2. ReadsApart'
    BY <1>13, CloseApart DEF CommitAndSave
  <2> QED BY <2>1, <2>2
<1>14. ASSUME Save PROVE Apart'
  <2>1. TablesApart'
    <3>1. \A s \in saves' : s.rows \in Seq(RowsFrom(s.source))
      BY <1>14, SaveApart DEF Save, TablesApart
    <3> QED BY <3>1, <1>14 DEF Save, store, TablesApart
  <2>2. ReadsApart'
    BY <1>14 DEF Save, ReadsApart, store, calls,
       EditorUnchanged, ConfirmUnchanged
  <2> QED BY <2>1, <2>2
<1>15. ASSUME NEW s \in saves, WriteFile(s) PROVE Apart'
  <2>1. TablesApart'
    <3> DEFINE new == [s EXCEPT !.written = TRUE]
    <3>1. s \in SaveCalls /\ file \in [Sources -> Seq(Row)]
      BY DEF TypeOK, CallsOK
    <3>2. \A t \in Sources : file'[t] = IF t = s.source THEN s.rows
                                       ELSE file[t]
      BY <3>1, <1>15 DEF WriteFile, SaveCalls
    <3>3. new.rows = s.rows /\ new.source = s.source
      BY <3>1 DEF SaveCalls
    <3>4. saves' = (saves \ {s}) \cup {new}
      BY <1>15 DEF WriteFile
    <3> HIDE DEF new
    <3>5. UNCHANGED <<allRows, source, editor, confirm>>
      BY <1>15 DEF WriteFile, store
    <3> QED BY <3>2, <3>3, <3>4, <3>5 DEF TablesApart
  <2>2. ReadsApart'
    BY <1>15 DEF WriteFile, ReadsApart, store, calls,
       EditorUnchanged, ConfirmUnchanged
  <2> QED BY <2>1, <2>2
<1>16. ASSUME NEW s \in saves, SaveOk(s) PROVE Apart'
  <2>1. TablesApart'
    BY <1>16, CloseApart DEF SaveOk, TablesApart
  <2>2. ReadsApart'
    BY <1>16, CloseApart DEF SaveOk
  <2> QED BY <2>1, <2>2
<1>17. ASSUME NEW s \in saves, SaveFails(s) PROVE Apart'
  <2>1. TablesApart'
    BY <1>17 DEF SaveFails, TablesApart, store, calls,
       EditorUnchanged, ConfirmUnchanged, NoConfirm
  <2>2. ReadsApart'
    BY <1>17 DEF SaveFails, ReadsApart, store, calls,
       EditorUnchanged, ConfirmUnchanged
  <2> QED BY <2>1, <2>2
<1>18. ASSUME NEW i \in (DOMAIN allRows) \cup {editor.rowIndex}, RequestDelete(i) PROVE Apart'
  <2>1. TablesApart'
    BY <1>18 DEF RequestDelete, AskToDelete, TablesApart, store, calls,
       EditorUnchanged, ConfirmUnchanged, NoConfirm
  <2>2. ReadsApart'
    BY <1>18 DEF RequestDelete, ReadsApart, store, calls,
       EditorUnchanged, ConfirmUnchanged
  <2> QED BY <2>1, <2>2
<1>19. ASSUME Discard PROVE Apart'
  <2>1. TablesApart'
    <3>1. CASE CloseEditor
      BY <3>1, <1>19, CloseApart
         DEF Discard, ConfirmUnchanged, NoConfirm, TablesApart
    <3>2. CASE UNCHANGED <<editor, generation, reads, loading>>
      BY <3>2, <1>19 DEF Discard, ConfirmUnchanged, NoConfirm, TablesApart
    <3> QED BY <3>1, <3>2, <1>19 DEF Discard
  <2>2. ReadsApart'
    <3>1. CASE CloseEditor
      BY <3>1, <1>19, CloseApart DEF Discard, ConfirmUnchanged
    <3>2. CASE UNCHANGED <<editor, generation, reads, loading>>
      BY <3>2, <1>19 DEF Discard, ConfirmUnchanged, ReadsApart
    <3> QED BY <3>1, <3>2, <1>19 DEF Discard
  <2> QED BY <2>1, <2>2
<1>20. ASSUME NEW ok \in BOOLEAN, AnswerDelete(ok) PROVE Apart'
  <2>1. TablesApart'
    <3>1. allRows' \in Seq(RowsFrom(source))
      <4>1. confirm.index \in Nat
        BY DEF TypeOK, CallsOK, Dialogs
      <4>2. Deleted(confirm.index) \in Seq(RowsFrom(source))
        BY <4>1, DeletedTyping DEF TablesApart
      <4> QED BY <4>2, <1>20 DEF AnswerDelete, TablesApart
    <3>2. UNCHANGED <<file, source, saves>> /\ confirm'.what # "import"
      BY <1>20 DEF AnswerDelete, NoConfirm
    <3>3. CASE CloseEditor
      BY <3>1, <3>2, <3>3, CloseApart DEF TablesApart
    <3>4. CASE UNCHANGED <<editor, generation, reads, loading>>
      BY <3>1, <3>2, <3>4 DEF TablesApart
    <3> QED BY <3>3, <3>4, <1>20 DEF AnswerDelete
  <2>2. ReadsApart'
    <3>1. CASE CloseEditor
      BY <3>1, <1>20, CloseApart DEF AnswerDelete, ConfirmUnchanged
    <3>2. CASE UNCHANGED <<editor, generation, reads, loading>>
      BY <3>2, <1>20 DEF AnswerDelete, ConfirmUnchanged, ReadsApart
    <3> QED BY <3>1, <3>2, <1>20 DEF AnswerDelete
  <2> QED BY <2>1, <2>2
<1>21. ASSUME NEW ok \in BOOLEAN, AnswerDiscard(ok) PROVE Apart'
  <2>1. TablesApart'
    <3>1. CASE CloseEditor
      BY <3>1, <1>21, CloseApart
         DEF AnswerDiscard, ConfirmUnchanged, NoConfirm, TablesApart
    <3>2. CASE UNCHANGED <<editor, generation, reads, loading>>
      BY <3>2, <1>21 DEF AnswerDiscard, ConfirmUnchanged, NoConfirm, TablesApart
    <3> QED BY <3>1, <3>2, <1>21 DEF AnswerDiscard
  <2>2. ReadsApart'
    <3>1. CASE CloseEditor
      BY <3>1, <1>21, CloseApart DEF AnswerDiscard, ConfirmUnchanged
    <3>2. CASE UNCHANGED <<editor, generation, reads, loading>>
      BY <3>2, <1>21 DEF AnswerDiscard, ConfirmUnchanged, ReadsApart
    <3> QED BY <3>1, <3>2, <1>21 DEF AnswerDiscard
  <2> QED BY <2>1, <2>2
<1>22. ASSUME PickImport PROVE Apart'
  <2>1. TablesApart'
    BY <1>22 DEF PickImport, TablesApart, store, calls,
       EditorUnchanged, ConfirmUnchanged, NoConfirm
  <2>2. ReadsApart'
    BY <1>22 DEF PickImport, ReadsApart, store, calls,
       EditorUnchanged, ConfirmUnchanged
  <2> QED BY <2>1, <2>2
<1>23. ASSUME Previewed PROVE Apart'
  <2>1. TablesApart'
    <3>1. UNCHANGED <<file, source, saves, editor, allRows>>
      BY <1>23 DEF Previewed, store
    <3>2. confirm'.what = "import" => source = "knowledge"
      BY <1>23 DEF Previewed, TablesApart
    <3> QED BY <3>1, <3>2 DEF TablesApart
  <2>2. ReadsApart'
    BY <1>23 DEF Previewed, ReadsApart, store, calls,
       EditorUnchanged, ConfirmUnchanged
  <2> QED BY <2>1, <2>2
<1>24. ASSUME PreviewFails PROVE Apart'
  <2>1. TablesApart'
    BY <1>24 DEF PreviewFails, TablesApart, store, calls,
       EditorUnchanged, ConfirmUnchanged, NoConfirm
  <2>2. ReadsApart'
    BY <1>24 DEF PreviewFails, ReadsApart, store, calls,
       EditorUnchanged, ConfirmUnchanged
  <2> QED BY <2>1, <2>2
<1>25. ASSUME NEW ok \in BOOLEAN, AnswerImport(ok) PROVE Apart'
  <2>1. TablesApart'
    <3>1. RowsOf("knowledge", ImportedFile) \in Seq(RowsFrom("knowledge"))
      BY RowsOfTyping, ConstantsAssumption DEF Sources
    <3>2. source = "knowledge"
      BY <1>25 DEF AnswerImport, TablesApart
    <3>3. allRows' \in Seq(RowsFrom(source))
      BY <3>1, <3>2, <1>25 DEF AnswerImport, TablesApart
    <3>4. UNCHANGED <<file, source, saves, editor>>
          /\ confirm'.what # "import"
      BY <1>25 DEF AnswerImport, NoConfirm, calls
    <3> QED BY <3>3, <3>4 DEF TablesApart
  <2>2. ReadsApart'
    <3>1. UNCHANGED <<reads, source, generation>>
      BY <1>25 DEF AnswerImport, calls
    <3> QED BY <3>1 DEF ReadsApart
  <2> QED BY <2>1, <2>2
<1>26. ASSUME ValidateAll PROVE Apart'
  <2>1. TablesApart'
    BY <1>26 DEF ValidateAll, TablesApart, store, calls,
       EditorUnchanged, ConfirmUnchanged, NoConfirm
  <2>2. ReadsApart'
    BY <1>26 DEF ValidateAll, ReadsApart, store, calls,
       EditorUnchanged, ConfirmUnchanged
  <2> QED BY <2>1, <2>2
<1>27. ASSUME RunValidator PROVE Apart'
  <2>1. TablesApart'
    BY <1>27 DEF RunValidator, TablesApart, store, calls,
       EditorUnchanged, ConfirmUnchanged, NoConfirm
  <2>2. ReadsApart'
    BY <1>27 DEF RunValidator, ReadsApart, store, calls,
       EditorUnchanged, ConfirmUnchanged
  <2> QED BY <2>1, <2>2
<1>28. ASSUME ApplyValidation PROVE Apart'
  <2>1. TablesApart'
    BY <1>28 DEF ApplyValidation, TablesApart, store, calls,
       EditorUnchanged, ConfirmUnchanged, NoConfirm
  <2>2. ReadsApart'
    BY <1>28 DEF ApplyValidation, ReadsApart, store, calls,
       EditorUnchanged, ConfirmUnchanged
  <2> QED BY <2>1, <2>2
<1>29. ASSUME ValidatorFails PROVE Apart'
  <2>1. TablesApart'
    BY <1>29 DEF ValidatorFails, TablesApart, store, calls,
       EditorUnchanged, ConfirmUnchanged, NoConfirm
  <2>2. ReadsApart'
    BY <1>29 DEF ValidatorFails, ReadsApart, store, calls,
       EditorUnchanged, ConfirmUnchanged
  <2> QED BY <2>1, <2>2
<1>30. ASSUME DismissReport PROVE Apart'
  <2>1. TablesApart'
    BY <1>30 DEF DismissReport, TablesApart, store, calls,
       EditorUnchanged, ConfirmUnchanged, NoConfirm
  <2>2. ReadsApart'
    BY <1>30 DEF DismissReport, ReadsApart, store, calls,
       EditorUnchanged, ConfirmUnchanged
  <2> QED BY <2>1, <2>2
<1>31. ASSUME ToggleSort \/ SetCategory \/ \E i \in Nat : JumpToRow(i)
       PROVE  Apart'
  <2>1. TablesApart'
    BY <1>31 DEF ToggleSort, SetCategory, JumpToRow, ViewUnchanged, calls,
       TablesApart
  <2>2. ReadsApart'
    BY <1>31 DEF ToggleSort, SetCategory, JumpToRow, ViewUnchanged, calls,
       ReadsApart
  <2> QED BY <2>1, <2>2
<1>32. ASSUME NEW i \in Nat, TurnTo(i) PROVE Apart'
  <2>1. TablesApart'
    <3>1. source \in Sources /\ allRows \in Seq(RowsFrom(source))
      BY DEF TypeOK, StoreOK, TablesApart
    <3>2. RowAt(i) \in RowsFrom(source)
      BY <3>1, RowAtTyping
    <3> QED BY <3>2, <1>32 DEF TurnTo, EditorUnchanged, calls, TablesApart
  <2>2. ReadsApart'
    BY <1>32 DEF TurnTo, EditorUnchanged, calls, ReadsApart
  <2> QED BY <2>1, <2>2
<1>33. /\ NextIndex \in Nat /\ PrevIndex \in Nat
       /\ validation.errors \subseteq Nat
  BY IndexesTyping DEF TypeOK, StoreOK, Reports
<1>34. CASE UNCHANGED vars
  BY <1>34 DEF vars, store, calls, TablesApart, ReadsApart
<1> QED
    BY <1>1, <1>2, <1>3, <1>4, <1>5, <1>6, <1>7, <1>8, <1>9,
       <1>10, <1>11, <1>12, <1>13, <1>14, <1>15, <1>16, <1>17, <1>18,
       <1>19, <1>20, <1>21, <1>22, <1>23, <1>24, <1>25, <1>26, <1>27,
       <1>28, <1>29, <1>30, <1>31, <1>32, <1>33, <1>34
    DEF Next, UserActs, UserAnswers, System, Answer, Failures

(* Whatever the user does and however late the answers are: no row of one  *)
(* file is ever saved into the other.                                      *)
THEOREM SeparateFiles == Spec => []RowsStayInTheirFile
<1>1. Init => TypeOK /\ Apart
  BY FirstState, FirstApart
<1>2. TypeOK /\ Apart /\ [Next]_vars => TypeOK' /\ Apart'
  BY StepTyping, StepApart
<1>3. Apart => RowsStayInTheirFile
  <2> SUFFICES ASSUME Apart, NEW s \in Sources, NEW i \in DOMAIN file[s]
               PROVE  file[s][i].of = s
    BY DEF RowsStayInTheirFile
  <2>1. file[s] \in Seq(RowsFrom(s))
    BY DEF Apart, TablesApart
  <2>2. file[s][i] \in RowsFrom(s)
    BY <2>1
  <2> QED BY <2>2 DEF RowsFrom
<1> QED BY <1>1, <1>2, <1>3, PTL DEF Spec

-----------------------------------------------------------------------------
(* Tables as bags                                                          *)

Places(rows, x) == {i \in DOMAIN rows : rows[i] = x}
Copies(rows, x) == Cardinality(Places(rows, x))

(* A row has finitely many places.                                         *)
LEMMA PlacesFinite ==
    ASSUME NEW R, NEW rows \in Seq(R), NEW x
    PROVE  /\ IsFiniteSet(Places(rows, x)) /\ Copies(rows, x) \in Nat
           /\ x \in ToSetOf(rows) <=> Copies(rows, x) > 0
<1>1. Places(rows, x) \subseteq 1..Len(rows)
  BY DEF Places
<1>2. IsFiniteSet(1..Len(rows))
  BY FS_Interval
<1>3. IsFiniteSet(Places(rows, x)) /\ Copies(rows, x) \in Nat
  BY <1>1, <1>2, FS_Subset, FS_CardinalityType DEF Copies
<1>4. Copies(rows, x) = 0 <=> Places(rows, x) = {}
  BY <1>3, FS_EmptySet DEF Copies
<1>5. x \in ToSetOf(rows) <=> Places(rows, x) # {}
  BY DEF ToSetOf, Places
<1> QED BY <1>3, <1>4, <1>5

(* The bag of a table has its rows, each as often as it has a place.       *)
LEMMA BagOfRows ==
    ASSUME NEW rows
    PROVE  ToBag(rows) = [x \in ToSetOf(rows) |-> Copies(rows, x)]
BY DEF ToBag, Copies, Places

(* A table with one more row.                                              *)
LEMMA BagAppended ==
    ASSUME NEW R, NEW rows \in Seq(R), NEW d \in R
    PROVE  ToBag(Append(rows, d)) = ToBag(rows) (+) SetToBag({d})
<1> DEFINE more == Append(rows, d)
<1>1. /\ more \in Seq(R) /\ Len(more) = Len(rows) + 1 /\ Len(rows) \in Nat
      /\ DOMAIN more = 1..(Len(rows) + 1) /\ DOMAIN rows = 1..Len(rows)
      /\ \A i \in 1..Len(rows) : more[i] = rows[i]
      /\ more[Len(rows) + 1] = d
  OBVIOUS
<1> HIDE DEF more
<1>2. Places(more, d) = Places(rows, d) \cup {Len(rows) + 1}
  BY <1>1 DEF Places
<1>3. \A x : x # d => Places(more, x) = Places(rows, x)
  BY <1>1 DEF Places
<1>4. Len(rows) + 1 \notin Places(rows, d)
  BY <1>1 DEF Places
<1>5. Copies(more, d) = Copies(rows, d) + 1
  BY <1>2, <1>4, PlacesFinite, FS_AddElement DEF Copies
<1>6. \A x : x # d => Copies(more, x) = Copies(rows, x)
  BY <1>3 DEF Copies
<1>7. ToSetOf(more) = ToSetOf(rows) \cup {d}
  BY <1>1 DEF ToSetOf
<1>8. \A x : x \in ToSetOf(rows) <=> Copies(rows, x) > 0
  BY PlacesFinite
<1>9. \A x : Copies(rows, x) \in Nat
  BY PlacesFinite
<1>10. ToBag(rows) (+) SetToBag({d})
         = [x \in ToSetOf(rows) \cup {d} |->
              (IF x \in ToSetOf(rows) THEN Copies(rows, x) ELSE 0)
                + (IF x \in {d} THEN 1 ELSE 0)]
  BY BagOfRows DEF (+), SetToBag
<1>11. \A x \in ToSetOf(rows) \cup {d} :
         Copies(more, x) = (IF x \in ToSetOf(rows) THEN Copies(rows, x) ELSE 0)
                             + (IF x \in {d} THEN 1 ELSE 0)
  BY <1>5, <1>6, <1>8, <1>9
<1>12. ToBag(more) = [x \in ToSetOf(rows) \cup {d} |-> Copies(more, x)]
  BY <1>7, BagOfRows
<1> QED BY <1>10, <1>11, <1>12 DEF more

(* A table that has one row once less, and every other row as often.       *)
LEMMA SameCopies ==
    ASSUME NEW R, NEW rows \in Seq(R), NEW i \in DOMAIN rows,
           NEW rest \in Seq(R),
           \A x : Copies(rest, x) =
               IF x = rows[i] THEN Copies(rows, x) - 1 ELSE Copies(rows, x)
    PROVE  ToBag(rest) = ToBag(rows) (-) SetToBag({rows[i]})
<1> DEFINE d == rows[i]
           B == [x \in ToSetOf(rows) |->
                   IF x \in {d} THEN Copies(rows, x) - 1 ELSE Copies(rows, x)]
<1>1. ToBag(rows) (-) SetToBag({d})
        = [x \in {e \in DOMAIN B : B[e] > 0} |-> B[x]]
  BY BagOfRows DEF (-), SetToBag
<1>2. \A x \in ToSetOf(rows) : B[x] = Copies(rest, x)
  OBVIOUS
<1>3. DOMAIN B = ToSetOf(rows)
  OBVIOUS
<1>4. \A x : x \in ToSetOf(rest) => x \in ToSetOf(rows)
  <2> SUFFICES ASSUME NEW x, x \in ToSetOf(rest) PROVE x \in ToSetOf(rows)
    OBVIOUS
  <2>1. Copies(rest, x) > 0 /\ Copies(rows, x) \in Nat /\ Copies(rest, x) \in Nat
    BY PlacesFinite
  <2>2. Copies(rows, x) > 0
    BY <2>1
  <2> QED BY <2>2, PlacesFinite
<1>5. \A x : x \in ToSetOf(rest) <=> Copies(rest, x) > 0
  BY PlacesFinite
<1> HIDE DEF B
<1>6. {e \in DOMAIN B : B[e] > 0} = ToSetOf(rest)
  BY <1>2, <1>3, <1>4, <1>5
<1>7. ToBag(rest) = [x \in ToSetOf(rest) |-> Copies(rest, x)]
  BY BagOfRows
<1> QED BY <1>1, <1>2, <1>4, <1>6, <1>7

(* A table without the row at an index.                                    *)
LEMMA BagWithout ==
    ASSUME NEW R, NEW rows \in Seq(R), NEW i \in DOMAIN rows
    PROVE  LET rest == SubSeq(rows, 1, i - 1)
                          \o SubSeq(rows, i + 1, Len(rows)) IN
           ToBag(rest) = ToBag(rows) (-) SetToBag({rows[i]})
<1> DEFINE rest == SubSeq(rows, 1, i - 1) \o SubSeq(rows, i + 1, Len(rows))
           n == Len(rows)
<1>1. n \in Nat /\ i \in 1..n /\ DOMAIN rows = 1..n
  OBVIOUS
<1>2. /\ rest \in Seq(R) /\ DOMAIN rest = 1..(n - 1)
      /\ \A j \in 1..(n - 1) : rest[j] = rows[IF j < i THEN j ELSE j + 1]
  <2> DEFINE before == SubSeq(rows, 1, i - 1)
             after == SubSeq(rows, i + 1, n)
  <2>1. /\ before \in Seq(R) /\ Len(before) = i - 1
        /\ \A j \in 1..(i - 1) : before[j] = rows[j]
    BY <1>1
  <2>2. /\ after \in Seq(R) /\ Len(after) = n - i
        /\ \A j \in 1..(n - i) : after[j] = rows[i + j]
    BY <1>1
  <2>3. rest = before \o after
    OBVIOUS
  <2> HIDE DEF before, after, rest, n
  <2>4. /\ rest \in Seq(R) /\ Len(rest) = n - 1
        /\ \A j \in 1..(i - 1) : rest[j] = before[j]
        /\ \A j \in i..(n - 1) : rest[j] = after[j - (i - 1)]
    <3>1. /\ rest \in Seq(R) /\ Len(rest) = (i - 1) + (n - i)
          /\ \A j \in 1..((i - 1) + (n - i)) :
                rest[j] = IF j <= i - 1 THEN before[j] ELSE after[j - (i - 1)]
      <4>1. before \in Seq(R) /\ after \in Seq(R)
        BY <2>1, <2>2
      <4>2. /\ before \o after \in Seq(R)
            /\ Len(before \o after) = Len(before) + Len(after)
            /\ \A j \in 1..(Len(before) + Len(after)) :
                  (before \o after)[j] = IF j <= Len(before) THEN before[j]
                                         ELSE after[j - Len(before)]
        BY <4>1, ConcatProperties, Zenon
      <4>3. Len(before) = i - 1 /\ Len(after) = n - i
        BY <2>1, <2>2
      <4> QED BY <4>2, <4>3, <2>3, Zenon
    <3>2. (i - 1) + (n - i) = n - 1
      BY <1>1
    <3>3. \A j \in 1..(i - 1) : j \in 1..(n - 1) /\ j <= i - 1
      BY <1>1
    <3>4. \A j \in i..(n - 1) : j \in 1..(n - 1) /\ ~(j <= i - 1)
      BY <1>1
    <3> QED BY <3>1, <3>2, <3>3, <3>4
  <2>5. ASSUME NEW j \in i..(n - 1) PROVE rest[j] = rows[j + 1]
    <3>1. j - (i - 1) \in 1..(n - i) /\ i + (j - (i - 1)) = j + 1
      BY <1>1
    <3>2. after[j - (i - 1)] = rows[i + (j - (i - 1))]
      BY <3>1, <2>2
    <3> QED BY <3>1, <3>2, <2>4
  <2> QED BY <1>1, <2>1, <2>4, <2>5
<1> HIDE DEF rest, n
<1>3. ASSUME NEW x
      PROVE  Copies(rest, x) =
               IF x = rows[i] THEN Copies(rows, x) - 1 ELSE Copies(rows, x)
  <2> DEFINE S == Places(rows, x) \ {i}
             T == Places(rest, x)
             f == [j \in S |-> IF j < i THEN j ELSE j - 1]
  <2>1. S = {j \in 1..n : rows[j] = x /\ j # i}
    BY <1>1 DEF Places
  <2>2. T = {j \in 1..(n - 1) : rows[IF j < i THEN j ELSE j + 1] = x}
    BY <1>2 DEF Places
  <2>3. f \in [S -> T]
    BY <1>1, <2>1, <2>2
  <2>4. \A j, k \in S : f[j] = f[k] => j = k
    BY <1>1, <2>1
  <2>5. \A k \in T : \E j \in S : f[j] = k
    <3> SUFFICES ASSUME NEW k \in T PROVE \E j \in S : f[j] = k
      OBVIOUS
    <3>1. CASE k < i
      BY <1>1, <2>1, <2>2, <3>1
    <3>2. CASE ~(k < i)
      <4>1. k + 1 \in S /\ f[k + 1] = k
        BY <1>1, <2>1, <2>2, <3>2
      <4> QED BY <4>1
    <3> QED BY <3>1, <3>2
  <2> HIDE DEF f
  <2>6. f \in Bijection(S, T)
    BY <2>3, <2>4, <2>5, Fun_IsBij
  <2>7. ExistsBijection(S, T)
    BY <2>6 DEF ExistsBijection
  <2>8. /\ IsFiniteSet(S)
        /\ Cardinality(S) = IF i \in Places(rows, x)
                            THEN Copies(rows, x) - 1 ELSE Copies(rows, x)
    BY PlacesFinite, FS_RemoveElement DEF Copies
  <2>9. Copies(rest, x) = Cardinality(S)
    BY <2>7, <2>8, FS_Bijection DEF Copies
  <2>10. i \in Places(rows, x) <=> x = rows[i]
    BY DEF Places
  <2> QED BY <2>8, <2>9, <2>10
<1> QED BY <1>2, <1>3, SameCopies DEF rest, n

(* A table with another row at an index.                                   *)
LEMMA BagReplaced ==
    ASSUME NEW R, NEW rows \in Seq(R), NEW i \in DOMAIN rows, NEW d \in R
    PROVE  ToBag([j \in DOMAIN rows |-> IF j = i THEN d ELSE rows[j]])
             = (ToBag(rows) (-) SetToBag({rows[i]})) (+) SetToBag({d})
<1> DEFINE new == [j \in DOMAIN rows |-> IF j = i THEN d ELSE rows[j]]
           old == rows[i]
           less(x) == IF x = old THEN Copies(rows, x) - 1 ELSE Copies(rows, x)
<1>1. /\ new \in Seq(R) /\ DOMAIN new = DOMAIN rows /\ new[i] = d
      /\ \A j \in DOMAIN rows \ {i} : new[j] = rows[j]
  OBVIOUS
<1> HIDE DEF new
<1>2. Places(new, d) = (Places(rows, d) \ {i}) \cup {i}
  BY <1>1 DEF Places
<1>3. \A x : x # d => Places(new, x) = Places(rows, x) \ {i}
  BY <1>1 DEF Places
<1>4. ASSUME NEW x
      PROVE  /\ IsFiniteSet(Places(rows, x) \ {i})
             /\ Cardinality(Places(rows, x) \ {i}) = less(x)
             /\ less(x) \in Nat
  <2>1. i \in Places(rows, x) <=> x = old
    BY DEF Places
  <2>2. IsFiniteSet(Places(rows, x))
    BY PlacesFinite
  <2>3. /\ IsFiniteSet(Places(rows, x) \ {i})
        /\ Cardinality(Places(rows, x) \ {i})
             = IF i \in Places(rows, x) THEN Cardinality(Places(rows, x)) - 1
               ELSE Cardinality(Places(rows, x))
    BY <2>2, FS_RemoveElement
  <2>4. Cardinality(Places(rows, x) \ {i}) \in Nat
    BY <2>3, FS_CardinalityType
  <2>5. Cardinality(Places(rows, x) \ {i}) = less(x)
    BY <2>1, <2>3 DEF Copies
  <2> QED BY <2>3, <2>4, <2>5
<1>5. Copies(new, d) = less(d) + 1
  <2>1. i \notin Places(rows, d) \ {i}
    OBVIOUS
  <2>2. Cardinality(Places(new, d)) = Cardinality(Places(rows, d) \ {i}) + 1
    BY <1>2, <1>4, <2>1, FS_AddElement
  <2> HIDE DEF less
  <2> QED BY <1>4, <2>2 DEF Copies
<1>6. \A x : x # d => Copies(new, x) = less(x)
  BY <1>3, <1>4 DEF Copies
<1>7. \A x : /\ x \in ToSetOf(new) <=> Copies(new, x) > 0
             /\ x \in ToSetOf(rows) <=> Copies(rows, x) > 0
             /\ Copies(rows, x) \in Nat
  BY <1>1, PlacesFinite
<1>8. \A x : less(x) \in Nat
  BY <1>4
<1> DEFINE B == [x \in ToSetOf(rows) |->
                   IF x \in {old} THEN Copies(rows, x) - 1
                   ELSE Copies(rows, x)]
           Left == {e \in DOMAIN B : B[e] > 0}
<1>9. ToBag(rows) (-) SetToBag({old}) = [x \in Left |-> B[x]]
  BY BagOfRows DEF (-), SetToBag
<1>10. DOMAIN B = ToSetOf(rows) /\ \A x \in ToSetOf(rows) : B[x] = less(x)
  OBVIOUS
<1> HIDE DEF B
<1>11. \A x : x \in Left <=> x \in ToSetOf(rows) /\ less(x) > 0
  BY <1>10
<1>12. \A x : x \in Left <=> less(x) > 0
  <2>1. \A x : less(x) > 0 => Copies(rows, x) > 0
    BY <1>7
  <2> QED BY <1>7, <1>11, <2>1
<1>13. \A x \in Left : B[x] = less(x)
  BY <1>10, <1>11
<1> HIDE DEF less, Left
<1>14. [x \in Left |-> B[x]] (+) SetToBag({d})
         = [x \in Left \cup {d} |->
              (IF x \in Left THEN B[x] ELSE 0) + (IF x \in {d} THEN 1 ELSE 0)]
  BY DEF (+), SetToBag
<1>15. \A x : x \in ToSetOf(new) <=> x \in Left \cup {d}
  BY <1>5, <1>6, <1>7, <1>8, <1>12
<1>16. \A x \in Left \cup {d} :
         Copies(new, x)
           = (IF x \in Left THEN B[x] ELSE 0) + (IF x \in {d} THEN 1 ELSE 0)
  BY <1>5, <1>6, <1>8, <1>12, <1>13
<1>17. ToSetOf(new) = Left \cup {d}
  BY <1>15
<1>18. ToBag(new) = [x \in Left \cup {d} |-> Copies(new, x)]
  BY <1>17, BagOfRows
<1> QED BY <1>9, <1>14, <1>16, <1>18 DEF new

-----------------------------------------------------------------------------
(* What the user asked for                                                 *)

OneSave == \A s, t \in saves : s = t

(* A save under way is one of the table that is shown, which stays unsaved *)
(* until it is answered.                                                   *)
SavesAreShown == \A s \in saves :
    /\ s.source = source /\ tableDirty
    /\ s.written => file[source] = s.rows

TableIsWanted == tableDirty \/ current => ToBag(allRows) = wanted[source]
FilesAreWanted == \A s \in Sources :
    (s = source /\ tableDirty) \/ ToBag(file[s]) = wanted[s]

Followed == OneSave /\ SavesAreShown /\ TableIsWanted /\ FilesAreWanted

(* The editor and a dialog name the row that is at their index.            *)
IndexesHold ==
    /\ Points => /\ editor.rowIndex \in DOMAIN allRows
                 /\ allRows[editor.rowIndex] = editor.asked
    /\ confirm.what = "delete" => /\ confirm.index \in DOMAIN allRows
                                  /\ allRows[confirm.index] = confirm.row

Table == <<file, source, allRows, tableDirty, current, wanted, saves>>

(* A step that touches neither tables, files nor saves.                    *)
LEMMA QuietTable == ASSUME Followed, UNCHANGED Table PROVE Followed'
BY DEF Followed, Table, OneSave, SavesAreShown, TableIsWanted, FilesAreWanted

(* One that touches neither the table, the editor nor the dialog.          *)
LEMMA QuietIndexes ==
    ASSUME IndexesHold, UNCHANGED <<allRows, editor, confirm>>
    PROVE  IndexesHold'
BY DEF IndexesHold, Points

(* One that opens no dialog to delete a row and leaves the editor be, or   *)
(* without a row it points to.                                             *)
LEMMA IndexesDropped ==
    ASSUME IndexesHold, UNCHANGED allRows,
           UNCHANGED editor \/ ~Points',
           UNCHANGED confirm \/ confirm'.what # "delete"
    PROVE  IndexesHold'
BY DEF IndexesHold, Points

(* A closed editor points to no row.                                       *)
LEMMA ClosedPointsNowhere == CloseEditor => ~Points'
BY DEF CloseEditor, NoEditor, Points

(* A save starts, when nothing goes wrong, from the whole table and alone. *)
LEMMA SaveFollowed ==
    ASSUME OneSave, NEW rows, StartSave(rows), mishaps' = {}
    PROVE  /\ mishaps = {} /\ current /\ saves = {}
           /\ ~(Points /\ confirm.what = "delete")
           /\ \A s, t \in saves' : s = t
           /\ \A s \in saves' : s.source = source /\ ~s.written
<1>1. mishaps = {} /\ current /\ saves = {} /\ ~(Points /\ confirm.what = "delete")
  BY DEF StartSave
<1>2. PICK new : new = [source |-> source, rows |-> rows, act |-> acts + 1,
                        written |-> FALSE]
  OBVIOUS
<1>3. saves' = {new} /\ new.source = source /\ ~new.written
  BY <1>1, <1>2 DEF StartSave
<1> QED BY <1>1, <1>3

(* Every step by which nothing goes wrong keeps what was asked for.        *)
LEMMA StepFollowed ==
    ASSUME TypeOK, Apart, mishaps = {} => Followed /\ IndexesHold,
           [Next]_vars, mishaps' = {}
    PROVE  Followed' /\ IndexesHold'
<1>0. mishaps = {}
  <2>1. ASSUME NEW r \in reads, Receive(r) PROVE mishaps \subseteq mishaps'
    BY <2>1 DEF Receive, Applied, ApplyPage
  <2>2. ASSUME UserActs PROVE mishaps \subseteq mishaps'
    BY <2>2 DEF UserActs, Reopen, ClearSearch, NewRow, DuplicateRow,
       UpdateDraft, CommitAndSave, StartSave, Save, Discard, PickImport,
       ValidateAll, DismissReport, SetSource, OnSearch, OpenEditor,
       RequestDelete, AskToDelete, Aim, ToggleSort, SetCategory, JumpToRow,
       TurnTo, history, ViewUnchanged, EditorUnchanged, ConfirmUnchanged
  <2>3. ASSUME NEW ok \in BOOLEAN,
               AnswerDelete(ok) \/ AnswerDiscard(ok) \/ AnswerImport(ok)
        PROVE  mishaps \subseteq mishaps'
    BY <2>3 DEF AnswerDelete, AnswerDiscard, AnswerImport, history,
       ConfirmUnchanged
  <2>4. ASSUME System \/ Failures, \A r \in reads : ~Receive(r)
        PROVE  mishaps \subseteq mishaps'
    BY <2>4 DEF System, Failures, Answer, RunSearch, RunValidator,
       ApplyValidation, Previewed, ReadFile, WriteFile, SaveOk, PreviewFails,
       ValidatorFails, ReadFails, SaveFails, history
  <2>5. CASE UNCHANGED vars
    BY <2>5 DEF vars, history
  <2> QED BY <2>1, <2>2, <2>3, <2>4, <2>5 DEF Next, UserAnswers
<1>a. /\ OneSave /\ SavesAreShown /\ TableIsWanted /\ FilesAreWanted
      /\ IndexesHold /\ Followed
  BY <1>0 DEF Followed
<1>b. /\ DOMAIN wanted = Sources /\ source \in Sources
      /\ tableDirty \in BOOLEAN /\ current \in BOOLEAN
      /\ allRows \in Seq(Row)
      /\ saves \subseteq SaveCalls /\ file \in [Sources -> Seq(Row)]
  BY DEF TypeOK, StoreOK, CallsOK, HistoryOK
<1>1. CASE UNCHANGED vars
  <2>1. UNCHANGED Table /\ UNCHANGED <<allRows, editor, confirm>>
    BY <1>1 DEF vars, store, calls, history, Table
  <2> QED BY <2>1, <1>a, QuietTable, QuietIndexes
<1>2. ASSUME Reopen PROVE Followed' /\ IndexesHold'
  <2>1. UNCHANGED Table /\ UNCHANGED <<allRows, editor, confirm>>
    BY <1>2 DEF Reopen, Reload, store, calls, history, Table
  <2> QED BY <2>1, <1>a, QuietTable, QuietIndexes
<1>3. ASSUME NEW q \in Queries, OnSearch(q) PROVE Followed' /\ IndexesHold'
  <2>1. UNCHANGED Table /\ UNCHANGED <<allRows, editor, confirm>>
    BY <1>3 DEF OnSearch, store, calls, history, Table
  <2> QED BY <2>1, <1>a, QuietTable, QuietIndexes
<1>4. ASSUME ClearSearch PROVE Followed' /\ IndexesHold'
  <2>1. UNCHANGED Table /\ UNCHANGED <<allRows, editor, confirm>>
    BY <1>4 DEF ClearSearch, store, calls, history, Table
  <2> QED BY <2>1, <1>a, QuietTable, QuietIndexes
<1>5. ASSUME RunSearch PROVE Followed' /\ IndexesHold'
  <2>1. UNCHANGED Table /\ UNCHANGED <<allRows, editor, confirm>>
    BY <1>5 DEF RunSearch, store, calls, history, Table
  <2> QED BY <2>1, <1>a, QuietTable, QuietIndexes
<1>6. ASSUME NEW r \in reads, ReadFile(r) PROVE Followed' /\ IndexesHold'
  <2>1. UNCHANGED Table /\ UNCHANGED <<allRows, editor, confirm>>
    BY <1>6 DEF ReadFile, store, calls, history, Table
  <2> QED BY <2>1, <1>a, QuietTable, QuietIndexes
<1>7. ASSUME NEW r \in reads, ReadFails(r) PROVE Followed' /\ IndexesHold'
  <2>1. UNCHANGED Table /\ UNCHANGED <<allRows, editor, confirm>>
    BY <1>7 DEF ReadFails, store, calls, history, Table
  <2> QED BY <2>1, <1>a, QuietTable, QuietIndexes
<1>8. ASSUME PickImport PROVE Followed' /\ IndexesHold'
  <2>1. UNCHANGED Table /\ UNCHANGED <<allRows, editor, confirm>>
    BY <1>8 DEF PickImport, store, calls, history, Table
  <2> QED BY <2>1, <1>a, QuietTable, QuietIndexes
<1>9. ASSUME PreviewFails PROVE Followed' /\ IndexesHold'
  <2>1. UNCHANGED Table /\ UNCHANGED <<allRows, editor, confirm>>
    BY <1>9 DEF PreviewFails, store, calls, history, Table
  <2> QED BY <2>1, <1>a, QuietTable, QuietIndexes
<1>10. ASSUME ValidateAll PROVE Followed' /\ IndexesHold'
  <2>1. UNCHANGED Table /\ UNCHANGED <<allRows, editor, confirm>>
    BY <1>10 DEF ValidateAll, store, calls, history, Table
  <2> QED BY <2>1, <1>a, QuietTable, QuietIndexes
<1>11. ASSUME RunValidator PROVE Followed' /\ IndexesHold'
  <2>1. UNCHANGED Table /\ UNCHANGED <<allRows, editor, confirm>>
    BY <1>11 DEF RunValidator, store, calls, history, Table
  <2> QED BY <2>1, <1>a, QuietTable, QuietIndexes
<1>12. ASSUME ApplyValidation PROVE Followed' /\ IndexesHold'
  <2>1. UNCHANGED Table /\ UNCHANGED <<allRows, editor, confirm>>
    BY <1>12 DEF ApplyValidation, store, calls, history, Table
  <2> QED BY <2>1, <1>a, QuietTable, QuietIndexes
<1>13. ASSUME ValidatorFails PROVE Followed' /\ IndexesHold'
  <2>1. UNCHANGED Table /\ UNCHANGED <<allRows, editor, confirm>>
    BY <1>13 DEF ValidatorFails, store, calls, history, Table
  <2> QED BY <2>1, <1>a, QuietTable, QuietIndexes
<1>14. ASSUME DismissReport PROVE Followed' /\ IndexesHold'
  <2>1. UNCHANGED Table /\ UNCHANGED <<allRows, editor, confirm>>
    BY <1>14 DEF DismissReport, store, calls, history, Table
  <2> QED BY <2>1, <1>a, QuietTable, QuietIndexes
<1>15. ASSUME NEW i \in DOMAIN allRows, OpenEditor(i) PROVE Followed' /\ IndexesHold'
  <2>1. UNCHANGED Table
    BY <1>15 DEF OpenEditor, store, calls, history, Table, EditorUnchanged, ConfirmUnchanged
  <2>2. IndexesHold'
    <3>1. /\ editor'.rowIndex = i /\ editor'.asked = RowShown(i)
          /\ UNCHANGED <<allRows, confirm>>
      BY <1>15 DEF OpenEditor, EditorUnchanged
    <3>2. RowShown(i) = RowAt(i)
      BY <1>15 DEF OpenEditor, Aim
    <3>3. RowAt(i) = allRows[i]
      BY DEF RowAt
    <3> QED BY <3>1, <3>2, <3>3, <1>a DEF IndexesHold
  <2> QED BY <2>1, <2>2, <1>a, QuietTable
<1>16. ASSUME NewRow PROVE Followed' /\ IndexesHold'
  <2>1. UNCHANGED Table
    BY <1>16 DEF NewRow, store, calls, history, Table, EditorUnchanged, ConfirmUnchanged
  <2>2. IndexesHold'
    <3>1. ~Points' /\ UNCHANGED <<allRows, confirm>>
      BY <1>16 DEF NewRow, EditorUnchanged, Points
    <3> QED BY <3>1, <1>a, IndexesDropped
  <2> QED BY <2>1, <2>2, <1>a, QuietTable
<1>17. ASSUME DuplicateRow PROVE Followed' /\ IndexesHold'
  <2>1. UNCHANGED Table
    BY <1>17 DEF DuplicateRow, store, calls, history, Table, EditorUnchanged, ConfirmUnchanged
  <2>2. IndexesHold'
    <3>1. ~Points' /\ UNCHANGED <<allRows, confirm>>
      BY <1>17 DEF DuplicateRow, EditorUnchanged, Points
    <3> QED BY <3>1, <1>a, IndexesDropped
  <2> QED BY <2>1, <2>2, <1>a, QuietTable
<1>18. ASSUME UpdateDraft PROVE Followed' /\ IndexesHold'
  <2>1. UNCHANGED Table
    BY <1>18 DEF UpdateDraft, store, calls, history, Table, EditorUnchanged, ConfirmUnchanged
  <2>2. IndexesHold'
    <3>1. /\ UNCHANGED <<allRows, confirm, editor.open, editor.isNew,
                         editor.rowIndex, editor.asked>>
      BY <1>18 DEF UpdateDraft, EditorUnchanged, TypeOK, StoreOK, Editors
    <3> QED BY <3>1, <1>a DEF IndexesHold, Points
  <2> QED BY <2>1, <2>2, <1>a, QuietTable
<1>19. ASSUME NEW i \in (DOMAIN allRows) \cup {editor.rowIndex}, RequestDelete(i) PROVE Followed' /\ IndexesHold'
  <2>1. UNCHANGED Table
    BY <1>19 DEF RequestDelete, store, calls, history, Table, EditorUnchanged, ConfirmUnchanged
  <2>2. IndexesHold'
    <3>1. /\ UNCHANGED <<allRows, editor>>
          /\ confirm'.index = i /\ confirm'.row = RowAt(i)
          /\ i \in DOMAIN Visible \/ (Points /\ i = editor.rowIndex)
      <4>1. ASSUME NEW asked, AskToDelete(asked, i)
            PROVE  confirm'.index = i /\ confirm'.row = RowAt(i)
        BY <4>1 DEF AskToDelete, Aim
      <4> QED BY <4>1, <1>19 DEF RequestDelete, ConfirmUnchanged
    <3>2. i \in DOMAIN allRows
      BY <3>1, <1>a, VisiblePlaces DEF IndexesHold
    <3> QED BY <3>1, <3>2, <1>a DEF IndexesHold, RowAt, Points
  <2> QED BY <2>1, <2>2, <1>a, QuietTable
<1>20. ASSUME Discard PROVE Followed' /\ IndexesHold'
  <2>1. UNCHANGED Table
    BY <1>20 DEF Discard, store, calls, history, Table, EditorUnchanged, ConfirmUnchanged
  <2>2. IndexesHold'
    <3>1. UNCHANGED allRows
      BY <1>20 DEF Discard, ConfirmUnchanged
    <3>2. (UNCHANGED editor /\ confirm'.what = "discard")
          \/ (CloseEditor /\ UNCHANGED confirm)
      BY <1>20 DEF Discard
    <3> QED BY <3>1, <3>2, <1>a, IndexesDropped, ClosedPointsNowhere
  <2> QED BY <2>1, <2>2, <1>a, QuietTable
<1>21. ASSUME NEW ok \in BOOLEAN, AnswerDiscard(ok) PROVE Followed' /\ IndexesHold'
  <2>1. UNCHANGED Table
    BY <1>21 DEF AnswerDiscard, store, calls, history, Table, EditorUnchanged, ConfirmUnchanged
  <2>2. IndexesHold'
    <3>1. UNCHANGED allRows /\ confirm'.what = "none"
      BY <1>21 DEF AnswerDiscard, ConfirmUnchanged, NoConfirm
    <3>2. UNCHANGED editor \/ CloseEditor
      BY <1>21 DEF AnswerDiscard
    <3> QED BY <3>1, <3>2, <1>a, IndexesDropped, ClosedPointsNowhere
  <2> QED BY <2>1, <2>2, <1>a, QuietTable
<1>22. ASSUME Previewed PROVE Followed' /\ IndexesHold'
  <2>1. UNCHANGED Table
    BY <1>22 DEF Previewed, store, calls, history, Table, EditorUnchanged, ConfirmUnchanged
  <2>2. IndexesHold'
    <3>1. /\ UNCHANGED <<allRows, editor>>
          /\ UNCHANGED confirm \/ confirm'.what = "import"
      BY <1>22 DEF Previewed, store
    <3> QED BY <3>1, <1>a, IndexesDropped
  <2> QED BY <2>1, <2>2, <1>a, QuietTable
<1>23. ASSUME NEW s \in Sources, SetSource(s) PROVE Followed' /\ IndexesHold'
  <2>1. /\ ~Points /\ confirm.what # "delete" /\ UNCHANGED <<editor, confirm>>
        /\ UNCHANGED <<file, wanted, saves>>
    BY <1>23 DEF SetSource, Gallery, Pointer, Points, NoConfirm
  <2>2. IndexesHold'
    BY <2>1 DEF IndexesHold, Points
  <2>3. CASE s = source
    <3>1. UNCHANGED Table
      BY <1>23, <2>1, <2>3 DEF SetSource, Table
    <3> QED BY <3>1, <2>2, <1>a, QuietTable
  <2>4. CASE s # source
    <3>1. ~tableDirty /\ ~tableDirty' /\ ~current' /\ source' = s
      BY <1>23, <1>0, <2>4 DEF SetSource
    <3>2. saves = {}
      BY <3>1, <1>a DEF SavesAreShown
    <3>3. OneSave' /\ SavesAreShown' /\ TableIsWanted'
      BY <2>1, <3>1, <3>2 DEF OneSave, SavesAreShown, TableIsWanted
    <3>4. \A t \in Sources : ToBag(file[t]) = wanted[t]
      BY <3>1, <1>a DEF FilesAreWanted
    <3>5. FilesAreWanted'
      BY <2>1, <3>4 DEF FilesAreWanted
    <3> QED BY <2>2, <3>3, <3>5 DEF Followed
  <2> QED BY <2>3, <2>4
<1>24. ASSUME NEW r \in reads, Receive(r) PROVE Followed' /\ IndexesHold'
  <2>1. UNCHANGED <<file, source, tableDirty, wanted, saves, editor, confirm>>
    BY <1>24 DEF Receive
  <2>2. CASE Superseded(r)
    <3>1. UNCHANGED Table /\ UNCHANGED <<allRows, editor, confirm>>
      BY <1>24, <2>1, <2>2 DEF Receive, Table
    <3> QED BY <3>1, <1>a, QuietTable, QuietIndexes
  <2>3. CASE ~Superseded(r)
    <3>1. Applied(r)
      BY <1>24, <2>3 DEF Receive
    <3>2. /\ allRows' = r.rows
          /\ tableDirty => ToBag(r.rows) = ToBag(allRows)
          /\ ~Points /\ confirm.what # "delete"
          /\ current' => r.rows = file[r.source]
      BY <3>1 DEF Applied, ApplyPage
    <3>3. r.source = source
      BY <2>3 DEF Superseded, Apart, ReadsApart
    <3>4. OneSave' /\ SavesAreShown' /\ FilesAreWanted'
      BY <2>1, <1>a DEF OneSave, SavesAreShown, FilesAreWanted
    <3>5. tableDirty => ToBag(r.rows) = wanted[source]
      BY <3>2, <1>a DEF TableIsWanted
    <3>6. ~tableDirty /\ current' => ToBag(r.rows) = wanted[source]
      <4>1. ~tableDirty => ToBag(file[source]) = wanted[source]
        BY <1>a, <1>b DEF FilesAreWanted
      <4> QED BY <3>2, <3>3, <4>1
    <3>7. TableIsWanted'
      <4>1. tableDirty \/ current' => ToBag(r.rows) = wanted[source]
        BY <3>5, <3>6
      <4>2. /\ allRows' = r.rows /\ tableDirty' = tableDirty
            /\ wanted' = wanted /\ source' = source
        BY <2>1, <3>2
      <4>3. tableDirty' \/ current' => ToBag(allRows') = wanted'[source']
        BY <4>1, <4>2
      <4> QED BY <4>3 DEF TableIsWanted
    <3>8. IndexesHold'
      BY <2>1, <3>2 DEF IndexesHold, Points
    <3> QED BY <3>4, <3>7, <3>8 DEF Followed
  <2> QED BY <2>2, <2>3
<1>25. ASSUME CommitAndSave PROVE Followed' /\ IndexesHold'
  <2>1. /\ editor.open /\ allRows' = Committed /\ tableDirty'
        /\ CloseEditor /\ StartSave(Committed)
        /\ UNCHANGED <<file, source, confirm, current>>
        /\ wanted' = [wanted EXCEPT ![source] =
              (IF editor.isNew THEN @ ELSE @ (-) SetToBag({editor.asked}))
                  (+) SetToBag({editor.draft})]
    BY <1>25 DEF CommitAndSave
  <2>2. /\ current /\ ~(Points /\ confirm.what = "delete")
        /\ OneSave' /\ SavesAreShown'
    <3>1. \A s \in saves' : s.source = source /\ ~s.written
      BY <2>1, <1>a, SaveFollowed
    <3>2. OneSave' /\ current /\ ~(Points /\ confirm.what = "delete")
      BY <2>1, <1>a, SaveFollowed DEF OneSave
    <3> QED BY <2>1, <3>1, <3>2 DEF SavesAreShown
  <2>3. ToBag(allRows) = wanted[source]
    BY <2>2, <1>a DEF TableIsWanted
  <2>4. FilesAreWanted'
    BY <2>1, <1>a, <1>b DEF FilesAreWanted
  <2>5. editor.draft \in Row
    BY <2>1 DEF TypeOK, StoreOK
  <2>6. ToBag(Committed) = wanted'[source]
    <3>1. CASE editor.isNew
      <4>1. Committed = Append(allRows, editor.draft)
        BY <3>1 DEF Committed
      <4>2. wanted'[source] = wanted[source] (+) SetToBag({editor.draft})
        BY <2>1, <3>1, <1>b
      <4> QED BY <4>1, <4>2, <2>3, <2>5, <1>b, BagAppended
    <3>2. CASE ~editor.isNew
      <4>1. /\ editor.rowIndex \in DOMAIN allRows
            /\ allRows[editor.rowIndex] = editor.asked
        BY <2>1, <3>2, <1>a DEF IndexesHold, Points
      <4>2. Committed = [i \in DOMAIN allRows |->
               IF i = editor.rowIndex THEN editor.draft ELSE allRows[i]]
        BY <3>2 DEF Committed
      <4>3. wanted'[source] = (wanted[source] (-) SetToBag({editor.asked}))
                                 (+) SetToBag({editor.draft})
        BY <2>1, <3>2, <1>b
      <4>4. ToBag(Committed)
              = (ToBag(allRows) (-) SetToBag({allRows[editor.rowIndex]}))
                   (+) SetToBag({editor.draft})
        <5>1. \A i \in DOMAIN allRows : \A d \in Row :
                 ToBag([j \in DOMAIN allRows |->
                           IF j = i THEN d ELSE allRows[j]])
                   = (ToBag(allRows) (-) SetToBag({allRows[i]}))
                        (+) SetToBag({d})
          BY <1>b, BagReplaced
        <5> QED BY <4>1, <4>2, <2>5, <5>1, Zenon
      <4> QED BY <4>1, <4>3, <4>4, <2>3, Zenon
    <3> QED BY <3>1, <3>2
  <2>7. TableIsWanted'
    BY <2>1, <2>6 DEF TableIsWanted
  <2>8. IndexesHold'
    <3>1. ~Points'
      BY <2>1, ClosedPointsNowhere
    <3>2. ASSUME confirm'.what = "delete"
          PROVE  /\ confirm.index \in DOMAIN Committed
                 /\ Committed[confirm.index] = confirm.row
      <4>1. editor.isNew
        BY <2>1, <2>2, <3>2 DEF Points
      <4>2. /\ confirm.index \in DOMAIN allRows
            /\ allRows[confirm.index] = confirm.row
        BY <2>1, <3>2, <1>a DEF IndexesHold
      <4> QED BY <4>1, <4>2, <2>5, <1>b DEF Committed
    <3> QED BY <2>1, <3>1, <3>2 DEF IndexesHold
  <2> QED BY <2>2, <2>4, <2>7, <2>8 DEF Followed
<1>26. ASSUME Save PROVE Followed' /\ IndexesHold'
  <2>1. /\ tableDirty /\ StartSave(allRows)
        /\ UNCHANGED <<file, source, allRows, tableDirty, current, wanted,
                       editor, confirm>>
    BY <1>26 DEF Save, store
  <2>2. OneSave' /\ SavesAreShown'
    <3>1. \A s \in saves' : s.source = source /\ ~s.written
      BY <2>1, <1>a, SaveFollowed
    <3>2. OneSave'
      BY <2>1, <1>a, SaveFollowed DEF OneSave
    <3> QED BY <2>1, <3>1, <3>2 DEF SavesAreShown
  <2>3. TableIsWanted' /\ FilesAreWanted'
    BY <2>1, <1>a DEF TableIsWanted, FilesAreWanted
  <2> QED BY <2>1, <2>2, <2>3, <1>a, QuietIndexes DEF Followed
<1>27. ASSUME NEW s \in saves, WriteFile(s) PROVE Followed' /\ IndexesHold'
  <2>1. /\ UNCHANGED <<source, allRows, tableDirty, current, wanted, editor,
                       confirm>>
        /\ file' = [file EXCEPT ![s.source] = s.rows]
        /\ saves' = (saves \ {s}) \cup {[s EXCEPT !.written = TRUE]}
    BY <1>27 DEF WriteFile, store, history
  <2>2. s.source = source /\ tableDirty /\ s \in SaveCalls /\ saves = {s}
    BY <1>a, <1>b DEF SavesAreShown, OneSave
  <2>3. PICK new : /\ new = [s EXCEPT !.written = TRUE]
                   /\ new.source = source /\ new.rows = s.rows
    <3>1. /\ [s EXCEPT !.written = TRUE].source = s.source
          /\ [s EXCEPT !.written = TRUE].rows = s.rows
      BY <2>2 DEF SaveCalls
    <3> QED BY <2>2, <3>1
  <2>4. saves' = {new} /\ file'[source] = s.rows
    BY <2>1, <2>2, <2>3, <1>b
  <2>5. OneSave' /\ SavesAreShown'
    BY <2>1, <2>2, <2>3, <2>4 DEF OneSave, SavesAreShown
  <2>6. TableIsWanted' /\ FilesAreWanted'
    BY <2>1, <2>2, <1>a, <1>b DEF TableIsWanted, FilesAreWanted
  <2> QED BY <2>1, <2>5, <2>6, <1>a, QuietIndexes DEF Followed
<1>28. ASSUME NEW s \in saves, SaveOk(s) PROVE Followed' /\ IndexesHold'
  <2>1. /\ UNCHANGED <<file, source, allRows, current, wanted, confirm>>
        /\ s.written /\ saves' = saves \ {s} /\ ~tableDirty' /\ CloseEditor
    BY <1>28 DEF SaveOk
  <2>2. /\ s.source = source /\ tableDirty /\ saves' = {}
        /\ file[source] = s.rows
    BY <2>1, <1>a DEF SavesAreShown, OneSave
  <2>3. ToBag(s.rows) = ToBag(allRows)
    BY <1>28, <2>2 DEF SaveOk
  <2>4. ToBag(allRows) = wanted[source] /\ ToBag(file[source]) = wanted[source]
    BY <2>2, <2>3, <1>a DEF TableIsWanted
  <2>5. OneSave' /\ SavesAreShown' /\ TableIsWanted'
    BY <2>1, <2>2, <2>4 DEF OneSave, SavesAreShown, TableIsWanted
  <2>6. FilesAreWanted'
    BY <2>1, <2>4, <1>a DEF FilesAreWanted
  <2>7. IndexesHold'
    BY <2>1, <1>a, IndexesDropped, ClosedPointsNowhere
  <2> QED BY <2>5, <2>6, <2>7 DEF Followed
<1>29. ASSUME NEW s \in saves, SaveFails(s) PROVE Followed' /\ IndexesHold'
  <2>1. /\ UNCHANGED <<file, source, allRows, tableDirty, current, wanted,
                       editor, confirm>>
        /\ saves' = saves \ {s}
    BY <1>29 DEF SaveFails, store, history
  <2>2. OneSave' /\ SavesAreShown' /\ TableIsWanted' /\ FilesAreWanted'
    BY <2>1, <1>a DEF OneSave, SavesAreShown, TableIsWanted, FilesAreWanted
  <2> QED BY <2>1, <2>2, <1>a, QuietIndexes DEF Followed
<1>30. ASSUME NEW ok \in BOOLEAN, AnswerDelete(ok) PROVE Followed' /\ IndexesHold'
  <2>1. /\ UNCHANGED <<file, source, saves, current>>
        /\ confirm.what = "delete" /\ confirm'.what = "none"
        /\ IF confirm.inEditor /\ ~editor.isNew THEN CloseEditor
           ELSE UNCHANGED editor
    BY <1>30 DEF AnswerDelete, NoConfirm
  <2>2. UNCHANGED editor \/ ~Points'
    BY <2>1, ClosedPointsNowhere
  <2>3. CASE ~ok
    <3>1. UNCHANGED Table
      BY <1>30, <2>1, <2>3 DEF AnswerDelete, Table
    <3>2. UNCHANGED allRows
      BY <3>1 DEF Table
    <3> QED BY <2>1, <2>2, <3>1, <3>2, <1>a, QuietTable, IndexesDropped
  <2>4. CASE ok
    <3>1. /\ allRows' = Deleted(confirm.index) /\ tableDirty'
          /\ wanted' = [wanted EXCEPT ![source] =
                           @ (-) SetToBag({confirm.row})]
          /\ current /\ ~(Points /\ ~confirm.inEditor)
      BY <1>30, <2>4 DEF AnswerDelete
    <3>2. /\ confirm.index \in DOMAIN allRows
          /\ allRows[confirm.index] = confirm.row
      BY <2>1, <1>a DEF IndexesHold
    <3>3. Deleted(confirm.index)
            = SubSeq(allRows, 1, confirm.index - 1)
                 \o SubSeq(allRows, confirm.index + 1, Len(allRows))
      BY <3>2 DEF Deleted
    <3>4. ToBag(allRows') = ToBag(allRows) (-) SetToBag({confirm.row})
      BY <3>1, <3>2, <3>3, <1>b, BagWithout
    <3>5. wanted'[source] = ToBag(allRows) (-) SetToBag({confirm.row})
      BY <3>1, <1>a, <1>b DEF TableIsWanted
    <3>6. OneSave' /\ SavesAreShown' /\ TableIsWanted'
      BY <2>1, <3>1, <3>4, <3>5, <1>a DEF OneSave, SavesAreShown,
         TableIsWanted
    <3>7. FilesAreWanted'
      BY <2>1, <3>1, <1>a, <1>b DEF FilesAreWanted
    <3>8. ~Points'
      BY <2>1, <3>1, ClosedPointsNowhere DEF Points
    <3> QED BY <2>1, <3>6, <3>7, <3>8 DEF Followed, IndexesHold
  <2> QED BY <2>3, <2>4
<1>31. ASSUME NEW ok \in BOOLEAN, AnswerImport(ok) PROVE Followed' /\ IndexesHold'
  <2>1. /\ UNCHANGED <<file, source, saves, editor>>
        /\ confirm.what = "import" /\ confirm'.what = "none"
    BY <1>31 DEF AnswerImport, NoConfirm, calls
  <2>2. CASE ~ok
    <3>1. UNCHANGED Table
      BY <1>31, <2>1, <2>2 DEF AnswerImport, Table
    <3>2. UNCHANGED allRows
      BY <3>1 DEF Table
    <3> QED BY <2>1, <3>1, <3>2, <1>a, QuietTable, IndexesDropped
  <2>3. CASE ok
    <3> DEFINE rows == RowsOf("knowledge", ImportedFile)
    <3>1. /\ allRows' = rows /\ tableDirty' /\ ~Points
          /\ wanted' = [wanted EXCEPT !["knowledge"] = ToBag(rows)]
      BY <1>31, <2>3 DEF AnswerImport
    <3> HIDE DEF rows
    <3>2. source = "knowledge"
      BY <2>1 DEF Apart, TablesApart
    <3>3. OneSave' /\ SavesAreShown' /\ TableIsWanted'
      BY <2>1, <3>1, <3>2, <1>a, <1>b DEF OneSave, SavesAreShown,
         TableIsWanted
    <3>4. FilesAreWanted'
      BY <2>1, <3>1, <3>2, <1>a, <1>b DEF FilesAreWanted
    <3>5. IndexesHold'
      BY <2>1, <3>1 DEF IndexesHold, Points
    <3> QED BY <3>3, <3>4, <3>5 DEF Followed
  <2> QED BY <2>2, <2>3
<1>32. ASSUME ToggleSort \/ SetCategory \/ \E i \in Nat : JumpToRow(i)
       PROVE  Followed' /\ IndexesHold'
  <2>1. UNCHANGED Table /\ UNCHANGED <<allRows, editor, confirm>>
    BY <1>32 DEF ToggleSort, SetCategory, JumpToRow, ViewUnchanged, calls,
       history, Table
  <2> QED BY <2>1, <1>a, QuietTable, QuietIndexes
<1>33. ASSUME TurnTo(NextIndex) \/ TurnTo(PrevIndex)
       PROVE  Followed' /\ IndexesHold'
  <2>1. PICK i \in {NextIndex, PrevIndex} : TurnTo(i)
    BY <1>33
  <2>2. UNCHANGED Table /\ UNCHANGED <<allRows, confirm>> /\ Points
    BY <2>1 DEF TurnTo, calls, Table, EditorUnchanged
  <2>3. i \in DOMAIN allRows
    <3>1. editor.rowIndex \in DOMAIN allRows
      BY <2>2, <1>a DEF IndexesHold
    <3>2. editor.rowIndex \in 1..Len(allRows) /\ Len(allRows) \in Nat
          /\ DOMAIN allRows = 1..Len(allRows)
      BY <3>1, <1>b
    <3>3. NextIndex \in 1..Len(allRows)
      <4>0. editor.rowIndex \in Nat /\ Len(allRows) \in Nat
        BY <3>2
      <4>1. PICK x \in Nat, n \in Nat :
                x = editor.rowIndex /\ n = Len(allRows) /\ x \in 1..n
        BY <3>2, <4>0, Zenon
      <4>2. NextIndex = IF x < n THEN x + 1 ELSE n
        BY <4>1 DEF NextIndex
      <4>3. NextIndex \in 1..n
        BY ONLY <4>1, <4>2
      <4> QED BY <4>1, <4>3
    <3>4. PrevIndex \in 1..Len(allRows)
      BY <3>2 DEF PrevIndex
    <3> QED BY <3>2, <3>3, <3>4
  <2>4. editor'.rowIndex = i /\ editor'.asked = allRows[i]
    BY <2>1, <2>3 DEF TurnTo, RowAt
  <2>5. IndexesHold'
    BY <2>2, <2>3, <2>4, <1>a DEF IndexesHold
  <2> QED BY <2>2, <2>5, <1>a, QuietTable
<1>34. validation.errors \subseteq Nat
  BY DEF TypeOK, StoreOK, Reports
<1> QED
  BY <1>1, <1>2, <1>3, <1>4, <1>5, <1>6, <1>7, <1>8, <1>9, <1>10,
     <1>11, <1>12, <1>13, <1>14, <1>15, <1>16, <1>17, <1>18, <1>19,
     <1>20, <1>21, <1>22, <1>23, <1>24, <1>25, <1>26, <1>27, <1>28,
     <1>29, <1>30, <1>31, <1>32, <1>33, <1>34
  DEF Next, UserActs, UserAnswers, System, Failures, Answer

(* As long as none of the six things happened that can  lose work, what is *)
(* unsaved is in the table, as the user asked for it, and everything else  *)
(* in the files: in every order of the user's acts and of the answers to   *)
(* the reads, saves, dialogs and previews that script.vm.ts awaits.        *)
THEOREM WorkIsKept == Spec => []AskedForIsKept
<1> DEFINE Unhurt == mishaps = {} => Followed /\ IndexesHold
<1>1. Init => TypeOK /\ Apart
  BY FirstState, FirstApart
<1>2. Init => Unhurt
  <2> SUFFICES ASSUME Init PROVE Followed /\ IndexesHold
    OBVIOUS
  <2>1. /\ saves = {} /\ ~tableDirty /\ ~current /\ ~editor.open
        /\ confirm.what = "none"
    BY DEF Init, NoEditor, NoConfirm
  <2>2. \A s \in Sources : ToBag(file[s]) = wanted[s]
    BY DEF Init
  <2> QED BY <2>1, <2>2 DEF Followed, OneSave, SavesAreShown, TableIsWanted,
             FilesAreWanted, IndexesHold, Points
<1>3. /\ TypeOK /\ Apart /\ Unhurt /\ [Next]_vars
      => TypeOK' /\ Apart' /\ Unhurt'
  BY StepTyping, StepApart, StepFollowed
<1>4. Unhurt => AskedForIsKept
  BY DEF AskedForIsKept, Followed, TableIsWanted, FilesAreWanted
<1> HIDE DEF Unhurt
<1> QED BY <1>1, <1>2, <1>3, <1>4, PTL DEF Spec
=============================================================================
