-------------------------------- MODULE Pages --------------------------------
(***************************************************************************)
(* A list page of the browser, with its form (composables/useCrudList.ts,  *)
(* components/EntityListPage.vue, api/http.ts), and the table behind it.   *)
(*                                                                         *)
(* Loads and writes are answered in any order, refused, or given up by the *)
(* client after a while, whether or not the server has seen or still will  *)
(* see them.  Rows are what the last answer said, whichever load it was    *)
(* for.  Another user changes the table too.                               *)
(***************************************************************************)
EXTENDS Naturals, Sequences, FiniteSets

CONSTANTS
  Value, Empty,      \* what a field holds, and a field left empty
  PageNumber,        \* pages of the list; the first is 1
  Order,             \* orderings
  MaxRows,           \* bound on the rows of the table
  MaxPageCalls       \* bound on loads and writes, of this page and of others

ASSUME PageInputs == Empty \notin Value /\ 1 \in PageNumber

VARIABLES
  table,       \* the server's rows
  query,       \* page and ordering
  begun,       \* loads begun so far
  loads,       \* loads that were not answered yet
  shown,       \* what the list shows, and of which load
  message,     \* the list shows a message of a failure
  form,        \* the dialog
  writes,      \* calls that change the table, sent and not answered yet
  sent,        \* writes sent so far
  pageCalls    \* loads and writes so far, another user's too

pageVars == <<table, query, begun, loads, shown, message, form, writes, sent, pageCalls>>

Queries == [page : PageNumber, order : Order]
Row == [value : Value \union {Empty}, active : BOOLEAN]
Rows == UNION {[1..n -> Row] : n \in 0..MaxRows}

\* fresh: only this page wrote since the server answered, and has heard of it.
Answers ==
  [n : 0..MaxPageCalls, query : Queries, served : BOOLEAN, failed : BOOLEAN, fresh : BOOLEAN, rows : Rows]

\* row 0 is a new one; a call the client gave up is lost.
Writes ==
  [n : 1..MaxPageCalls, kind : {"save"}, row : 0..MaxRows, value : Value \union {Empty},
   stage : {"sent", "done", "refused", "lost"}]
    \union [n : 1..MaxPageCalls, kind : {"toggle"}, row : 1..MaxRows, value : BOOLEAN,
            stage : {"sent", "done", "refused", "lost"}]

\* submitting: not, until a call is answered, or until load n is.
Forms == [open : BOOLEAN, row : 0..MaxRows, error : BOOLEAN, submitting : {"no", "call", "load"}, n : 0..MaxPageCalls]

PagesTypeOK ==
  /\ table \in Rows /\ query \in Queries /\ begun \in 1..MaxPageCalls
  /\ loads \subseteq Answers /\ shown \in Answers /\ message \in BOOLEAN
  /\ form \in Forms /\ writes \subseteq Writes /\ sent \in 0..MaxPageCalls /\ pageCalls \in 1..MaxPageCalls

\* load: from now on, with the query of this moment.
NewLoad(n, q) ==
  [n |-> n, query |-> q, served |-> FALSE, failed |-> FALSE, fresh |-> FALSE, rows |-> <<>>]

Load(q, times) ==
  /\ pageCalls + times <= MaxPageCalls /\ pageCalls' = pageCalls + times
  /\ begun' = begun + times
  /\ loads' = loads \union {NewLoad(begun + i, q) : i \in 1..times}
  /\ message' = FALSE

\* A page is opened: onMounted loads the list.
PagesInit ==
  /\ table \in {<<[value |-> v, active |-> TRUE]>> : v \in Value}
  /\ query \in {[page |-> 1, order |-> o] : o \in Order}
  /\ begun = 1 /\ loads = {NewLoad(1, query)}
  /\ shown = NewLoad(0, query) /\ message = FALSE
  /\ form = [open |-> FALSE, row |-> 0, error |-> FALSE, submitting |-> "no", n |-> 0]
  /\ writes = {} /\ sent = 0 /\ pageCalls = 1

-----------------------------------------------------------------------------
(* The list.                                                               *)

Refresh ==
  /\ Load(query, 1)
  /\ UNCHANGED <<table, query, shown, form, writes, sent>>

TurnPage(p) ==
  /\ p # query.page
  /\ query' = [query EXCEPT !.page = p]
  /\ Load(query', 1)
  /\ UNCHANGED <<table, shown, form, writes, sent>>

\* Sorting, resetting and another page size load the first page; the watcher of the
\* page loads it once more if it was another.
Sort(o) ==
  /\ query' = [page |-> 1, order |-> o]
  /\ Load(query', IF query.page = 1 THEN 1 ELSE 2)
  /\ UNCHANGED <<table, shown, form, writes, sent>>

Serve(l) ==
  /\ ~ l.served
  /\ loads' = (loads \ {l}) \union {[l EXCEPT !.served = TRUE, !.fresh = TRUE, !.rows = table]}
  /\ UNCHANGED <<table, query, begun, shown, message, form, writes, sent, pageCalls>>

\* A submission ends with the load it began.
AfterLoad(l) ==
  IF form.submitting = "load" /\ form.n = l.n THEN [form EXCEPT !.submitting = "no"] ELSE form

ReceiveRows(l) ==
  /\ l.served
  /\ shown' = l /\ loads' = loads \ {l}
  /\ form' = AfterLoad(l)
  /\ UNCHANGED <<table, query, begun, message, writes, sent, pageCalls>>

\* The server refuses, or the client gives up: the list is emptied and says so.
FailToLoad(l) ==
  /\ shown' = [l EXCEPT !.failed = TRUE, !.rows = <<>>] /\ loads' = loads \ {l}
  /\ message' = TRUE
  /\ form' = AfterLoad(l)
  /\ UNCHANGED <<table, query, begun, writes, sent, pageCalls>>

-----------------------------------------------------------------------------
(* Forms and switches.                                                     *)

Send(kind, row, value) ==
  /\ pageCalls < MaxPageCalls /\ pageCalls' = pageCalls + 1
  /\ sent' = sent + 1
  /\ writes' = writes \union
       {[n |-> sent', kind |-> kind, row |-> row, value |-> value, stage |-> "sent"]}

\* The other of what the row on the screen says.
toggleActive(i) ==
  /\ Send("toggle", i, ~ shown.rows[i].active)
  /\ UNCHANGED <<table, query, begun, loads, shown, message, form>>

OpenForm(i) ==
  /\ ~ form.open
  /\ form' = [form EXCEPT !.open = TRUE, !.row = i, !.error = FALSE]
  /\ UNCHANGED <<table, query, begun, loads, shown, message, writes, sent, pageCalls>>

\* It can be closed, and opened for another row, before the answer is there.
CloseForm ==
  /\ form.open
  /\ form' = [form EXCEPT !.open = FALSE]
  /\ UNCHANGED <<table, query, begun, loads, shown, message, writes, sent, pageCalls>>

submit(value) ==
  /\ form.open /\ form.submitting = "no"
  /\ Send("save", form.row, value)
  /\ form' = [form EXCEPT !.submitting = "call", !.error = FALSE]
  /\ UNCHANGED <<table, query, begun, loads, shown, message>>

\* What was answered or shown before another's change, or one nobody hears of.
Outdated ==
  /\ shown' = [shown EXCEPT !.fresh = FALSE]
  /\ loads' = {[l EXCEPT !.fresh = FALSE] : l \in loads}

\* A field that was left empty is not sent, so what it held remains (omitEmpty).
Written(w) ==
  CASE w.kind = "toggle" -> [table EXCEPT ![w.row].active = w.value]
    [] w.row = 0         -> Append(table, [value |-> w.value, active |-> TRUE])
    [] OTHER             -> IF w.value = Empty THEN table ELSE [table EXCEPT ![w.row].value = w.value]

Apply(w) ==
  /\ w.stage \in {"sent", "lost"} /\ (w.row = 0 => Len(table) < MaxRows)
  /\ table' = Written(w)
  /\ IF w.stage = "lost"
     THEN writes' = writes \ {w} /\ Outdated
     ELSE /\ writes' = (writes \ {w}) \union {[w EXCEPT !.stage = "done"]}
          /\ UNCHANGED <<loads, shown>>
  /\ UNCHANGED <<query, begun, message, form, sent, pageCalls>>

Refuse(w) ==
  /\ w.stage = "sent"
  /\ writes' = (writes \ {w}) \union {[w EXCEPT !.stage = "refused"]}
  /\ UNCHANGED <<table, query, begun, loads, shown, message, form, sent, pageCalls>>

\* Bug: the list is not loaded again.
DoneUnloaded(w) ==
  /\ w.stage = "done"
  /\ writes' = writes \ {w}
  /\ form' = IF w.kind = "save" THEN [form EXCEPT !.open = FALSE, !.submitting = "no"] ELSE form
  /\ UNCHANGED <<table, query, begun, loads, shown, message, sent, pageCalls>>

\* The answer of a submission closes the form, whichever is open, and loads.
WriteDone(w) ==
  /\ w.stage = "done"
  /\ writes' = writes \ {w}
  /\ Load(query, 1)
  /\ form' = IF w.kind = "save"
             THEN [form EXCEPT !.open = FALSE, !.submitting = "load", !.n = begun']
             ELSE form
  /\ UNCHANGED <<table, query, shown, sent>>

\* A form that is told of a failure stays open; a switch only tells.
TellOfFailure(w) ==
  form' = IF w.kind = "save" THEN [form EXCEPT !.error = TRUE, !.submitting = "no"] ELSE form

WriteRefused(w) ==
  /\ w.stage = "refused"
  /\ writes' = writes \ {w}
  /\ TellOfFailure(w)
  /\ UNCHANGED <<table, query, begun, loads, shown, message, sent, pageCalls>>

\* The answer is lost or late: the client tells of a failure, and the call may have
\* been carried out, or will be.
GiveUp(w) ==
  /\ \/ /\ w.stage = "sent"
        /\ writes' = (writes \ {w}) \union {[w EXCEPT !.stage = "lost"]}
        /\ UNCHANGED <<loads, shown>>
     \/ /\ w.stage = "done"
        /\ writes' = writes \ {w}
        /\ Outdated
  /\ TellOfFailure(w)
  /\ UNCHANGED <<table, query, begun, message, sent, pageCalls>>

ChangeElsewhere(i, v) ==
  /\ pageCalls < MaxPageCalls /\ pageCalls' = pageCalls + 1
  /\ table' = [table EXCEPT ![i].value = v]
  /\ Outdated
  /\ UNCHANGED <<query, begun, message, form, writes, sent>>

-----------------------------------------------------------------------------
ListNext ==
  \/ Refresh
  \/ \E p \in PageNumber : TurnPage(p)
  \/ \E o \in Order : Sort(o)
  \/ \E l \in loads : Serve(l) \/ ReceiveRows(l) \/ FailToLoad(l)

FormNext ==
  \/ \E i \in 1..Len(shown.rows) : toggleActive(i)
  \/ \E i \in 0..Len(shown.rows) : OpenForm(i)
  \/ CloseForm
  \/ \E v \in Value \union {Empty} : submit(v)
  \/ \E w \in writes : Apply(w) \/ Refuse(w) \/ WriteDone(w) \/ WriteRefused(w) \/ GiveUp(w)

PagesNext ==
  \/ ListNext \/ FormNext
  \/ \E i \in 1..Len(table), v \in Value : ChangeElsewhere(i, v)

PagesSpec == PagesInit /\ [][PagesNext]_pageVars

-----------------------------------------------------------------------------
AtRest == loads = {} /\ \A w \in writes : w.stage = "lost"

\* useCrudList.ts: a failure is told and never shown as an empty list.  When all calls
\* were answered and what is shown is what the last load was told, then it is what was
\* asked for, and what the table says unless others wrote, or a call of this page did
\* of which it does not know.
ListTellsTheTruth ==
  AtRest =>
    /\ shown.failed => message
    /\ shown.n = begun /\ ~ shown.failed =>
         /\ shown.query = query
         /\ shown.fresh => shown.rows = table
=============================================================================
