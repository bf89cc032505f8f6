----------------------------- MODULE HandyTable -----------------------------
(***************************************************************************)
(* The table of the web application, handy-table with its columns, in the  *)
(* tabs of one browser: which columns are visible, by what their rows are  *)
(* filtered, the profile of both in the local storage, which all tables    *)
(* with the same tabident share, and the queries for the rows, which are   *)
(* answered in any order.                                                  *)
(*                                                                         *)
(* Every callback is one step.  The one who uses the table, the block      *)
(* events and the function that reads the data are external.               *)
(***************************************************************************)
EXTENDS Naturals, Sequences, FiniteSets, FiniteSetsExt

CONSTANTS
  Tabs,
  Columns,     \* a sequence of [key, date, filterable]
  Texts,       \* what can be typed into a filter
  Dates,       \* what can be picked
  UNDEF,       \* undefined or null
  EMPTY,       \* the empty text, one of Texts
  EPOCH,       \* the date 0, one of Dates
  MaxSteps,    \* clicks, edits, block events and page loads
  MaxFailures    \* failing queries and refusals of the storage

ASSUME ColumnsAssumption ==
  /\ Len(Columns) \in Nat /\ DOMAIN Columns = 1 .. Len(Columns)
  /\ \A i \in DOMAIN Columns :
       Columns[i].date \in BOOLEAN /\ Columns[i].filterable \in BOOLEAN
  /\ \A i, j \in DOMAIN Columns :
       Columns[i].key = Columns[j].key => Columns[i].date = Columns[j].date

ASSUME ValuesAssumption ==
  UNDEF \notin Texts \cup Dates /\ EMPTY \in Texts /\ EPOCH \in Dates

ASSUME StepsAssumption == MaxSteps \in Nat /\ MaxFailures \in Nat

VARIABLES
  tabs,     \* tab -> the table in it, UNDEF before its page is loaded
  profile,  \* the local storage
  kept,     \* the columns of the tables that have stored the profile last
  steps, failures

tableVars == <<tabs, profile, kept, steps, failures>>

Indices == DOMAIN Columns

Day      == Dates \cup {UNDEF}
DayRange == [from : Day, to : Day]
Value(i) == IF Columns[i].date THEN DayRange \cup {UNDEF} ELSE Texts \cup {UNDEF}

Values          == DayRange \cup Texts \cup {UNDEF}
Column          == [visible : BOOLEAN, active : BOOLEAN, value : Values]
VisibleProfiles == [Indices -> BOOLEAN]
FilterProfiles  == [Indices -> [act : BOOLEAN, fval : Values]]

ASSUME UndefAssumption == UNDEF \notin DayRange \cup VisibleProfiles \cup FilterProfiles

-------------------------------------------------------------------------------
(* Columns.                                                                *)

\* What if() takes for no value.
Falsy(v) == v \in {UNDEF, EMPTY, EPOCH}

NoDates == [from |-> UNDEF, to |-> UNDEF]

FreshColumn == [visible |-> TRUE, active |-> FALSE, value |-> UNDEF]

\* Mutant: the type of the column is not asked.
FilterToJsonDates(i, column) ==
  [act |-> column.active, fval |-> IF column.value = UNDEF THEN NoDates ELSE column.value]

FilterToJson(i, column) ==
  [act |-> column.active,
   fval |-> IF Columns[i].date /\ column.value = UNDEF THEN NoDates ELSE column.value]

\* Mutant: a column comes back with its value, but inactive.
JsonToFilterInactive(i, column, json) == [column EXCEPT !.value = json.fval]

\* A date that is 0 is taken for none.
JsonToFilter(i, column, json) ==
  LET day(d) == IF Falsy(d) THEN UNDEF ELSE d
  IN  [column EXCEPT !.active = json.act,
                     !.value = IF Columns[i].date
                               THEN [from |-> day(json.fval.from), to |-> day(json.fval.to)]
                               ELSE json.fval]

FilterExpression(i, column) ==
  IF ~Columns[i].date THEN {<<i, "eq", column.value>>}
  ELSE LET dates == IF column.value = UNDEF THEN NoDates ELSE column.value
       IN  {<<i, "gt", dates.from>>, <<i, "lt", dates.to>>}

\* The expressions of a query that come from column i, and all of them.
Asked(cols, i) ==
  IF cols[i].active THEN {x \in FilterExpression(i, cols[i]) : ~Falsy(x[3])} ELSE {}

GetFilters(cols) == UNION {Asked(cols, i) : i \in Indices}

FilteredColumns == {i \in Indices : Columns[i].filterable}

-------------------------------------------------------------------------------
(* The profile.                                                            *)

\* The columns with the storeKey of column i.
Namesakes(i) == {j \in Indices : Columns[j].key = Columns[i].key}

\* Every entry of the profile goes to the first column with its key, and the last
\* one stays.
Restorable(i) == i = Min(Namesakes(i))
EntryFor(i) == Max(Namesakes(i))

RestoreVisibleColumns(cols) ==
  IF profile.visible = UNDEF THEN cols
  ELSE [i \in Indices |->
          IF Restorable(i) THEN [cols[i] EXCEPT !.visible = profile.visible[EntryFor(i)]]
          ELSE cols[i]]

RestoreFilteredColumns(cols) ==
  IF profile.filters = UNDEF THEN cols
  ELSE [i \in Indices |->
          IF Restorable(i) THEN JsonToFilter(i, cols[i], profile.filters[EntryFor(i)])
          ELSE cols[i]]

StoreVisibleColumns(cols) ==
  /\ profile' = [profile EXCEPT !.visible = [i \in Indices |-> cols[i].visible]]
  /\ kept' = [kept EXCEPT !.visible = cols]

StoreFilteredColumns(cols) ==
  /\ profile' = [profile EXCEPT !.filters = [i \in Indices |-> FilterToJson(i, cols[i])]]
  /\ kept' = [kept EXCEPT !.filters = cols]

-------------------------------------------------------------------------------
(* The table.                                                              *)

Visible(cols) == {i \in Indices : cols[i].visible}

\* A table of which nothing has been loaded.  Rows are named by the query they
\* answer and its filters; unasked: an active filter is not that of the last query;
\* upset: since nothing was in flight last, a query has failed or overtaken another
\* one; unbound: the storage has refused the last change of the visible columns.
NewTable(cols) ==
  [cols |-> cols, visiblecolumns |-> Visible(cols), loading |-> FALSE,
   asked |-> 0, wire |-> {}, rows |-> [n |-> 0, filters |-> {}],
   unasked |-> FALSE, upset |-> FALSE, unbound |-> FALSE]

\* Mutant: the filters of the table as it was.
GetDataEarly(old, table) ==
  [table EXCEPT !.loading = TRUE, !.asked = @ + 1, !.unasked = FALSE,
                !.upset = @ /\ table.wire # {},
                !.wire = @ \cup {[n |-> table.asked + 1, filters |-> GetFilters(old.cols)]}]

\* A query for the rows, by the filters as they are now.
GetData(old, table) ==
  [table EXCEPT !.loading = TRUE, !.asked = @ + 1, !.unasked = FALSE,
                !.upset = @ /\ table.wire # {},
                !.wire = @ \cup {[n |-> table.asked + 1, filters |-> GetFilters(table.cols)]}]

Put(t, table) == tabs' = [tabs EXCEPT ![t] = table]

IsOpen(t) == tabs[t] # UNDEF

Step == steps < MaxSteps /\ steps' = steps + 1

\* Whether the storage takes what is put into it.  If not, it raises an
\* exception.
Taken(ok) == IF ok THEN UNCHANGED failures ELSE failures < MaxFailures /\ failures' = failures + 1

\* The page is loaded, for the first time or again: the table gets its columns
\* and is attached.  The answers to what it has asked before are lost.
Open(t) ==
  LET cols  == RestoreFilteredColumns(RestoreVisibleColumns([i \in Indices |-> FreshColumn]))
      table == NewTable(cols)
  IN  /\ Step
      /\ Put(t, GetData(table, table))
      /\ UNCHANGED <<profile, kept, failures>>

Block(t) ==
  /\ IsOpen(t) /\ Step
  /\ Put(t, GetData(tabs[t], tabs[t]))
  /\ UNCHANGED <<profile, kept, failures>>

ColumnVisibilityClicked(t, i, ok) ==
  LET table == [tabs[t] EXCEPT !.cols[i].visible = ~@, !.unbound = ~ok]
  IN  /\ IsOpen(t) /\ Step /\ Taken(ok)
      /\ Put(t, IF ok THEN [table EXCEPT !.visiblecolumns = Visible(table.cols)] ELSE table)
      /\ IF ok THEN StoreVisibleColumns(table.cols) ELSE UNCHANGED <<profile, kept>>

\* It stores first, and a refusal leaves the filter set and not asked for.
ColumnFiltersClicked(t, i, ok) ==
  LET table == [tabs[t] EXCEPT !.cols[i].active = ~@, !.unasked = TRUE]
  IN  /\ IsOpen(t) /\ Step /\ Taken(ok)
      /\ Put(t, IF ok THEN GetData(tabs[t], table) ELSE table)
      /\ IF ok THEN StoreFilteredColumns(table.cols) ELSE UNCHANGED <<profile, kept>>

\* The three buttons ask first, and store then.
AskAndStore(t, cols, ok) ==
  /\ IsOpen(t) /\ Step /\ Taken(ok)
  /\ Put(t, GetData(tabs[t], [tabs[t] EXCEPT !.cols = cols]))
  /\ IF ok THEN StoreFilteredColumns(cols) ELSE UNCHANGED <<profile, kept>>

WithActive(cols, active) ==
  [i \in Indices |-> IF i \in FilteredColumns THEN [cols[i] EXCEPT !.active = active]
                     ELSE cols[i]]

SetAllFiltersClicked(t, ok) == AskAndStore(t, WithActive(tabs[t].cols, TRUE), ok)
ClearFiltersClicked(t, ok)  == AskAndStore(t, WithActive(tabs[t].cols, FALSE), ok)
ApplyFiltersClicked(t, ok)  == AskAndStore(t, tabs[t].cols, ok)

\* A value is typed or picked.  Nothing is asked or stored.
Edit(t, i, value) ==
  /\ IsOpen(t) /\ Step
  /\ Put(t, [tabs[t] EXCEPT !.cols[i].value = value,
                          !.unasked = @ \/ tabs[t].cols[i].active])
  /\ UNCHANGED <<profile, kept, failures>>

EditFilter(t) ==
  \E i \in FilteredColumns :
    IF Columns[i].date
    THEN LET dates == IF tabs[t].cols[i].value = UNDEF THEN NoDates ELSE tabs[t].cols[i].value
         IN  \E day \in Dates : \/ Edit(t, i, [dates EXCEPT !.from = day])
                                \/ Edit(t, i, [dates EXCEPT !.to = day])
    ELSE \E text \in Texts : Edit(t, i, text)

Overtakes(q, wire) == \E r \in wire : r.n < q.n

\* The table shows what has come last, and stops to wait whatever else is to come.
RowsCome(t, q) ==
  /\ Put(t, [tabs[t] EXCEPT !.rows = q, !.loading = FALSE, !.wire = @ \ {q},
                            !.upset = @ \/ Overtakes(q, tabs[t].wire)])
  /\ UNCHANGED <<profile, kept, steps, failures>>

RowsFail(t, q) ==
  /\ failures < MaxFailures /\ failures' = failures + 1
  /\ Put(t, [tabs[t] EXCEPT !.loading = FALSE, !.wire = @ \ {q}, !.upset = TRUE])
  /\ UNCHANGED <<profile, kept, steps>>

TableInit ==
  /\ tabs = [t \in Tabs |-> UNDEF]
  /\ profile = [visible |-> UNDEF, filters |-> UNDEF] /\ kept = profile
  /\ steps = 0 /\ failures = 0

Click(t) ==
  \E ok \in BOOLEAN :
    \/ \E i \in Indices : ColumnVisibilityClicked(t, i, ok)
    \/ \E i \in FilteredColumns : ColumnFiltersClicked(t, i, ok)
    \/ SetAllFiltersClicked(t, ok)
    \/ ClearFiltersClicked(t, ok)
    \/ ApplyFiltersClicked(t, ok)

TableNext ==
  \E t \in Tabs :
    \/ Open(t)
    \/ IsOpen(t) /\ (Block(t) \/ Click(t) \/ EditFilter(t))
    \/ IsOpen(t) /\ \E q \in tabs[t].wire : RowsCome(t, q) \/ RowsFail(t, q)

TableSpec == TableInit /\ [][TableNext]_tableVars

-------------------------------------------------------------------------------
(* What must hold.                                                         *)

ColumnsTyped(cols) == cols \in [Indices -> Column] /\ \A i \in Indices : cols[i].value \in Value(i)

TableTyped(table) ==
  /\ ColumnsTyped(table.cols) /\ table.visiblecolumns \subseteq Indices
  /\ table.asked \in Nat
  /\ \A q \in table.wire : q.n \in 1 .. table.asked
  /\ table.rows.n \in 0 .. table.asked
  /\ table.loading \in BOOLEAN /\ table.unasked \in BOOLEAN
  /\ table.upset \in BOOLEAN /\ table.unbound \in BOOLEAN

\* Every table and the profile are well formed: a column has a value of its type
\* however often it has been stored and restored.
TablesOK ==
  /\ \A t \in Tabs : IsOpen(t) => TableTyped(tabs[t])
  /\ profile.visible \in VisibleProfiles \cup {UNDEF}
  /\ profile.filters \in FilterProfiles \cup {UNDEF}
  /\ profile.filters # UNDEF => \A i \in Indices : profile.filters[i].fval \in Value(i)
  /\ steps \in 0 .. MaxSteps /\ failures \in 0 .. MaxFailures

\* Once nothing is in flight, the table does not say that it is loading, and the
\* rows are those that its filters ask for, unless an active value has been edited
\* and not applied, a refusal has stopped a click, or an answer has failed or been
\* overtaken since nothing was in flight last.  The columns are always the ones ticked,
\* unless the storage has refused the last tick.
ViewRight ==
  \A t \in Tabs : IsOpen(t) =>
    LET table == tabs[t] IN
      /\ table.wire = {} =>
           /\ ~table.loading
           /\ ~table.upset /\ ~table.unasked => table.rows.filters = GetFilters(table.cols)
      /\ ~table.unbound => table.visiblecolumns = Visible(table.cols)

\* A table that is loaded asks of each column what the table that stored the
\* profile last asked of it, and shows the columns which that one showed, whichever
\* tab it was in, for columns that share their key with no other.
Restored ==
  [][\A t \in Tabs : Open(t) =>
       \A i \in Indices : Namesakes(i) = {i} =>
         /\ kept.filters # UNDEF => Asked(tabs'[t].cols, i) = Asked(kept.filters, i)
         /\ kept.visible # UNDEF => tabs'[t].cols[i].visible = kept.visible[i].visible]_tableVars

===============================================================================
