----------------------------- MODULE Repository -----------------------------
(***************************************************************************)
(* How a test step reads one row of a database: a repository turns the     *)
(* filters of the step into a WHERE clause, runs the query, most of the    *)
(* time under ExecuteWithRetry, and makes an answer of the result.  While  *)
(* the step waits, the services under test write the row.                  *)
(*                                                                         *)
(* Four kinds of loop build the clause:                                    *)
(*   "guards"  brand, category, label: a field that is not allowed is left *)
(*             out, and WHERE is written only if a condition is left       *)
(*   "skips"   player_threshold_deposit: left out, WHERE is always written *)
(*   "warns"   wallet, limit_record: logged as not allowed, and used       *)
(*   "joins"   game: every field is used, WHERE is always written          *)
(* One pass of the loop is a step, because the order in which Go visits    *)
(* the map of filters is arbitrary.  The query is built once: every        *)
(* attempt sends the same text and the same arguments.                     *)
(*                                                                         *)
(* The table is one row, or none.  A field is a model value.               *)
(*                                                                         *)
(* A definition named X_Something is X with one plausible slip; it is used *)
(* only to show that the properties notice that slip.                      *)
(***************************************************************************)
EXTENDS Integers, Sequences, SequencesExt

CONSTANTS Fields,       \* columns of the table
          Allowed,      \* the columns in the repository's map of allowed fields
          Values,       \* what a column may hold
          NoRow,        \* the empty table, and a record that was not scanned
          Failed,       \* what a query that fails finds
          Attempts,     \* cfg.RetryAttempts, as configured
          MaxChanges    \* bound: writes and deletions of the row, failed queries

ASSUME FieldAssumption == Allowed \subseteq Fields
ASSUME BoundAssumption == Attempts \in Nat /\ MaxChanges \in Nat

Rows == [Fields -> Values]

ASSUME NoRowAssumption == NoRow \notin Rows /\ Failed \notin Rows /\ Failed # NoRow

VARIABLES
    row,            \* the row of the table, or NoRow (external)
    changes,        \* changes and failed queries so far (external)
    kind,
    withRetry,      \* FALSE for GetBrand, GetCategory and GetLabel
    filters,        \* what the step asks for: a value for some of the fields
    todo,           \* fields the loop has not visited
    conditions,     \* fields of "field = ?", in the order written
    args,           \* the arguments, in the order given
    attempt,
    pc,             \* "loop", "query", "pause", "answer", "returned"
    opErr,          \* the error that goes to the repository: "nil", "noRows",
                    \* "query", or "wrapped", an fmt.Errorf around the last one
    record,         \* the scanned record, NoRow while it is the zero value
    stepFailed,     \* sCtx.Fail() was called
    answer,         \* "none", "record", "nothing" (nil, nil), "error"
    seen            \* history: the row at each query, or Failed

query == <<filters, todo, conditions, args>>
vars == <<row, changes, kind, withRetry, query, attempt, pc, opErr, record,
          stepFailed, answer, seen>>

Kinds == {"guards", "skips", "warns", "joins"}

\* Tests pass a literal map; game's has no guard against an empty one.
Init ==
    /\ row \in Rows \cup {NoRow} /\ changes = 0
    /\ kind \in Kinds
    /\ withRetry \in (IF kind = "guards" THEN BOOLEAN ELSE {TRUE})
    /\ \E asked \in SUBSET Fields : filters \in [asked -> Values]
    /\ todo = DOMAIN filters
    /\ conditions = << >>
    /\ args = << >>
    /\ attempt = 0
    /\ pc = "loop"
    /\ opErr = "nil"
    /\ record = NoRow
    /\ stepFailed = FALSE
    /\ answer = "none"
    /\ seen = << >>

-----------------------------------------------------------------------------
(* The query. *)

\* if !allowedFields[key] { ...; continue }; wallet and limit_record have no
\* continue, game has no such test.
LeftOut(key) == kind \in {"guards", "skips"} /\ key \notin Allowed

\* args = append(args, value)
AddArg_Front(value) == args' = <<value>> \o args
AddArg(value) == args' = Append(args, value)

\* One pass of the loop.
Visit(key) ==
    /\ pc = "loop"
    /\ key \in todo
    /\ todo' = todo \ {key}
    /\ IF LeftOut(key)
       THEN UNCHANGED <<conditions, args>>
       ELSE /\ conditions' = Append(conditions, key)
            /\ AddArg(filters[key])
    /\ UNCHANGED <<row, changes, kind, withRetry, filters, attempt, pc, opErr,
                   record, stepFailed, answer, seen>>

\* The query is complete; with no attempts configured it is not even sent.
Send ==
    /\ pc = "loop"
    /\ todo = {}
    /\ IF withRetry /\ Attempts = 0
       THEN pc' = "answer" /\ opErr' = "wrapped"
       ELSE pc' = "query" /\ UNCHANGED opErr
    /\ UNCHANGED <<row, changes, kind, withRetry, query, attempt, record,
                   stepFailed, answer, seen>>

\* " WHERE " is part of the query.
HasWhere ==
    \/ kind = "joins"
    \/ kind \in {"skips", "warns"} /\ DOMAIN filters # {}
    \/ kind = "guards" /\ conditions # << >>

\* WHERE without a condition is a syntax error.
Malformed == HasWhere /\ conditions = << >>

\* The rows that satisfy the query: the n-th argument goes to the n-th "?".
Selected == {r \in Rows : \A n \in DOMAIN conditions : r[conditions[n]] = args[n]}

-----------------------------------------------------------------------------
(* The database (external). *)

Write ==
    /\ pc # "returned"
    /\ changes < MaxChanges
    /\ changes' = changes + 1
    /\ row' \in (Rows \cup {NoRow}) \ {row}
    /\ UNCHANGED <<kind, withRetry, query, attempt, pc, opErr, record, stepFailed,
                   answer, seen>>

-----------------------------------------------------------------------------
(* operation(ctx), and what ExecuteWithRetry does with its error. *)

Succeeds ==
    /\ opErr' = "nil"
    /\ pc' = "answer"
    /\ UNCHANGED <<attempt, stepFailed>>

\* A failed attempt fails the step there and then, whatever comes later.
MarkFailed == stepFailed' = TRUE

\* if attempt < cfg.RetryAttempts-1: sleep; and the end of the loop.
FailsAttempt ==
    /\ MarkFailed
    /\ attempt' = attempt + 1
    /\ IF attempt < Attempts - 1
       THEN pc' = "pause" /\ UNCHANGED opErr
       ELSE pc' = "answer" /\ opErr' = "wrapped"

\* The error of a query that is run once reaches the repository as it is.
FailsOnce(e) ==
    /\ opErr' = e
    /\ pc' = "answer"
    /\ UNCHANGED <<attempt, stepFailed>>

Fails(e) == IF withRetry THEN FailsAttempt ELSE FailsOnce(e)

QueryFindsRow ==
    /\ pc = "query"
    /\ ~Malformed
    /\ row \in Selected
    /\ record' = row
    /\ seen' = Append(seen, row)
    /\ Succeeds
    /\ UNCHANGED <<row, changes, kind, withRetry, query, answer>>

\* Scan returns sql.ErrNoRows; GetGame makes a success of it.
QueryFindsNone ==
    /\ pc = "query"
    /\ ~Malformed
    /\ row \notin Selected
    /\ seen' = Append(seen, row)
    /\ IF kind = "joins" THEN Succeeds ELSE Fails("noRows")
    /\ UNCHANGED <<row, changes, kind, withRetry, query, record, answer>>

QueryFails ==
    /\ pc = "query"
    /\ IF Malformed
       THEN UNCHANGED changes
       ELSE changes < MaxChanges /\ changes' = changes + 1
    /\ seen' = Append(seen, Failed)
    /\ Fails("query")
    /\ UNCHANGED <<row, kind, withRetry, query, record, answer>>

\* time.Sleep(delay)
Wake ==
    /\ pc = "pause"
    /\ pc' = "query"
    /\ UNCHANGED <<row, changes, kind, withRetry, query, attempt, opErr, record,
                   stepFailed, answer, seen>>

-----------------------------------------------------------------------------
(* What the repository returns. *)

\* err == sql.ErrNoRows
IsNoRows_Any(e) == e # "nil"
IsNoRows(e) == e = "noRows"

AnswerFor(e) ==
    IF e = "nil" THEN "record"
    ELSE IF kind # "joins" /\ IsNoRows(e) THEN "nothing" ELSE "error"

\* The names in the row of a brand or a category may fail to decode.  GetGame
\* fails the step when it has no answer.
Return ==
    /\ pc = "answer"
    /\ \/ answer' = AnswerFor(opErr)
       \/ kind = "guards" /\ opErr = "nil" /\ answer' = "error"
    /\ stepFailed' = (stepFailed \/ (kind = "joins" /\ opErr # "nil"))
    /\ pc' = "returned"
    /\ UNCHANGED <<row, changes, kind, withRetry, query, attempt, opErr, record, seen>>

-----------------------------------------------------------------------------

Next ==
    \/ Send \/ Write \/ QueryFindsRow \/ QueryFindsNone \/ QueryFails \/ Wake \/ Return
    \/ \E key \in Fields : Visit(key)

Spec == Init /\ [][Next]_vars

-----------------------------------------------------------------------------

\* The filters that the repository does not drop.
Honoured == {key \in DOMAIN filters : ~(kind \in {"guards", "skips"} /\ key \notin Allowed)}

\* The row is what the step asked for.
Agrees(r) == r \in Rows /\ \A key \in Honoured : r[key] = filters[key]

\* In whatever order the map is visited, a query that the database accepts
\* selects exactly the rows that agree with the filters which were not
\* dropped: every argument meets its own "?" (wallet.go:104-111).
SelectsWhatIsAsked ==
    pc # "loop" /\ ~Malformed => Selected = {r \in Rows : Agrees(r)}

\* While the row comes, changes and goes between the attempts, an answer is
\* the truth of the last query: a record is the row of that moment and agrees
\* with the filters, and (nil, nil) is said only when a query that did not
\* fail found no such row.  Game's repository is weaker: its record may also
\* be the zero value, and then no row agreed (game.go:54-56).
AnswerIsTrue ==
    pc = "returned" /\ answer \in {"record", "nothing"} =>
        /\ seen # << >> /\ Last(seen) # Failed
        /\ IF answer = "record" /\ record # NoRow
           THEN record = Last(seen) /\ Agrees(record)
           ELSE (kind = "joins" \/ answer = "nothing") /\ ~Agrees(Last(seen))

\* What the repositories say of themselves (wallet.go:160, brand.go:113: no
\* data, we return nil): a query that finds no row is answered with (nil, nil).
NoRowsIsNil ==
    pc = "returned" /\ kind # "joins" /\ seen # << >>
    /\ Last(seen) # Failed /\ ~Agrees(Last(seen)) => answer = "nothing"
=============================================================================
