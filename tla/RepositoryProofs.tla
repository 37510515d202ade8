-------------------------- MODULE RepositoryProofs --------------------------
(***************************************************************************)
(* Proofs about Repository, for any columns, any filters and any number of *)
(* attempts: the query selects what the step asked for, and the answer is  *)
(* the truth of the last query.                                            *)
(***************************************************************************)
EXTENDS Repository, SequenceTheorems, TLAPS

-----------------------------------------------------------------------------
(* The query. *)

\* The conditions are the filters visited so far that were not dropped, and
\* each argument is the value of the filter at its place.
QueryInv ==
    /\ todo \subseteq DOMAIN filters
    /\ pc # "loop" => todo = {}
    /\ conditions \in Seq(DOMAIN filters) /\ args \in Seq(Values)
    /\ filters \in [DOMAIN filters -> Values]
    /\ Len(args) = Len(conditions)
    /\ \A n \in DOMAIN conditions : args[n] = filters[conditions[n]]
    /\ {conditions[n] : n \in DOMAIN conditions} = Honoured \ todo

\* No field is visited when the loop begins.
LEMMA NothingVisited == Init => QueryInv
<1> SUFFICES ASSUME Init PROVE QueryInv
  OBVIOUS
<1>1. PICK asked \in SUBSET Fields : filters \in [asked -> Values]
  BY DEF Init
<1>2. DOMAIN filters = asked /\ filters \in [DOMAIN filters -> Values]
  BY <1>1
<1>3. conditions = << >> /\ args = << >> /\ todo = DOMAIN filters /\ pc = "loop"
  BY DEF Init
<1>4. Honoured \ todo = {}
  BY <1>3 DEF Honoured
<1> QED BY <1>2, <1>3, <1>4 DEF QueryInv

\* A pass of the loop writes one condition and gives its argument, or drops the
\* field.
LEMMA VisitKeepsQuery ==
    ASSUME QueryInv, NEW key \in Fields, Visit(key)
    PROVE  QueryInv'
<1>1. /\ key \in todo /\ key \in DOMAIN filters /\ filters[key] \in Values
      /\ filters' = filters /\ kind' = kind /\ pc = "loop" /\ pc' = "loop"
      /\ todo' = todo \ {key} /\ Honoured' = Honoured
  BY DEF QueryInv, Visit, Honoured
<1>2. CASE LeftOut(key)
  <2>1. conditions' = conditions /\ args' = args
    BY <1>2 DEF Visit
  <2>2. key \notin Honoured
    BY <1>2 DEF LeftOut, Honoured
  <2>3. Honoured \ todo' = Honoured \ todo
    BY <1>1, <2>2
  <2> QED BY <1>1, <2>1, <2>3 DEF QueryInv
<1>3. CASE ~LeftOut(key)
  <2>1. conditions' = Append(conditions, key) /\ args' = Append(args, filters[key])
    BY <1>3 DEF Visit, AddArg
  <2>2. key \in Honoured
    BY <1>1, <1>3 DEF LeftOut, Honoured
  <2>3. Len(conditions) \in Nat /\ Len(args) = Len(conditions)
        /\ conditions \in Seq(DOMAIN filters) /\ args \in Seq(Values)
    BY DEF QueryInv
  <2>4. /\ conditions' \in Seq(DOMAIN filters) /\ args' \in Seq(Values)
        /\ Len(conditions') = Len(conditions) + 1 /\ Len(args') = Len(conditions) + 1
    BY <1>1, <2>1, <2>3
  <2>5. /\ DOMAIN conditions = 1 .. Len(conditions)
        /\ DOMAIN conditions' = 1 .. Len(conditions) + 1
        /\ \A n \in 1 .. Len(conditions) : conditions'[n] = conditions[n] /\ args'[n] = args[n]
        /\ conditions'[Len(conditions) + 1] = key /\ args'[Len(conditions) + 1] = filters[key]
    BY <1>1, <2>1, <2>3
  <2>6. \A n \in DOMAIN conditions' : args'[n] = filters'[conditions'[n]]
    <3> TAKE n \in DOMAIN conditions'
    <3>1. n \in DOMAIN conditions \/ n = Len(conditions) + 1
      BY <2>3, <2>5
    <3> QED BY <1>1, <2>5, <3>1 DEF QueryInv
  <2>7. {conditions'[n] : n \in DOMAIN conditions'} = {conditions[n] : n \in DOMAIN conditions} \cup {key}
    <3>1. \A n \in DOMAIN conditions' : n \in DOMAIN conditions \/ n = Len(conditions) + 1
      BY <2>3, <2>5
    <3>2. Len(conditions) + 1 \in DOMAIN conditions' /\ DOMAIN conditions \subseteq DOMAIN conditions'
      BY <2>3, <2>5
    <3> QED BY <2>5, <3>1, <3>2
  <2>8. Honoured' \ todo' = (Honoured \ todo) \cup {key}
    BY <1>1, <2>2
  <2> QED BY <1>1, <2>3, <2>4, <2>6, <2>7, <2>8 DEF QueryInv
<1> QED BY <1>2, <1>3

\* Nothing else touches the query.
LEMMA QueryKept ==
    ASSUME QueryInv, Next \/ UNCHANGED vars PROVE QueryInv'
<1>1. ASSUME UNCHANGED <<query, kind>>, pc' # "loop" => todo = {} PROVE QueryInv'
  <2>1. Honoured' = Honoured
    BY <1>1 DEF Honoured, query
  <2> QED BY <1>1, <2>1 DEF QueryInv, query
<1>2. ASSUME NEW key \in Fields, Visit(key) PROVE QueryInv'
  BY <1>2, VisitKeepsQuery
<1>3. CASE Send
  BY <1>1, <1>3 DEF Send
<1>4. CASE Write
  BY <1>1, <1>4 DEF Write, QueryInv
<1>5. CASE QueryFindsRow
  BY <1>1, <1>5 DEF QueryFindsRow, QueryInv
<1>6. CASE QueryFindsNone
  BY <1>1, <1>6 DEF QueryFindsNone, QueryInv
<1>7. CASE QueryFails
  BY <1>1, <1>7 DEF QueryFails, QueryInv
<1>8. CASE Wake
  BY <1>1, <1>8 DEF Wake, QueryInv
<1>9. CASE Return
  BY <1>1, <1>9 DEF Return, QueryInv
<1>10. CASE UNCHANGED vars
  BY <1>1, <1>10 DEF vars, QueryInv
<1> QED BY <1>2, <1>3, <1>4, <1>5, <1>6, <1>7, <1>8, <1>9, <1>10 DEF Next

\* A complete query selects the rows that agree with the filters.
LEMMA QuerySelects ==
    ASSUME QueryInv, pc # "loop"
    PROVE  Selected = {r \in Rows : Agrees(r)}
<1>1. {conditions[n] : n \in DOMAIN conditions} = Honoured
  BY DEF QueryInv
<1>2. ASSUME NEW r \in Rows
      PROVE  (\A n \in DOMAIN conditions : r[conditions[n]] = args[n]) <=> Agrees(r)
  <2>1. (\A n \in DOMAIN conditions : r[conditions[n]] = args[n])
          <=> \A n \in DOMAIN conditions : r[conditions[n]] = filters[conditions[n]]
    BY DEF QueryInv
  <2>2. (\A n \in DOMAIN conditions : r[conditions[n]] = filters[conditions[n]])
          <=> \A key \in Honoured : r[key] = filters[key]
    BY <1>1
  <2> QED BY <2>1, <2>2 DEF Agrees
<1> QED BY <1>2 DEF Selected

\* In whatever order the filters are visited, the query selects exactly the
\* rows that agree with those which are not dropped (wallet.go:104-111).
THEOREM QueriesSelectWhatIsAsked == Spec => []SelectsWhatIsAsked
<1>1. QueryInv => SelectsWhatIsAsked
  BY QuerySelects DEF SelectsWhatIsAsked
<1>2. QueryInv /\ [Next]_vars => QueryInv'
  BY QueryKept
<1> QED BY <1>1, <1>2, NothingVisited, PTL DEF Spec

-----------------------------------------------------------------------------
(* The answer. *)

\* What a query has found that did not fail.
Found(r) == seen # << >> /\ Last(seen) = r /\ r # Failed

\* Until an attempt succeeds there is no record and no error; after it the
\* record is the row that the last query found, or game's zero value; the error
\* of a query that is run once says what it found; and the answer follows from
\* the error.
AnswerInv ==
    /\ row \in Rows \cup {NoRow}
    /\ seen \in Seq(Rows \cup {NoRow, Failed})
    /\ pc \in {"loop", "query", "pause", "answer", "returned"}
    /\ pc \in {"loop", "query", "pause"} => opErr = "nil" /\ record = NoRow
    /\ pc \in {"answer", "returned"} /\ opErr = "nil" =>
         \/ record # NoRow /\ Found(record) /\ Agrees(record)
         \/ record = NoRow /\ kind = "joins" /\ Found(Last(seen)) /\ ~Agrees(Last(seen))
    /\ opErr = "noRows" => record = NoRow /\ Found(Last(seen)) /\ ~Agrees(Last(seen))
    /\ pc = "returned" /\ answer = "record" => opErr = "nil"
    /\ pc = "returned" /\ answer = "nothing" => opErr = "noRows"

\* Nothing is found before the first query.
LEMMA NothingFound == Init => AnswerInv
BY DEF Init, AnswerInv

\* What a query has just found is the last thing seen.
LEMMA SeenLast ==
    ASSUME AnswerInv, NEW r \in Rows \cup {NoRow, Failed}, seen' = Append(seen, r)
    PROVE  /\ seen' \in Seq(Rows \cup {NoRow, Failed})
           /\ seen' # << >> /\ Last(seen') = r
BY DEF AnswerInv, Last

\* A query that finds a row makes it the record.
LEMMA FindsRowKeeps ==
    ASSUME QueryInv, AnswerInv, QueryFindsRow PROVE AnswerInv'
<1>1. /\ row \in Rows /\ Agrees(row) /\ row' = row /\ record' = row /\ opErr' = "nil"
      /\ pc' = "answer" /\ seen' = Append(seen, row) /\ pc = "query"
  BY QuerySelects DEF QueryFindsRow, Succeeds
<1>2. row # NoRow /\ row # Failed
  BY <1>1, NoRowAssumption
<1>3. seen' \in Seq(Rows \cup {NoRow, Failed}) /\ seen' # << >> /\ Last(seen') = row
  BY <1>1, SeenLast
<1>4. Agrees(row)'
  <2>1. kind' = kind /\ filters' = filters
    BY DEF QueryFindsRow, query
  <2> QED BY <1>1, <2>1 DEF Agrees, Honoured
<1> QED BY <1>1, <1>2, <1>3, <1>4 DEF AnswerInv, Found, Agrees

\* One that finds none makes a success of it, in game's repository, fails the
\* attempt, or hands the error on.
LEMMA FindsNoneKeeps ==
    ASSUME QueryInv, AnswerInv, QueryFindsNone PROVE AnswerInv'
<1>1. /\ ~Agrees(row) /\ row \in Rows \cup {NoRow} /\ row' = row /\ record' = NoRow
      /\ pc = "query" /\ opErr = "nil" /\ seen' = Append(seen, row)
      /\ kind' = kind /\ filters' = filters
  BY QuerySelects DEF QueryFindsNone, AnswerInv, Agrees, query
<1>2. row # Failed
  BY <1>1, NoRowAssumption
<1>3. seen' \in Seq(Rows \cup {NoRow, Failed}) /\ seen' # << >> /\ Last(seen') = row
  BY <1>1, SeenLast
<1>4. Found(row)' /\ ~Agrees(row)'
  BY <1>1, <1>2, <1>3 DEF Found, Agrees, Honoured
<1>5. CASE kind = "joins"
  BY <1>1, <1>3, <1>4, <1>5 DEF QueryFindsNone, Succeeds, AnswerInv, Found, Agrees
<1>6. CASE kind # "joins" /\ withRetry
  <2>1. pc' \in {"pause", "answer"} /\ (pc' = "pause" => opErr' = "nil")
        /\ (pc' = "answer" => opErr' = "wrapped")
    BY <1>1, <1>6 DEF QueryFindsNone, Fails, FailsAttempt
  <2>2. opErr' \in {"nil", "wrapped"} /\ (pc' = "answer" => opErr' # "nil")
    BY <2>1
  <2> QED BY <1>1, <1>3, <2>1, <2>2 DEF AnswerInv
<1>7. CASE kind # "joins" /\ ~withRetry
  <2>1. pc' = "answer" /\ opErr' = "noRows"
    BY <1>1, <1>7 DEF QueryFindsNone, Fails, FailsOnce
  <2> QED BY <1>1, <1>3, <1>4, <2>1 DEF AnswerInv, Found, Agrees
<1> QED BY <1>5, <1>6, <1>7

\* One that fails leaves no record, and an error that is not that of no rows.
LEMMA QueryFailsKeeps ==
    ASSUME AnswerInv, QueryFails PROVE AnswerInv'
<1>1. /\ row' = row /\ record' = NoRow /\ row \in Rows \cup {NoRow}
      /\ pc = "query" /\ opErr = "nil" /\ seen' = Append(seen, Failed)
  BY DEF QueryFails, AnswerInv
<1>2. seen' \in Seq(Rows \cup {NoRow, Failed})
  BY <1>1, SeenLast
<1>3. /\ pc' \in {"pause", "answer"}
      /\ pc' = "pause" => opErr' = "nil"
      /\ pc' = "answer" => opErr' \in {"wrapped", "query"}
  BY <1>1 DEF QueryFails, Fails, FailsAttempt, FailsOnce
<1> QED BY <1>1, <1>2, <1>3 DEF AnswerInv

\* The steps that do not query leave what was found alone.
LEMMA OthersKeep ==
    ASSUME AnswerInv, Write \/ Send \/ Wake \/ Return \/ UNCHANGED vars
           \/ \E key \in Fields : Visit(key)
    PROVE  AnswerInv'
<1>1. seen' = seen /\ record' = record /\ kind' = kind /\ filters' = filters
  BY DEF Write, Send, Wake, Return, Visit, vars, query
<1>2. /\ Last(seen)' = Last(seen) /\ Agrees(record)' = Agrees(record)
      /\ Agrees(Last(seen))' = Agrees(Last(seen))
      /\ Found(record)' = Found(record) /\ Found(Last(seen))' = Found(Last(seen))
  BY <1>1 DEF Agrees, Honoured, Found
<1>3. CASE Write
  <2>1. row' \in Rows \cup {NoRow} /\ pc' = pc /\ opErr' = opErr /\ answer' = answer
    BY <1>3 DEF Write
  <2> QED BY <1>1, <1>2, <2>1 DEF AnswerInv
<1>4. CASE Send
  <2>1. row' = row /\ pc = "loop" /\ answer' = answer
        /\ ((pc' = "answer" /\ opErr' = "wrapped") \/ (pc' = "query" /\ opErr' = opErr))
    BY <1>4 DEF Send
  <2> QED BY <1>1, <1>2, <2>1 DEF AnswerInv
<1>5. CASE Wake
  <2>1. row' = row /\ pc = "pause" /\ answer' = answer /\ pc' = "query" /\ opErr' = opErr
    BY <1>5 DEF Wake
  <2> QED BY <1>1, <1>2, <2>1 DEF AnswerInv
<1>6. CASE Return
  <2>1. row' = row /\ pc = "answer" /\ pc' = "returned" /\ opErr' = opErr
    BY <1>6 DEF Return
  <2>2. answer' = "record" => opErr = "nil"
    BY <1>6 DEF Return, AnswerFor
  <2>3. answer' = "nothing" => opErr = "noRows"
    BY <1>6 DEF Return, AnswerFor, IsNoRows
  <2> QED BY <1>1, <1>2, <2>1, <2>2, <2>3 DEF AnswerInv
<1>7. CASE UNCHANGED vars
  <2>1. row' = row /\ pc' = pc /\ opErr' = opErr /\ answer' = answer
    BY <1>7 DEF vars
  <2> QED BY <1>1, <1>2, <2>1 DEF AnswerInv
<1>8. ASSUME NEW key \in Fields, Visit(key) PROVE AnswerInv'
  <2>1. row' = row /\ pc' = pc /\ opErr' = opErr /\ answer' = answer
    BY <1>8 DEF Visit
  <2> QED BY <1>1, <1>2, <2>1 DEF AnswerInv
<1> QED BY <1>3, <1>4, <1>5, <1>6, <1>7, <1>8

\* The two invariants hold throughout.
LEMMA ReadingIsSafe == Spec => [](QueryInv /\ AnswerInv)
<1>1. Init => QueryInv /\ AnswerInv
  BY NothingVisited, NothingFound
<1>2. QueryInv /\ AnswerInv /\ [Next]_vars => (QueryInv /\ AnswerInv)'
  <2> SUFFICES ASSUME QueryInv, AnswerInv, [Next]_vars PROVE QueryInv' /\ AnswerInv'
    OBVIOUS
  <2>1. QueryInv'
    BY QueryKept
  <2>2. AnswerInv'
    BY FindsRowKeeps, FindsNoneKeeps, QueryFailsKeeps, OthersKeep DEF Next
  <2> QED BY <2>1, <2>2
<1> QED BY <1>1, <1>2, PTL DEF Spec

\* Whatever happens to the row between the attempts, and however many there
\* are, a record is the row that the last query found and agrees with the
\* filters, and no rows is said only of a query that found none
\* (database.go:15-40, wallet.go:152-165, game.go:54-56).
THEOREM AnswersOfReadsAreTrue == Spec => []AnswerIsTrue
<1>1. QueryInv /\ AnswerInv => AnswerIsTrue
  <2> SUFFICES ASSUME AnswerInv, pc = "returned", answer \in {"record", "nothing"}
               PROVE  /\ seen # << >> /\ Last(seen) # Failed
                      /\ IF answer = "record" /\ record # NoRow
                         THEN record = Last(seen) /\ Agrees(record)
                         ELSE (kind = "joins" \/ answer = "nothing") /\ ~Agrees(Last(seen))
    BY DEF AnswerIsTrue
  <2> QED BY DEF AnswerInv, Found
<1> QED BY <1>1, ReadingIsSafe, PTL
=============================================================================
