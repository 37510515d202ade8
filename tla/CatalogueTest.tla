--------------------------- MODULE CatalogueTest ---------------------------
(***************************************************************************)
(* One test of the catalogue suites, directly under test/e2e: it creates a *)
(* brand, a category, a collection or a label through the CAP API, or      *)
(* takes a game, changes it, compares what the API and the row in the      *)
(* database show, and removes it.  Every request is the call of HttpClient *)
(* that its method of ApiMethods makes, step by step, so that an answer    *)
(* may be lost, late or unreadable.  A row is read at once, in one step:   *)
(* Repository shows how.                                                   *)
(*                                                                         *)
(* Three more tests look at one part alone: "client" at any request of     *)
(* HttpClient, "api" at every method of ApiMethods as the suites call it,  *)
(* and "data" at what RandomStrings makes up.                              *)
(*                                                                         *)
(* A definition named X_Something is X with one plausible slip; it is used *)
(* only to show that the properties notice that slip.                      *)
(***************************************************************************)
EXTENDS ApiMethods, RandomStrings, TestSteps, FiniteSets

CONSTANTS MaxFaults,  \* bound: answers, connections and queries that fail
          MaxLength,  \* bound: lengths of texts
          ThisYear, Ages

\* The first fault is always counted, also a timer that fires in a call.
ASSUME FaultsAssumption == MaxFaults \in Nat \ {0}
\* The lengths that Get is asked for, from -1 on; the year, and ages in years.
ASSUME DataAssumption == MaxLength \in Nat /\ ThisYear \in Int /\ Ages \subseteq Int

VARIABLES
    test,     \* which test
    calling,  \* the step whose request is under way, 0 if none is
    tries,    \* requests the step has made before
    id,       \* what the test knows of its item: "none", "known", "empty"
    item,     \* the item: "none", "made", "enabled", "disabled", "updated", "deleted" (external)
    shown,    \* the same in the database, which follows (external)
    late,     \* steps whose request was given up, and may still be served (external)
    faults,   \* answers, connections and queries that failed so far (external)
    drawn     \* the text that was made up

remote == <<item, shown, late, faults>>
testVars == <<test, calling, tries, id, remote, drawn, stepVars>>

-----------------------------------------------------------------------------
(* The steps. *)

\* What the test requires or asserts of an answer is its check - the status, the
\* id in it ("id"), or both; a step that sends its request again makes up to
\* "times" of them; one that indexes a list of the answer needs it to be there.
Step(does, method, check) ==
    [does |-> does, method |-> method, check |-> check, times |-> 1, to |-> "none",
     rows |-> {}, fits |-> {}, retry |-> FALSE, indexes |-> FALSE, async |-> FALSE]

Create(method, check) == Step("create", method, check)
Change(method, to) == [Step("change", method, "assert") EXCEPT !.to = to]
Fetch(method, check, is) == [Step("get", method, check) EXCEPT !.fits = is]
Delete(method) == Step("delete", method, "assert")
Thrice(step) == [step EXCEPT !.times = 3]
Checked(step, check) == [step EXCEPT !.check = check]
Required(step) == Checked(step, "require")
Indexing(step) == [step EXCEPT !.indexes = TRUE]
Async(step) == [step EXCEPT !.async = TRUE]

\* A query that selects the item in the states "rows", and what the test then
\* compares; without a row the test stops when it uses the nil pointer.
Row(rows, is) == [Step("row", "none", "require") EXCEPT !.rows = rows, !.fits = is]
Guarded(row) == [row EXCEPT !.check = "assert"]
Retried(row) == [row EXCEPT !.retry = TRUE]
\* GetCategory returns nil; asked up to "times" times.
Absent == Step("absent", "none", "assert")

\* A brand that is deleted keeps its row.
Live == {"made", "enabled", "disabled", "updated"}
BrandRow(is) == Retried(Row(Live \cup {"deleted"}, is))
CategoryRow(is) == Row(Live, is)
GameRow(is) == Retried(Row(Live, is))
\* The first row that the database has of a kind: its id is the item's.
Pick == Step("pick", "none", "require")
\* The message of the update, which FindMessageByFilter waits for.
Message == Step("message", "none", "assert")

\* TestDeleteBrand: the status it looks for, 2, is also that of a new brand
\* (create_brand_test.go:95).
DeleteBrand ==
    << Create("CreateCapBrand", "id"), Async(BrandRow(Live \cup {"deleted"})),
       Delete("DeleteCapBrand"), Async(Retried(Row({"made", "deleted"}, {"made", "deleted"}))) >>

\* TestGetBrandByFilters; TestCreateBrandWithRussianName and the test with the
\* shortest and longest names; the other tests of that suite; the suite with
\* parameters
CreateBrand == << Create("CreateCapBrand", "none"), BrandRow({"made"}), Delete("DeleteCapBrand") >>
RussianBrand == << Create("CreateCapBrand", "status"), BrandRow({"made"}), Delete("DeleteCapBrand") >>
PositiveBrand ==
    << Create("CreateCapBrand", "status"), Guarded(BrandRow({"made"})), Delete("DeleteCapBrand") >>
BrandTable ==
    << Create("CreateCapBrand", "required"), Guarded(BrandRow({"made"})), Delete("DeleteCapBrand") >>

\* TestBrandStatusManagement
BrandStatus_AskedBefore ==
    << Create("CreateCapBrand", "status"),
       Fetch("GetCapBrand", "assert", {"enabled"}), Change("UpdateBrandStatus", "enabled"),
       Change("UpdateBrandStatus", "disabled"), Fetch("GetCapBrand", "assert", {"disabled"}),
       Delete("DeleteCapBrand") >>
BrandStatus ==
    << Create("CreateCapBrand", "status"),
       Change("UpdateBrandStatus", "enabled"), Fetch("GetCapBrand", "assert", {"enabled"}),
       Change("UpdateBrandStatus", "disabled"), Fetch("GetCapBrand", "assert", {"disabled"}),
       Delete("DeleteCapBrand") >>

\* The tests of UpdateBrandPositiveSuite
UpdateBrand ==
    << Create("CreateCapBrand", "status"), Change("UpdateCapBrand", "updated"),
       Delete("DeleteCapBrand") >>

\* TestCategoryFields and TestCollectionFields
CategoryFields ==
    << Create("CreateCapCategory", "status"), Guarded(CategoryRow({"made"})),
       Delete("DeleteCapCategory") >>

\* TestCreateCategory, TestCreateCollection, and both suites with parameters
CreateCategory ==
    << Create("CreateCapCategory", "both"), Fetch("GetCapCategory", "assert", {"made"}),
       CategoryRow({"made"}), Delete("DeleteCapCategory") >>
CreateCollection == [CreateCategory EXCEPT ![4] = Thrice(@)]
CategoryTable ==
    << Create("CreateCapCategory", "required"), Fetch("GetCapCategory", "require", Live),
       CategoryRow(Live) >>

\* TestDeleteCategory and TestDeleteCollection
DeleteCategory ==
    << Create("CreateCapCategory", "both"), CategoryRow(Live), Delete("DeleteCapCategory"), Absent >>
DeleteCollection == [DeleteCategory EXCEPT ![3] = Thrice(@)]

\* TestUpdateCategory and TestUpdateCollection
UpdateCategory ==
    << Create("CreateCapCategory", "both"), Change("UpdateCapCategory", "updated"),
       CategoryRow({"updated"}), Delete("DeleteCapCategory"), Absent >>

\* The suites with parameters: of a status, or of the rest.
TableBegins == Create("CreateCapCategory", "required")
TableAwaits == Fetch("GetCapCategory", "require", Live)
TableRemoves == Required(Thrice(Delete("DeleteCapCategory")))
TableLooks == Required([Absent EXCEPT !.times = 5])

StatusTable ==
    << TableBegins, TableAwaits, Change("UpdateCapCategoryStatus", "enabled"),
       CategoryRow({"enabled"}), CategoryRow({"enabled"}), TableRemoves, TableLooks >>
FieldTable ==
    << TableBegins, TableAwaits, Required(Thrice(Change("UpdateCapCategory", "updated"))),
       CategoryRow({"updated"}), TableRemoves, TableLooks >>

\* TestUpdateGame, and the suite with parameters: a game that is there already.
UpdateGame ==
    << Pick, Checked(Change("UpdateGames", "updated"), "both"), GameRow({"updated"}),
       Fetch("GetGames", "assert", {"updated"}) >>
GameTable ==
    << Retried(Pick), Checked(Change("UpdateGames", "updated"), "required"), Async(GameRow({"updated"})),
       Async(Fetch("GetGames", "assert", {"updated"})), Async(Message) >>

\* TestCreateLabel
CreateLabel ==
    << Create("CreateLabel", "both"), Indexing(Fetch("GetLabel", "assert", {"made"})),
       Retried(Row({"made"}, {"made"})) >>

Program ==
    [deleteBrand |-> DeleteBrand, createBrand |-> CreateBrand, russianBrand |-> RussianBrand,
     positiveBrand |-> PositiveBrand, brandTable |-> BrandTable, brandStatus |-> BrandStatus,
     updateBrand |-> UpdateBrand, categoryFields |-> CategoryFields,
     createCategory |-> CreateCategory, createCollection |-> CreateCollection,
     categoryTable |-> CategoryTable, deleteCategory |-> DeleteCategory,
     deleteCollection |-> DeleteCollection, updateCategory |-> UpdateCategory,
     statusTable |-> StatusTable, fieldTable |-> FieldTable, updateGame |-> UpdateGame,
     gameTable |-> GameTable, createLabel |-> CreateLabel]

Alone == {"client", "api", "data"}
OfGames == {"updateGame", "gameTable"}
Steps == IF test \in Alone THEN << >> ELSE Program[test]

TestInit ==
    /\ Idle /\ NothingDone
    /\ test \in Alone \cup DOMAIN Program
    /\ calling = 0 /\ tries = 0
    /\ id = "none"
    /\ item = IF test \in OfGames THEN "made" ELSE "none"
    /\ shown = item /\ late = {} /\ faults = 0
    /\ drawn = << >>

-----------------------------------------------------------------------------
(* The services under test (external). *)

\* Whether the path names the item, and the item is there.
Reached == id = "known" /\ item \in Live

After(step) ==
    CASE step.does = "create" -> IF item = "none" THEN "made" ELSE item
      [] step.does = "change" /\ Reached -> step.to
      [] step.does = "delete" /\ Reached -> "deleted"
      [] OTHER -> item

\* A status is changed, and an item deleted, without a body.
GoodStatus(step) ==
    IF step.does = "delete" \/ step.method \in {"UpdateBrandStatus", "UpdateCapCategoryStatus"}
    THEN 204 ELSE 200

Fault == faults < MaxFaults /\ faults' = faults + 1

Serve ==
    /\ calling # 0 /\ Respond
    /\ LET step == Steps[calling]
       IN  \/ status' = (IF step.does = "create" \/ Reached THEN GoodStatus(step) ELSE 404)
              /\ item' = After(step) /\ UNCHANGED faults
           \/ status' = 500 /\ Fault /\ UNCHANGED item
    /\ UNCHANGED <<test, calling, tries, id, shown, late, drawn, stepVars>>

\* The body that belongs to the status, or another.
Deliver ==
    /\ calling # 0 /\ ReadBody
    /\ \/ answer' = (IF status = 200 THEN "fits" ELSE "empty") /\ UNCHANGED faults
       \/ status = 200 /\ answer' # "fits" /\ Fault
    /\ UNCHANGED <<test, calling, tries, id, item, shown, late, drawn, stepVars>>

\* No request is given up with an answer in hand, so that the order of this and
\* the rest of a call under way makes no difference.
ServeLate(k) ==
    /\ k \in late /\ pc \notin {"read", "decode", "returned"}
    /\ late' = late \ {k}
    /\ item' = After(Steps[k])
    /\ UNCHANGED <<vars, test, calling, tries, id, shown, faults, drawn, stepVars>>

Show ==
    /\ shown # item /\ shown' = item
    /\ UNCHANGED <<vars, test, calling, tries, id, item, late, faults, drawn, stepVars>>

Services == Serve \/ Deliver \/ Show \/ \E k \in late : ServeLate(k)

-----------------------------------------------------------------------------
(* The requests of the test. *)

ItemKey(method) == GivenBySuites(method)
IdValue == IF id = "known" THEN <<Text>> ELSE << >>

BeginCall(k) ==
    /\ calling = 0 /\ Steps[k].method # "none"
    /\ Call(Steps[k].method, [key \in ItemKey(Steps[k].method) |-> IdValue])
    /\ calling' = k
    /\ UNCHANGED <<test, tries, id, remote, drawn, stepVars>>

\* The timer may fire in any call.
CallExpires ==
    /\ calling # 0 /\ Expire
    /\ faults' = IF faults < MaxFaults THEN faults + 1 ELSE faults
    /\ UNCHANGED <<test, calling, tries, id, item, shown, late, drawn, stepVars>>

\* A request that is given up before it was answered may have reached the server.
GiveUp ==
    /\ late' = IF pc = "send" /\ Steps[calling].does # "get" THEN late \cup {calling} ELSE late
    /\ UNCHANGED <<test, calling, tries, id, item, shown, drawn, stepVars>>

CallBreaks == calling # 0 /\ ConnectionFails /\ Fault /\ GiveUp
CallTimesOut == calling # 0 /\ TimesOut /\ UNCHANGED faults /\ GiveUp

CallGoesOn ==
    /\ calling # 0
    /\ (\E key \in Keys : FillIn(key)) \/ Resolve \/ WriteBody \/ SetHeaders \/ ReturnError \/ ReturnBody
    /\ UNCHANGED testVars

\* What the test does with the Response: no check looks at its Error.
Done_NoError(step) == statusCode < 400
Done(step) == statusCode = GoodStatus(step)

SendsAgain(step) == tries + 1 < step.times /\ ~Done(step)

\* The id in the answer: decoding a part of it may or may not yield it.
IdShown ==
    CASE decoded = "all" -> {"known"}
      [] decoded = "part" -> {"known", "empty"}
      [] OTHER -> {"empty"}

Marked(good, check) ==
    IF good THEN "passed" ELSE IF check \in {"require", "required"} THEN "fatal" ELSE "failed"

\* A test that indexes the list of an answer that has none panics.
Verdicts(step, good) ==
    CASE good -> {"passed"}
      [] ~good /\ step.indexes /\ decoded # "all" ->
            {verdict \in {"failed", "fatal"} : decoded = "zero" => verdict = "fatal"}
      [] OTHER -> {Marked(good, step.check)}

Good(step, idShown) ==
    CASE step.check = "none" -> TRUE
      [] step.check = "id" -> idShown = "known"
      [] step.check \in {"both", "required"} /\ GoodStatus(step) = 200 ->
            Done(step) /\ idShown = "known"
      [] step.does = "get" /\ step.check = "assert" ->
            Done(step) /\ decoded = "all" /\ item \in step.fits
      [] OTHER -> Done(step)

CallAgain(k) ==
    /\ calling = k /\ Forget /\ SendsAgain(Steps[k])
    /\ tries' = tries + 1 /\ calling' = 0
    /\ UNCHANGED <<test, id, remote, drawn, stepVars>>

EndCall(k) ==
    /\ calling = k /\ Forget /\ ~SendsAgain(Steps[k])
    /\ \E idShown \in IdShown :
          /\ id' = IF Steps[k].does = "create" THEN idShown ELSE id
          /\ \E verdict \in Verdicts(Steps[k], Good(Steps[k], idShown)) : Ends(k, verdict)
    /\ tries' = 0 /\ calling' = 0
    /\ UNCHANGED <<test, remote, drawn>>

-----------------------------------------------------------------------------
(* The rows that the test reads. *)

\* The row as the database shows it now.
Found == IF id = "known" THEN shown ELSE "none"

ReadRow(k) ==
    LET step == Steps[k]
    IN  /\ step.does = "row"
        /\ Ends(k, IF Found \in step.rows THEN Marked(Found \in step.fits, "assert")
                   ELSE Marked(FALSE, step.check))
        /\ UNCHANGED <<vars, test, calling, tries, id, remote, drawn>>

\* A read with retries that finds its row at a later attempt has failed the
\* step at the first one (database.go:25-31).
ReadRowLate(k) ==
    LET step == Steps[k]
    IN  /\ step.does = "row" /\ step.retry /\ id = "known"
        /\ Found \notin step.rows /\ item \in step.rows
        /\ shown' = item
        /\ Ends(k, "failed")
        /\ UNCHANGED <<vars, test, calling, tries, id, item, late, faults, drawn>>

PickRow(k) ==
    /\ Steps[k].does = "pick"
    /\ id' = "known"
    /\ Ends(k, "passed")
    /\ UNCHANGED <<vars, test, calling, tries, remote, drawn>>

\* The topic has the message once the update was done, or it comes too late.
FindMessage(k) ==
    /\ Steps[k].does = "message"
    /\ \/ item = "updated" /\ Ends(k, "passed") /\ UNCHANGED faults
       \/ Fault /\ Ends(k, "failed")
    /\ UNCHANGED <<vars, test, calling, tries, id, item, shown, late, drawn>>

\* The test does not look at the error; asked again, there may be a row no more.
FindAbsence(k) ==
    LET step == Steps[k]
    IN  /\ step.does = "absent"
        /\ \/ Found \notin Live /\ Ends(k, "passed") /\ UNCHANGED shown
           \/ Found \in Live /\ Ends(k, Marked(FALSE, step.check)) /\ UNCHANGED shown
           \/ Found \in Live /\ item \notin Live /\ step.times > 1
              /\ shown' = item /\ Ends(k, "passed")
        /\ UNCHANGED <<vars, test, calling, tries, id, item, late, faults, drawn>>

\* No row comes of a query that fails, and so an absence does; a later attempt
\* may find or pick the row in a step that has failed.
QueryFails(k) ==
    LET step == Steps[k]
    IN  /\ \/ step.does \in {"row", "pick"} /\ Ends(k, Marked(FALSE, step.check)) /\ UNCHANGED id
           \/ step.does = "row" /\ step.retry /\ Found \in step.rows
              /\ Ends(k, "failed") /\ UNCHANGED id
           \/ step.does = "pick" /\ step.retry /\ Ends(k, "failed") /\ id' = "known"
           \/ step.does = "absent" /\ step.times = 1 /\ Ends(k, "passed") /\ UNCHANGED id
        /\ Fault
        /\ UNCHANGED <<vars, test, calling, tries, item, shown, late, drawn>>

-----------------------------------------------------------------------------

Spawn ==
    /\ calling = 0 /\ SpawnNext(Steps)
    /\ UNCHANGED <<vars, test, calling, tries, id, remote, drawn>>

StepOf(k) ==
    BeginCall(k) \/ CallAgain(k) \/ EndCall(k) \/ ReadRow(k) \/ ReadRowLate(k) \/ PickRow(k)
        \/ FindMessage(k) \/ FindAbsence(k) \/ QueryFails(k)

TestStep == Spawn \/ CallGoesOn \/ CallTimesOut \/ \E k \in UnderWay(Steps) : StepOf(k)

CallAlone == test = "client" /\ Next /\ UNCHANGED testVars

\* A method, called as the suites call it.
ApiAlone ==
    /\ test = "api"
    /\ \/ \E name \in DOMAIN Methods : Call(name, [key \in GivenBySuites(name) |-> <<Text>>])
       \/ ClientStep
    /\ UNCHANGED testVars

Lengths == -1 .. MaxLength

Draw ==
    /\ test = "data" /\ drawn = << >>
    /\ \/ \E config \in Configs, length \in Lengths :
             \E text \in Get(config, length) :
                drawn' = [config |-> config, length |-> length, text |-> text]
       \/ \E age \in Ages : \E date \in Birthday(ThisYear, age) :
                drawn' = [config |-> "birthday", length |-> age, text |-> date]
    /\ UNCHANGED <<vars, test, calling, tries, id, remote, stepVars>>

TestNext == Services \/ CallExpires \/ CallBreaks \/ TestStep \/ CallAlone \/ ApiAlone \/ Draw

allVars == <<vars, testVars>>
TestSpec == TestInit /\ [][TestNext]_allVars

\* The goroutine of the test goes on, and the timer fires in time; the server
\* need not answer.
TestFairSpec ==
    /\ TestSpec
    /\ WF_allVars(TestStep)
    /\ WF_allVars(CallExpires)
    /\ WF_allVars(test = "client" /\ (ClientStep \/ Expire) /\ UNCHANGED testVars)

-----------------------------------------------------------------------------

\* Every request of the suites has all placeholders of its path replaced, and
\* the item in it: only after an answer was lost, refused or unreadable may a
\* test that goes on send a request for an item without an id
\* (brand_status_test.go:60-73, update_brand_positive_test.go:70-85).
PathNamesItem ==
    pc = "send" /\ test # "client" =>
        /\ \A n \in DOMAIN path : path[n].kind = "text"
        /\ calling # 0 /\ Steps[calling].does # "create" /\ id # "known" => faults > 0

\* A test that passed has done all that it says, whatever was lost, late or
\* sent twice on the way: the item is in the last state that a step put it in,
\* and gone if a step removes it.  So a test leaves an item behind silently
\* only if it has no step that removes it - the suites with parameters that
\* create categories and collections, labels and games.
PassedMeansDone ==
    Ended(Steps) /\ failed = {} /\ test \notin Alone =>
        LET does == {Steps[k].does : k \in DOMAIN Steps}
            changes == {Steps[k].to : k \in DOMAIN Steps} \ {"none"}
        IN  IF "delete" \in does THEN item = "deleted"
            ELSE item \in IF changes = {} THEN {"made"} ELSE changes

\* As long as every answer comes and every query works, the only steps that
\* fail are those that read the database before it shows what the API did, and
\* those that come after in a test they did not stop find everything as
\* expected (create_collection_test.go:143-150, update_category_test.go:119-129,
\* delete_brand_test.go:87-94).
OnlyRowsFail ==
    faults = 0 => \A k \in failed : Steps[k].does \in {"row", "absent"}

Between(low, high) == {n \in Lengths : low <= n /\ n <= high}

\* What is made up is what the services accept, for every length that the suites
\* may ask for: as long as asked and without half a character, an alias without
\* two dashes in a row, a title without a blank at its ends, a password with
\* characters of four classes; and every day of a year of birth, but no other,
\* may be drawn.  A text in Cyrillic consists of halves of characters
\* (rndstr.go:132-137, 162-178, 202-222, 258-286, 297-378).
GeneratedFits ==
    drawn # << >> =>
        LET text == drawn.text
            asked == drawn.length
            has == {text[n] : n \in DOMAIN text}
            leaps(year) == (year \div 4) - (year \div 100) + (year \div 400)
        IN  CASE drawn.config = "birthday" ->
                    Cardinality(Birthday(ThisYear, asked))
                        = 365 + leaps(ThisYear - asked) - leaps(ThisYear - asked - 1)
              [] drawn.config = "alias" ->
                    /\ asked \in Between(0, Size.alias) => Len(text) = asked
                    /\ \A n \in 2 .. Len(text) : ~(text[n - 1] = "dash" /\ text[n] = "dash")
              [] drawn.config \in {"category_title", "collection_title", "game_title"} ->
                    /\ asked \in Between(2, Size.title) => Len(text) = asked
                    /\ text # << >> => text[1] # "blank" /\ text[Len(text)] # "blank"
              [] drawn.config = "pass" ->
                    asked >= 4 => Len(text) = asked /\ has = {"upper", "lower", "digit", "special"}
              [] drawn.config \in {"iban", "personal_id", "phone", "email"} -> has # {}
              [] OTHER ->
                    /\ asked >= 0 => Len(text) = asked
                    /\ "half" \in has => drawn.config = "cyrillic"

\* Every test ends, although the server may never answer a request, an answer
\* may break off, and a request may have to be sent again: a call that hangs is
\* ended by the timeout of the client, wherever it hangs.
CatalogueEnds == test # "api" => <>[](Ended(Steps) /\ pc \in {"idle", "returned"})
=============================================================================
