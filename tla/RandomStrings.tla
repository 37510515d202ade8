---------------------------- MODULE RandomStrings ----------------------------
(***************************************************************************)
(* pkg/utils/rndstr.go: the names, numbers and dates that the suites make  *)
(* up.  A text is a sequence of the classes of its characters, and Get is  *)
(* the set of texts that the random source may lead to.                    *)
(*                                                                         *)
(* The lengths that the code fixes - 100 for an alias, 25 for a title, 19  *)
(* digits of an IBAN - are fields of Size, small for TLC.                  *)
(*                                                                         *)
(* A definition named X_Something is X with one plausible slip; it is used *)
(* only to show that the properties notice that slip.                      *)
(***************************************************************************)
EXTENDS Integers, FiniteSets, SequencesExt

CONSTANT Size

\* The limit of a game's title is above that of the other titles.
ASSUME SizeAssumption ==
    /\ {Size.alias, Size.title, Size.game, Size.iban, Size.phone} \subseteq Nat
    /\ Size.personal \in Nat \X Nat
    /\ Size.title <= Size.game

Digit == {"zero", "digit"}
Latin == {"lower", "upper"}
\* One character, for the generators that count runes.
Cyrillic == {"cyrillic"}
\* One byte of a character of two, for the generator that counts bytes.
HalfLetter == {"half"}

\* randomStringFromSet: each element of its own; none for a length below one.
FromSet(set, length) == [1 .. length -> set]

Clamp(length, limit) == IF length > limit THEN limit ELSE length

\* generateName: a capital, then small letters.
Name(length) == {[n \in 1 .. length |-> IF n = 1 THEN "upper" ELSE "lower"]}

\* NUMBER: a zero in front gives way to another digit.
Number(length) ==
    {[n \in DOMAIN s |-> IF n = 1 THEN "digit" ELSE s[n]] : s \in FromSet(Digit, length)}

\* shuffleRunes: any order.
Shuffled(s) ==
    {[n \in DOMAIN s |-> s[order[n]]] :
        order \in {p \in [DOMAIN s -> DOMAIN s] : Cardinality(Range(p)) = Len(s)}}

\* hasUpperAndLower: the letters are drawn again until they are of both cases.
BothCases(letters) == "upper" \in Range(letters) /\ "lower" \in Range(letters)

\* generatePassword; Get returns the text of its error.
Password(length) ==
    IF length < 4
    THEN {<< "error" >>}
    ELSE UNION {Shuffled(letters \o << "special", "digit" >>) :
                  letters \in {s \in FromSet(Latin, length - 2) : BothCases(s)}}

\* generateAlias: after a dash the next character is not one.
AfterDash_First(s) == s[1] = "dash"
AfterDash(s) == Last(s) = "dash"

Alias(length) ==
    {s \in FromSet({"lower", "dash"} \cup Digit, Clamp(length, Size.alias)) :
        \A n \in 2 .. Len(s) : AfterDash(SubSeq(s, 1, n - 1)) => s[n] # "dash"}

\* A blank at either end of a title gives way to a letter.
Trimmed(s, first, last) ==
    LET begun == [s EXCEPT ![1] = IF @ = "blank" THEN first ELSE @]
    IN  [begun EXCEPT ![Len(s)] = IF @ = "blank" THEN last ELSE @]

\* generateCategoryTitle and generateCollectionTitle
CategoryTitle(length) ==
    IF length <= 0 THEN {<< >>}
    ELSE {Trimmed(s, "upper", "lower") :
            s \in FromSet(Latin \cup Digit \cup Cyrillic \cup {"blank", "dash"},
                          Clamp(length, Size.title))}

\* generateGameTitle
GameTitle(length) ==
    {Trimmed(s, "upper", "lower") :
        s \in FromSet(Latin \cup Digit \cup {"blank", "dash"},
                      Clamp(IF length < 2 THEN 2 ELSE length, Size.game))}

\* generateRandomString: a slice cannot be made with a negative length.
RandomString(set, length) == IF length < 0 THEN {<< "panic" >>} ELSE FromSet(set, length)

Joined(parts) == {p[1] \o p[2] : p \in parts}

Configs == {"integer", "letters", "alphanum", "number", "name", "email", "pass", "cyrillic",
            "special", "hex", "non_hex", "iban", "personal_id", "brandTitle", "alias",
            "category_title", "collection_title", "game_title", "phone"}

\* Get, for the configurations that are texts; the dates are below.
Get(config, length) ==
    CASE config = "integer" -> FromSet(Digit, length)
      [] config = "letters" -> FromSet(Latin, length)
      [] config = "alphanum" -> FromSet(Latin \cup Digit, length)
      [] config = "number" -> Number(length)
      [] config = "name" -> Name(length)
      [] config = "email" -> Joined(FromSet(Latin \cup Digit, length) \X {<< "gmail.com" >>})
      [] config = "pass" -> Password(length)
      [] config = "cyrillic" -> FromSet(HalfLetter, length)
      [] config = "special" -> FromSet({"special"}, length)
      [] config = "hex" -> FromSet({"lower"} \cup Digit, length)
      [] config = "non_hex" -> FromSet({"lower"}, length)
      [] config = "iban" -> Joined({<< "upper", "upper" >>} \X FromSet(Digit, Size.iban))
      [] config = "personal_id" ->
            Joined(Joined(FromSet(Digit, Size.personal[1]) \X {<< "dash" >>})
                      \X FromSet(Digit, Size.personal[2]))
      [] config = "brandTitle" -> RandomString(Latin \cup Digit, length)
      [] config = "alias" -> Alias(length)
      [] config \in {"category_title", "collection_title"} -> CategoryTitle(length)
      [] config = "game_title" -> GameTitle(length)
      [] config = "phone" -> Joined({<< "plus371" >>} \X FromSet(Digit, Size.phone))

-----------------------------------------------------------------------------
(* Dates of birth: generateBirthday and daysIn. *)

Leap(year) == (year % 4 = 0 /\ year % 100 # 0) \/ year % 400 = 0

DaysIn(month, year) ==
    CASE month = 2 -> IF Leap(year) THEN 29 ELSE 28
      [] month \in {1, 3, 5, 7, 8, 10, 12} -> 31
      [] OTHER -> 30

Birthday(thisYear, yearsAgo) ==
    UNION {{<<thisYear - yearsAgo, month, day>> : day \in 1 .. DaysIn(month, thisYear - yearsAgo)} :
             month \in 1 .. 12}
=============================================================================
