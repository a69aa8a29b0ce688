------------------------------ MODULE ValuePath ------------------------------
(***************************************************************************)
(* The way of a value: a script writes it into a call beside another       *)
(* field, callExtension reads the fields, a handler chooses what it can    *)
(* use and prints it into a column, a later mission or login selects it,   *)
(* and RVExtension cuts the printed row to the buffer of Arma.             *)
(*                                                                         *)
(*   object, house   published (400, 407) with a name, streamed (101, 103) *)
(*   details         updated (302) with a class, loaded by 202             *)
(*   gear            updated (303), loaded by 201                          *)
(*                                                                         *)
(* Of the fields of 302 there are the medical array and the class; the     *)
(* state is as the one (but keeps its "any"), the seven numbers of the     *)
(* profile are as the other, and the counts never end the call.            *)
(***************************************************************************)
EXTENDS SqfValue, FiniteSets

CONSTANTS Names,       \* what scripts may write as a name or a class, texts
          Values,      \* the arrays scripts may write
          Width,       \* the characters a column holds
          OutputSize   \* the bytes of Arma's buffer, with the closing one

ASSUME WidthsAssumption == Width \in Nat \ {0, 1} /\ OutputSize \in Nat \ {0}

VARIABLES
  stage,
  kind, name, value,   \* the call, and what the script writes into it
  fields,              \* what callExtension has read
  column, class,       \* the texts in the table
  row,                 \* what the select pushes, as a value
  answer,              \* what callExtension returns
  output               \* what the script is given

call == <<kind, name, value>>
vars == <<stage, call, fields, column, class, row, answer, output>>

Init == /\ stage = "called"
        /\ kind \in {"object", "house", "details", "gear"}
        /\ name \in Names /\ value \in Values
        /\ fields = <<>> /\ column = <<"[", "]">> /\ class = <<"0">>
        /\ row = Arr(<<>>) /\ answer = <<>> /\ output = <<>>

(* External: a script writes an array as it prints it, with the quotes in  *)
(* strings doubled and all the digits.                                     *)
RECURSIVE Written(_)
Doubled(text) == FlattenSeq([i \in DOMAIN text |-> IF text[i] = "\"" THEN <<"\"", "\"">>
                                                   ELSE <<text[i]>>])
Written(v) == CASE v.kind = "arr" ->
                     <<"[">> \o Commas([i \in DOMAIN v.list |-> Written(v.list[i])]) \o <<"]">>
                [] v.kind = "str" -> <<"\"">> \o Doubled(v.text) \o <<"\"">>
                [] OTHER -> v.text

Function == CASE kind = "gear"    -> Written(value) \o <<":">>
              [] kind = "details" -> Written(value) \o <<":">> \o name \o <<":">>
              [] OTHER            -> name \o <<":">> \o Written(value) \o <<":">>

(* Fault: a quote is let through. *)
InvalidNameQuote(text) == \E c \in Range(text) : c \in {":", "[", "]", ",", ".", "\\"}

(* A player whose name has another character than these is kicked. *)
InvalidName(text) == \E c \in Range(text) : c \notin {"x", "e"} \cup Word \cup Digit

(* callExtension reads the call. *)
Dispatch == /\ stage = "called" /\ stage' = "read"
            /\ fields' = ReadFields(Function)
            /\ UNCHANGED <<call, column, class, row, answer, output>>

----------------------------------------------------------------------------
(* The handlers. *)

At(i) == IF i \in DOMAIN fields THEN fields[i] ELSE Str(<<>>)
IsArray(v)  == v.kind = "arr"
IsNumber(v) == v.kind = "str" /\ v.text # <<>> /\ Range(v.text) \subseteq Digit

(* playerUpdate takes [] for an "any" in the array. *)
NoAny(v) == Arr([i \in DOMAIN v.list |-> IF v.list[i] = Value("word", <<"any">>, <<>>)
                                           THEN Arr(<<>>) ELSE v.list[i]])

(* The arrays that are written: of a publish, always; of an update, one    *)
(* that is no array or is empty is passed over.                            *)
Chosen == CASE kind \in {"object", "house"} -> {At(2)}
            [] kind = "details" -> {NoAny(v) : v \in {w \in {At(1)} : IsArray(w) /\ w.list # <<>>}}
            [] kind = "gear"    -> {w \in {At(1)} : IsArray(w) /\ w.list # <<>>}

(* The class that is written: a string with a number.  Another field is    *)
(* passed over, but a string with something else ends the call.            *)
ChosenClass == {Integer(v.text) : v \in {w \in {At(2)} : kind = "details" /\ IsNumber(w)}}
BadClass == kind = "details" /\ At(2).kind = "str" /\ At(2).text # <<>> /\ ~IsNumber(At(2))

Text(vs) == Printed(CHOOSE v \in vs : TRUE)

(* Fault: a field that is passed over ends the call. *)
UnusableAll == IF kind \in {"object", "house"} THEN ~IsArray(At(2)) ELSE BadClass \/ Chosen = {}

(* publish wants an array. *)
Unusable == IF kind \in {"object", "house"} THEN ~IsArray(At(2)) ELSE BadClass

(* External: MySQL reads literals.  A backslash, or a quote that is        *)
(* doubled, escapes; literals side by side are one.  What stands between   *)
(* them makes the statement fail, unless letters make it an expression,    *)
(* which is no array.  Other SQL in a text is left out.                    *)
Failure == <<"failure">>
RECURSIVE InLiteral(_, _, _), Between(_, _)
InLiteral(done, quote, text) ==
  LET escaped == Len(text) > 1 /\ (text[1] = "\\" \/ (text[1] = quote /\ text[2] = quote))
  IN CASE text = <<>> -> {Failure}
       [] escaped -> InLiteral(Append(done, text[2]), quote, From(text, 3))
       [] ~escaped /\ Starts(text, quote) -> Between(done, Tail(text))
       [] OTHER -> InLiteral(Append(done, text[1]), quote, Tail(text))
Between(done, text) ==
  CASE text = <<>> -> {done}
    [] text # <<>> /\ text[1] \in Quote -> InLiteral(done, text[1], Tail(text))
    [] text # <<>> /\ text[1] \in {"x", "e"} -> {Failure, <<"0">>}
    [] OTHER -> {Failure}

(* What a statement makes of the text: a publish binds it, an update puts  *)
(* it between apostrophes as it is.                                        *)
Sent(text) == IF kind \in {"object", "house"} THEN {text}
              ELSE Between(<<>>, <<"'">> \o text \o <<"'">>)
Outcomes == IF Chosen = {} THEN {column} ELSE Sent(Text(Chosen))

(* A column that is too small refuses the text or cuts it, as MySQL's mode *)
(* says.  callExtension catches the failure of a call.                     *)
Refuse == /\ stage = "read"
          /\ Unusable \/ \E text \in Outcomes : text = Failure \/ Len(text) > Width
          /\ stage' = "refused"
          /\ UNCHANGED <<call, fields, column, class, row, answer, output>>

Shorter(n, text) == Upto(text, IF Len(text) < n THEN Len(text) ELSE n)

Store == /\ stage = "read" /\ ~Unusable /\ stage' = "stored"
         /\ \E text \in Outcomes \ {Failure} : column' = Shorter(Width, text)
         /\ class' = IF ChosenClass = {} THEN class ELSE CHOOSE c \in ChosenClass : TRUE
         /\ UNCHANGED <<call, fields, row, answer, output>>

----------------------------------------------------------------------------
(* The selects. *)

Code == Str(<<"x">>)  \* "PASS", "OBJ", a lock: what is the same in each row

(* What becomes of a column that cannot be read: an object, and the        *)
(* details of a character, are given the empty array; a house is given     *)
(* nothing, and the fields behind move up; a login is answered by ERROR.   *)
RowOf(text) ==
  LET v == Cast(text)
      key == Str(GetStringAny(At(1)))
  IN CASE kind = "gear"    -> Arr(<<Code>> \o (IF v.ok THEN <<v.value>> ELSE <<>>))
       [] kind = "details" -> Arr(<<Code, IF v.ok THEN v.value ELSE Arr(<<>>),
                                    Value("int", class, <<>>)>>)
       [] kind = "house" /\ ~v.ok -> Arr(<<key, Code>>)
       [] OTHER -> Arr(<<key, IF v.ok THEN v.value ELSE Arr(<<>>), Code>>)

Select == /\ stage = "stored" /\ stage' = "selected"
          /\ row' = RowOf(column)
          /\ answer' = Printed(row')
          /\ UNCHANGED <<call, fields, column, class, output>>

(* strncpy_s with _TRUNCATE. *)
Output == /\ stage = "selected" /\ stage' = "answered"
          /\ output' = Shorter(OutputSize - 1, answer)
          /\ UNCHANGED <<call, fields, column, class, row, answer>>

Done == stage \in {"refused", "answered"} /\ UNCHANGED vars

Next == Dispatch \/ Refuse \/ Store \/ Select \/ Output \/ Done

Spec == Init /\ [][Next]_vars

----------------------------------------------------------------------------
(* Properties. *)

(* A value to the digits that are kept. *)
RECURSIVE Kept(_)
Kept(v) == CASE v.kind = "arr" -> Arr([i \in DOMAIN v.list |-> Kept(v.list[i])])
             [] v.kind = "dec" -> Value("dec", Decimal(v.text), <<>>)
             [] v.kind = "int" -> Value("int", Integer(v.text), <<>>)
             [] OTHER -> v

(* The characters of the strings in a value. *)
RECURSIVE Strings(_)
Strings(v) == IF v.kind = "str" THEN Range(v.text)
              ELSE UNION {Strings(v.list[i]) : i \in DOMAIN v.list}

(* No string of the array has a character that the call, or the statement  *)
(* of an update, would take for its own.                                   *)
Plain == Strings(value) \cap (IF kind \in {"object", "house"} THEN {"\""}
                              ELSE {"\"", "'", "\\"}) = {}
Kepts == stage \in {"stored", "selected", "answered"}

(* The variables have their types. *)
TypeOK == /\ stage \in {"called", "read", "refused", "stored", "selected", "answered"}
          /\ name \in Names /\ value \in Values
          /\ Len(column) <= Width /\ Range(class) \subseteq Digit
          /\ IsArray(row) /\ Len(output) < OutputSize

(* The fields of a call do not run into each other: with the name of a     *)
(* player who is not kicked, and an array without quotes in its strings,   *)
(* a publish gets that array, and that name unless the whole of it is a    *)
(* number or a word of the grammar, which is then taken for its value.     *)
FieldsKeepApart ==
  (stage = "read" /\ kind \in {"object", "house"} /\ ~InvalidName(name) /\ Plain) =>
    /\ Len(fields) = 2
    /\ LET r == Read(name)
       IN IF r.ok /\ r.more = <<>> THEN fields[1] = r.value
          ELSE GetStringAny(fields[1]) = name
    /\ Kept(fields[2]) = Kept(value)

(* What is read from a column is what was written, to three digits, or     *)
(* cannot be read: a text that a column has cut is never taken for another *)
(* value.  It is read if it was not cut, so a login fails for nothing else. *)
(* And the fields of a row are in their places, with the array in the      *)
(* second, but for a house whose column was cut, and a login.  All this    *)
(* for strings without a quote and, in an update, without an apostrophe or *)
(* a backslash.                                                            *)
StoredIsSent ==
  LET v == Cast(column)
  IN Plain =>
     /\ (Kepts /\ Chosen # {}) =>
          /\ v.ok => v.value = Kept(IF kind = "details" THEN NoAny(value) ELSE value)
          /\ v.ok <=> column = Text(Chosen)
     /\ (stage = "selected" /\ (kind \in {"object", "details"} \/ (kind = "house" /\ v.ok))) =>
          Len(row.list) = 3 /\ IsArray(row.list[2])

(* An answer that the buffer has cut cannot be read as another answer.     *)
CutAnswerUnreadable ==
  stage = "answered" =>
    LET v == Cast(output) IN v.ok => output = answer /\ Printed(v.value) = answer

(* An update writes all it is given that can be written: an empty or       *)
(* missing field does not stop another, and, but for an array with a       *)
(* quote, an apostrophe or a backslash in its strings, only a class that   *)
(* is a word or a column that is too small loses the whole.                *)
UpdatesWriteAll ==
  (kind = "details" /\ Plain) =>
    /\ stage = "refused" => BadClass \/ Len(Printed(NoAny(value))) > Width
    /\ Kepts => /\ column = Shorter(Width, Printed(NoAny(value)))
                /\ IsNumber(At(2)) => class = Integer(At(2).text)
=============================================================================
