------------------------------- MODULE SqfValue -------------------------------
(***************************************************************************)
(* Sqf.cpp: how values are read from text and printed.  A text is a        *)
(* sequence of the characters that the grammars tell apart: the brackets,  *)
(* the comma, the colon, the two quotes, the backslash, the point, digits, *)
(* "e", "x" for any other letter, and as one each the words "any", "true", *)
(* "inf", and "Inf" for another spelling of it.  Left out are signs,       *)
(* blanks, the width of integers, and numbers that are not printed in      *)
(* digits alone, from 100000 on and under a thousandth.                    *)
(***************************************************************************)
EXTENDS Naturals, Sequences, SequencesExt

Digit == {"0", "1"}
Quote == {"\"", "'"}

(* A value: text is what a leaf holds, list the elements of an array.  The *)
(* text of a decimal has its point.                                        *)
Value(kind, text, list) == [kind |-> kind, text |-> text, list |-> list]
Arr(list) == Value("arr", <<>>, list)
Str(text) == Value("str", text, <<>>)

(* How many characters at the start of text are in the set. *)
Span(text, set) ==
  CHOOSE n \in 0..Len(text) : /\ \A i \in 1..n : text[i] \in set
                              /\ n < Len(text) => text[n + 1] \notin set
From(text, n)  == SubSeq(text, n, Len(text))
Upto(text, n)  == SubSeq(text, 1, n)
Starts(text, c) == text # <<>> /\ text[1] = c

(* An integer is a number: it has no zeros in front. *)
Integer(digits) == LET n == Span(digits, {"0"})
                   IN IF n = Len(digits) THEN <<"0">> ELSE From(digits, n + 1)

(* A decimal is printed with up to three digits, and one at least.         *)
Fraction(digits) ==
  LET three == Upto(digits, IF Len(digits) < 3 THEN Len(digits) ELSE 3)
      ones  == {i \in DOMAIN three : three[i] # "0"}
  IN IF ones = {} THEN <<"0">>
     ELSE Upto(three, CHOOSE i \in ones : \A j \in ones : j <= i)

(* Fault: a whole number is printed without its fraction. *)
DecimalShort(text) == LET n == Span(text, Digit)
                          f == Fraction(From(text, n + 2))
                      IN Integer(Upto(text, n)) \o (IF f = <<"0">> THEN <<>> ELSE <<".">> \o f)

Decimal(text) == LET n == Span(text, Digit)
                 IN Integer(Upto(text, n)) \o <<".">> \o Fraction(From(text, n + 2))

----------------------------------------------------------------------------
(* Reading.  A grammar takes what it can from the start of a text; "more"  *)
(* is what it leaves.                                                      *)

NoMatch == [ok |-> FALSE, value |-> Str(<<>>), more |-> <<>>]
Match(value, more) == [ok |-> TRUE, value |-> value, more |-> more]

(* A decimal, without its exponent. *)
Shifted(whole, fraction, exponent) ==
  LET places == FoldLeft(LAMBDA n, d : 10 * n + (IF d = "1" THEN 1 ELSE 0), 0, exponent)
      digits == whole \o fraction \o [i \in 1..places |-> "0"]
      point  == Len(whole) + places
  IN Value("dec", Upto(digits, point) \o <<".">> \o From(digits, point + 1), <<>>)

(* A number with a point or an exponent is a decimal. *)
ReadNumber(text) ==
  LET n == Span(text, Digit)
      m == IF n < Len(text) /\ text[n + 1] = "."
             THEN n + 1 + Span(From(text, n + 2), Digit) ELSE n
      e == IF m < Len(text) /\ text[m + 1] = "e" THEN Span(From(text, m + 2), Digit) ELSE 0
      end == IF e > 0 THEN m + 1 + e ELSE m
  IN CASE n = 0 -> NoMatch
       [] n > 0 /\ end > n -> Match(Shifted(Upto(text, n), SubSeq(text, n + 2, m),
                                            SubSeq(text, m + 2, end)), From(text, end + 1))
       [] OTHER -> Match(Value("int", Integer(Upto(text, n)), <<>>), From(text, n + 1))

ReadString(text) ==
  LET ends == {i \in 2..Len(text) : text[i] = text[1]}
      end  == CHOOSE i \in ends : \A j \in ends : i <= j
  IN IF ends = {} THEN NoMatch ELSE Match(Str(SubSeq(text, 2, end - 1)), From(text, end + 1))

Word == {"any", "true", "inf", "Inf"}
ReadWord(text) ==
  Match(Value("word", <<IF text[1] = "Inf" THEN "inf" ELSE text[1]>>, <<>>), Tail(text))

(* Fault: the end of the text closes an array. *)
ClosesAtEnd(text) == text = <<>> \/ text[1] = "]"

Closes(text) == Starts(text, "]")

RECURSIVE Read(_), ReadItems(_)
Read(text) ==
  CASE text = <<>> -> NoMatch
    [] text # <<>> /\ text[1] \in Digit -> ReadNumber(text)
    [] text # <<>> /\ text[1] \in Quote -> ReadString(text)
    [] text # <<>> /\ text[1] \in Word -> ReadWord(text)
    [] Starts(text, "[") ->
         LET items == ReadItems(Tail(text))
         IN IF Closes(items.more)
              THEN Match(Arr(items.list), IF items.more = <<>> THEN <<>> ELSE Tail(items.more))
              ELSE NoMatch
    [] OTHER -> NoMatch

(* Values separated by commas, as many as there are. *)
ReadItems(text) ==
  LET first == Read(text)
      others == ReadItems(Tail(first.more))
  IN CASE ~first.ok -> [list |-> <<>>, more |-> text]
       [] first.ok /\ Starts(first.more, ",") /\ others.list # <<>> ->
            [list |-> <<first.value>> \o others.list, more |-> others.more]
       [] OTHER -> [list |-> <<first.value>>, more |-> first.more]

(* lexical_cast<Value>.  The parser leaves what follows the value, but has *)
(* looked at one character to skip blanks: the cast fails on the second.   *)
Cast(text) == LET r == Read(text)
              IN IF r.ok /\ Len(r.more) <= 1 THEN r ELSE NoMatch

(* A field of a call is a value that ends at a colon. *)
ValueField(text) == LET r == Read(text) IN IF Starts(r.more, ":") THEN r ELSE NoMatch

(* lexical_cast<Parameters>: fields, each a value or else raw text up to   *)
(* its colon.  What follows the last colon is dropped.                     *)
RECURSIVE ReadFields(_)
ReadFields(text) ==
  LET r   == ValueField(text)
      raw == Span(text, Range(text) \ {":"})
  IN CASE r.ok -> <<r.value>> \o ReadFields(Tail(r.more))
       [] ~r.ok /\ raw < Len(text) -> <<Str(Upto(text, raw))>> \o ReadFields(From(text, raw + 2))
       [] OTHER -> <<>>

----------------------------------------------------------------------------
(* Printing. *)

Commas(texts) == FlattenSeq([i \in DOMAIN texts |-> IF i = 1 THEN texts[i]
                                                    ELSE <<",">> \o texts[i]])
RECURSIVE PrintedWith(_, _)
PrintedWith(quote, v) ==
  CASE v.kind = "dec" -> Decimal(v.text)
    [] v.kind = "str" -> quote \o v.text \o quote
    [] v.kind = "arr" -> <<"[">> \o Commas([i \in DOMAIN v.list |-> PrintedWith(quote, v.list[i])])
                               \o <<"]">>
    [] OTHER -> v.text

Printed(v) == PrintedWith(<<"\"">>, v)

(* lexical_cast<string> of what a variant holds.  A double is printed with *)
(* seventeen digits, the last of which (here 01) is the rounding of a      *)
(* fraction to base two; a bool as a number; "any" as the pointer it is;   *)
(* and an array by the printer of Parameters, which puts no quotes.        *)
Seventeen(text) ==
  LET n == Span(text, Digit)
      fraction == From(text, n + 2)
  IN Integer(Upto(text, n)) \o (IF Range(fraction) \subseteq {"0"} THEN <<>>
                                ELSE <<".">> \o fraction \o <<"0", "1">>)

AsText(word) == CASE word = "any"  -> [i \in 1..8 |-> "0"]
                  [] word = "true" -> <<"1">>
                  [] OTHER         -> <<word>>

GetStringAny(v) ==
  CASE v.kind = "dec"  -> Seventeen(v.text)
    [] v.kind = "word" -> AsText(v.text[1])
    [] v.kind = "arr"  -> FlattenSeq([i \in DOMAIN v.list |-> PrintedWith(<<>>, v.list[i]) \o <<":">>])
    [] OTHER -> v.text
=============================================================================
