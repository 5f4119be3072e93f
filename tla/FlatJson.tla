------------------------------ MODULE FlatJson ------------------------------
(***************************************************************************)
(* JsonFlat: the reader of configuration files, one JSON object without    *)
(* nesting, as a scanner that takes one token at a time.  A token is a     *)
(* character or one of the words true and false.                           *)
(***************************************************************************)
EXTENDS Naturals, Sequences, SequencesExt

Quote == "'"     \* stands for the double quote
Space == " "
LeftBrace == "{"
RightBrace == "}"
Colon == ":"
MemberComma == ","
Words == {"true", "false"}
Signs == {"-", "+"}
JsonDigits == {"1", "2"}
NumberStarts == JsonDigits \cup Signs
NumberChars == NumberStarts \cup {"."}

\* kv_ as a set of key and value pairs; the types of the variant do not mix.
Value(type, text) == [type |-> type, text |-> text]

Assign(kv, key, value) == {p \in kv : p.key # key} \cup {[key |-> key, value |-> value]}

\* The scanner: where it is, the token it builds, the key read, kv_.
Begin == [at |-> "begin", text |-> <<>>, key |-> <<>>, kv |-> {}]

Goto(s, at) == [s EXCEPT !.at = at]
Collect(s, at) == [s EXCEPT !.at = at, !.text = <<>>]
Extend(s, c) == [s EXCEPT !.text = Append(@, c)]

\* kv_[key] = the value that ends here.
Store(s, type) ==
  [s EXCEPT !.at = "sep", !.kv = Assign(@, s.key, Value(type, s.text))]

\* The head of the loop: a member or the end of the object.
Member(s, c) ==
  CASE c = Space      -> Goto(s, "spaces")
    [] c = RightBrace -> Goto(s, "end")
    [] c = Quote      -> Collect(s, "key")
    [] OTHER          -> Goto(s, "fail")

\* Behind a value: a missing comma is not noticed.
Separator(s, c) ==
  CASE c = Space       -> s
    [] c = MemberComma -> Goto(s, "member")
    [] OTHER           -> Member(s, c)

\* std::stod reads up to a second point or an inner sign (exponents are left
\* out), and throws when that has no digit.
Numeral(text) ==
  LET stops == {i \in 2..Len(text) : \/ text[i] \in Signs
                                     \/ text[i] = "." /\ Contains(SubSeq(text, 1, i - 1), ".")}
  IN  IF stops = {} THEN text ELSE SubSeq(text, 1, Min(stops) - 1)

NumberEnd(s) ==
  LET n == Numeral(s.text)
  IN  IF ToSet(n) \cap JsonDigits = {} THEN Goto(s, "throw")
      ELSE Store([s EXCEPT !.text = n], "number")

\* The text of a key or string ends at the next quote, whatever is in it.
Quoted(s, c, End(_)) == IF c = Quote THEN End(s) ELSE Extend(s, c)

ValueStart(s, c) ==
  CASE c = Space           -> s
    [] c = Quote           -> Collect(s, "string")
    [] c \in NumberStarts  -> Extend(Collect(s, "number"), c)
    [] c \in Words         -> Store([s EXCEPT !.text = <<c>>], "bool")
    [] OTHER               -> Goto(s, "fail")

Scanned(s, c) ==
  CASE s.at = "begin"  -> (CASE c = Space -> s [] c = LeftBrace -> Goto(s, "member")
                             [] OTHER -> Goto(s, "fail"))
    [] s.at \in {"member", "spaces"} -> Member(s, c)
    [] s.at = "key"    -> Quoted(s, c, LAMBDA t : [t EXCEPT !.at = "colon", !.key = t.text])
    [] s.at = "colon"  -> (CASE c = Space -> s [] c = Colon -> Goto(s, "value")
                             [] OTHER -> Goto(s, "fail"))
    [] s.at = "value"  -> ValueStart(s, c)
    [] s.at = "string" -> Quoted(s, c, LAMBDA t : Store(t, "string"))
    [] s.at = "number" -> IF c \in NumberChars THEN Extend(s, c)
                          ELSE LET t == NumberEnd(s)
                               IN  IF t.at = "sep" THEN Separator(t, c) ELSE t
    [] s.at = "sep"    -> Separator(s, c)
    [] OTHER           -> s

\* Slip for parse: a string may be left open at the end of the text.
parse_open_string(text) ==
  LET end == FoldLeft(Scanned, Begin, text)
      s == CASE end.at = "number" -> NumberEnd(end)
             [] end.at = "string" -> Store(end, "string")
             [] OTHER             -> end
  IN  [result |-> CASE s.at \in {"member", "sep", "end"} -> "true"
                    [] s.at = "throw" -> "throw"
                    [] OTHER          -> "false",
       kv |-> s.kv]

\* parse: the text may end behind a value or a comma, without the brace, but not
\* behind spaces that follow a comma.
parse(text) ==
  LET end == FoldLeft(Scanned, Begin, text)
      s == IF end.at = "number" THEN NumberEnd(end) ELSE end
  IN  [result |-> CASE s.at \in {"member", "sep", "end"} -> "true"
                    [] s.at = "throw" -> "throw"
                    [] OTHER          -> "false",
       kv |-> s.kv]

\* get_string, get_number, get_bool: the value, if the key has one of that type.
get(kv, key, type) ==
  {p.value.text : p \in {q \in kv : q.key = key /\ q.value.type = type}}

-----------------------------------------------------------------------------
(* What the reader promises of a configuration, a sequence of members.     *)

\* What can be in quotes, the numbers that std::stod reads to their end, and the
\* members made of them.
QuotedTexts == Seq(STRING \ {Quote})
NumberTexts ==
  {t \in Seq(NumberChars) : /\ t # <<>> /\ t[1] \in NumberStarts /\ Numeral(t) = t
                           /\ ToSet(t) \cap JsonDigits # {}}
Values == [type : {"string"}, text : QuotedTexts] \cup
          [type : {"number"}, text : NumberTexts] \cup
          [type : {"bool"}, text : {<<w>> : w \in Words}]
ConfigMembers == [key : QuotedTexts, value : Values]

Tokens(v) == IF v.type = "string" THEN <<Quote>> \o v.text \o <<Quote>> ELSE v.text

\* A member with the spacing gap behind any token.
MemberText(m, gap) ==
  <<Quote>> \o m.key \o <<Quote>> \o gap \o <<Colon>> \o gap \o Tokens(m.value) \o gap

\* The text of a configuration.
Printed(members, gap) ==
  LET upto[i \in 0..Len(members)] ==
        IF i = 0 THEN gap \o <<LeftBrace>> \o gap
        ELSE upto[i - 1] \o (IF i = 1 THEN <<>> ELSE <<MemberComma>> \o gap)
                         \o MemberText(members[i], gap)
  IN  upto[Len(members)] \o <<RightBrace>>

\* Every option reads what the last member of its name says, if that is of the
\* option's type, and keeps its default otherwise.
ReadsBack(members, gap) ==
  LET parsed == parse(Printed(members, gap))
      final(key) == SelectLastInSeq(members, LAMBDA m : m.key = key)
  IN  /\ parsed.result = "true"
      /\ \A m \in ToSet(members), type \in {"string", "number", "bool"} :
           LET v == members[final(m.key)].value
           IN  get(parsed.kv, m.key, type) = IF v.type = type THEN {v.text} ELSE {}

\* What is left of a text that is cut, within a word too.
Cuts(text) ==
  {SubSeq(text, 1, k) : k \in 0..Len(text)} \cup
  {SubSeq(text, 1, k - 1) \o <<"t">> : k \in {i \in DOMAIN text : text[i] \in Words}}

\* A configuration that is cut is refused, or every value it sets is one the whole
\* text has for that key, or a number that lacks its last digits.
CutParse(members, gap) ==
  \A text \in Cuts(Printed(members, gap)) :
    LET parsed == parse(text)
    IN  parsed.result = "true" =>
          \A p \in parsed.kv : \E m \in ToSet(members) :
            /\ m.key = p.key /\ m.value.type = p.value.type
            /\ \/ m.value.text = p.value.text
               \/ p.value.type = "number" /\ IsPrefix(p.value.text, m.value.text)
=============================================================================
