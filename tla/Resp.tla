-------------------------------- MODULE Resp --------------------------------
(***************************************************************************)
(* The format of a reply: class Serializer (serializer.cpp) writes it on   *)
(* the server, class Deserializer (deserializer.cpp) reads it on the       *)
(* client.                                                                 *)
(*                                                                         *)
(* Data is a sequence of units: a type character, a number in decimal, a   *)
(* line break (CRLF) or a piece of text; every length counts units, and    *)
(* data is cut between units only.  The elements of an array are no        *)
(* arrays, since the dispatcher builds none that are.                      *)
(***************************************************************************)
EXTENDS Cuts, SequencesExt

Type(char)  == <<"type", char>>
Number(n)   == <<"number", n>>
CRLF        == <<"crlf">>
Text(t)     == <<"text", t>>

-----------------------------------------------------------------------------
(* struct Response *)

SimpleString(line) == [type |-> "+", value |-> line]
Error(line)        == [type |-> "-", value |-> line]
Integer(n)         == [type |-> ":", value |-> n]
BulkString(text)   == [type |-> "$", value |-> text]
Array(elements)    == [type |-> "*", value |-> elements]
NullBulkString     == [type |-> "null", value |-> << >>]
NullArray          == [type |-> "null array", value |-> << >>]

-----------------------------------------------------------------------------
(* The serializer *)

\* Mutant: a bulk string without the line break behind it.
SerializeScalar_NoCRLF(r) ==
  CASE r.type = ":" -> <<Type(":"), Number(r.value), CRLF>>
    [] r.type = "$" -> <<Type("$"), Number(Len(r.value)), CRLF>> \o r.value
    [] r.type = "null" -> <<Type("$"), Number(-1), CRLF>>
    [] OTHER        -> <<Type(r.type)>> \o r.value \o <<CRLF>>

\* A response that is no array.
SerializeScalar(r) ==
  CASE r.type = ":" -> <<Type(":"), Number(r.value), CRLF>>
    [] r.type = "$" -> <<Type("$"), Number(Len(r.value)), CRLF>> \o r.value \o <<CRLF>>
    [] r.type = "null" -> <<Type("$"), Number(-1), CRLF>>
    [] OTHER        -> <<Type(r.type)>> \o r.value \o <<CRLF>>

serialize(r) ==
  IF r.type = "*"
  THEN <<Type("*"), Number(Len(r.value)), CRLF>>
       \o FlattenSeq([i \in DOMAIN r.value |-> SerializeScalar(r.value[i])])
  ELSE SerializeScalar(r)

-----------------------------------------------------------------------------
(* The deserializer: what it makes of data is a response and what it leaves *)
(* unread, or Incomplete (parse returns false), or Invalid (parse throws).  *)

Incomplete == [outcome |-> "incomplete"]
Invalid    == [outcome |-> "invalid"]

Parsed(r, rest) == [outcome |-> "parsed", response |-> r, rest |-> rest]

\* read_line: what is in front of the first line break and what is behind it;
\* without a line break it throws.
HasLine(data)   == \E i \in DOMAIN data : data[i] = CRLF
LineEnd(data)   == CHOOSE i \in DOMAIN data : data[i] = CRLF /\ \A j \in 1 .. i - 1 : data[j] # CRLF
Line(data)      == Take(data, LineEnd(data) - 1)
AfterLine(data) == Drop(data, LineEnd(data))

\* std::stoll of a line.
IsNumber(line) == Len(line) = 1 /\ line[1][1] = "number"
NumberOf(line) == line[1][2]

\* The text of a bulk string, of which n units are announced.
ParseBulk(n, rest) ==
  CASE n = -1            -> Parsed(NullBulkString, rest)
    [] n < -1            -> Invalid
    [] n + 1 > Len(rest) -> Incomplete
    [] OTHER -> IF rest[n + 1] = CRLF
                THEN Parsed(BulkString(Take(rest, n)), Drop(rest, n + 1))
                ELSE Invalid

\* A response of this type whose first line and whose rest are known.
ParseLine(type, line, rest) ==
  CASE type = "+" -> Parsed(SimpleString(line), rest)
    [] type = "-" -> Parsed(Error(line), rest)
    [] type = ":" -> IF IsNumber(line) THEN Parsed(Integer(NumberOf(line)), rest) ELSE Invalid
    [] type = "$" -> IF IsNumber(line) THEN ParseBulk(NumberOf(line), rest) ELSE Invalid
    [] OTHER -> Invalid

\* A response that is no array, from its type character on.
ParseScalar(data) ==
  IF data = << >> THEN Incomplete
  ELSE IF ~HasLine(Tail(data)) \/ data[1][1] # "type" THEN Invalid
  ELSE ParseLine(data[1][2], Line(Tail(data)), AfterLine(Tail(data)))

\* One more element of an array: an element that is incomplete or invalid makes
\* the array so.
ParseElement(array) ==
  IF array.outcome # "parsed" THEN array
  ELSE LET element == ParseScalar(array.rest)
       IN  IF element.outcome # "parsed" THEN element
           ELSE Parsed(Array(Append(array.response.value, element.response)), element.rest)

ParseArray(n, rest) ==
  CASE n = -1 -> Parsed(NullArray, rest)
    [] n < -1 -> Invalid
    [] OTHER -> LET read[i \in 0 .. n] ==      \* behind the first i elements
                      IF i = 0 THEN Parsed(Array(<< >>), rest) ELSE ParseElement(read[i - 1])
                IN  read[n]

\* The first response of the data.
parse(data) ==
  IF data # << >> /\ data[1] = Type("*")
  THEN IF HasLine(Tail(data)) /\ IsNumber(Line(Tail(data)))
       THEN ParseArray(NumberOf(Line(Tail(data))), AfterLine(Tail(data)))
       ELSE Invalid
  ELSE ParseScalar(data)
=============================================================================
