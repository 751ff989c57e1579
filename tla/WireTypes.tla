----------------------------- MODULE WireTypes -----------------------------
(* How rpc/codec.py reads and writes one message. A message type says, for    *)
(* every field, what the wire may leave out and which values are refused when *)
(* the field is read and when it is written; the operators below do what the  *)
(* functions _decode_x and _encode_x do with it.                              *)
(*                                                                            *)
(* A wire message is a function of the fields it carries: a field the sender  *)
(* left out is not in its domain. A value the program holds is a function of  *)
(* all fields, and an optional one is <<>> (None) or <<value>>. Texts,        *)
(* numbers and instants are atoms, of which only what the codec tells apart   *)
(* is kept: "" is the empty text, "NaN" a number that is not finite, "NoDate" *)
(* a timestamp outside the calendar, "Naive" an instant without a time zone,  *)
(* "UNSPECIFIED" every number that names no member of an enumeration, "max"   *)
(* the greatest count of 32 bits and "over" the one after it.                 *)
EXTENDS Integers, Sequences, FiniteSetsExt, TLC

-----------------------------------------------------------------------------
(* The types. A type's depth is how deep its values can be nested.           *)

\* An atom of the class `as`, of which some are refused when read, some when
\* written. A class tells which values are possible; the codec never sees it.
Atom(as, unread, unwritten) ==
  [is |-> "atom", as |-> as, unread |-> unread, unwritten |-> unwritten, depth |-> 0]

\* Texts, whole numbers and truth values, taken as they come.
Text == Atom("text", {}, {})

\* An identifier that both ways refuse when it is empty.
Id(as) == Atom(as, {""}, {""})
Name   == Id("text")

\* An identifier checked when it is written, but not when it is read.
Reference(as) == Atom(as, {}, {""})

\* An identifier checked when it is read, but not when it is written.
Stamp == Atom("text", {""}, {})

\* Seeded fault: numbers are taken without a look at whether they are finite.
NumberUnchecked == Atom("number", {}, {})

Number == Atom("number", {"NaN"}, {"NaN"})

\* A count that can outgrow the 32 bits it has on the wire.
Count == Atom("count", {"over"}, {"over"})

Time == [is |-> "time", depth |-> 0]

Enum(members) == [is |-> "enum", members |-> members, depth |-> 0]

Message(fields) ==
  [is |-> "message", fields |-> fields,
   depth |-> 1 + Max({0} \cup {fields[f].type.depth : f \in DOMAIN fields})]

List(of) == [is |-> "list", of |-> of, depth |-> of.depth + 1]

(* The fields: what is read when the wire leaves them out.                    *)

Must(type)  == [lack |-> "refused", type |-> type]   \* the message is refused
May(type)   == [lack |-> "none", type |-> type]      \* None
Plain(type) == [lack |-> "never", type |-> type]     \* always on the wire
All(of)     == Plain(List(of))
Lax(type)   == [lack |-> "default", type |-> type]   \* the message of defaults

-----------------------------------------------------------------------------
(* The parts of a message. A part is <<view, type, value>>, where a view is   *)
(* "wire" for what arrives or leaves and "held" for what the program has.     *)

Items(list) == {list[i] : i \in DOMAIN list}

\* The message in which every field is left out, as far as a field can be.
NoFields(type) ==
  [f \in {g \in DOMAIN type.fields : type.fields[g].lack = "never"} |-> <<>>]

\* The values in a field f of a message: one, or none.
InField(view, field, f, message) ==
  IF view = "held" THEN IF field.lack = "none" THEN Items(message[f]) ELSE {message[f]}
  ELSE IF f \in DOMAIN message THEN {message[f]}
  ELSE IF field.lack = "default" THEN {NoFields(field.type)} ELSE {}

PartsInField(view, field, f, message) ==
  {<<view, field.type, x>> : x \in InField(view, field, f, message)}

\* The parts directly inside a part.
Inside(part) ==
  LET view  == part[1]
      type  == part[2]
      value == part[3]
  IN  CASE type.is = "list" -> {<<view, type.of, x>> : x \in Items(value)}
        [] type.is = "message" ->
             UNION {PartsInField(view, type.fields[f], f, value) : f \in DOMAIN type.fields}
        [] OTHER -> {}

\* A value with all its parts; those of each depth add what is inside them.
Parts(view, type, value) ==
  LET Down[d \in 0 .. type.depth] ==
        IF d = 0 THEN {<<view, type, value>>}
        ELSE LET above == Down[d - 1]
             IN  above \cup UNION {Inside(p) : p \in {q \in above : q[2].depth = type.depth - d + 1}}
  IN  Down[type.depth]

-----------------------------------------------------------------------------
(* Reading and writing.                                                       *)

\* The clock of the codec: two instants, and one whose nanoseconds do not fit
\* the microseconds of a datetime, which reading cuts off.
Instants     == {"t1", "t2"}
Truncated(t) == IF t = "t1+ns" THEN "t1" ELSE t

\* Nothing is wrong with the value itself, whatever is wrong inside it: when it
\* is read, and when it is written.
ReadableItself(type, w) ==
  CASE type.is = "atom"    -> w \notin type.unread
    [] type.is = "time"    -> Truncated(w) \in Instants
    [] type.is = "enum"    -> w \in type.members
    [] type.is = "list"    -> TRUE
    [] type.is = "message" ->
         \A f \in DOMAIN type.fields : type.fields[f].lack = "refused" => f \in DOMAIN w

WritableItself(type, v) ==
  CASE type.is = "atom" -> v \notin type.unwritten
    [] type.is = "time" -> v # "Naive"
    [] type.is = "enum" -> v \in type.members
    [] type.is \in {"list", "message"} -> TRUE

Readable(type, w) == \A p \in Parts("wire", type, w) : ReadableItself(p[2], p[3])

Writable(type, v) == \A p \in Parts("held", type, v) : WritableItself(p[2], p[3])

\* Seeded fault: an optional field is written when its value is true, so that
\* a zero, an empty text and a False are lost.
WrittenWhenTrue(field, value) ==
  field.lack = "none" =>
    value # <<>> /\ (field.type.is = "atom" => value[1] \notin {"", "0"})

\* Whether a field is written: an optional one that is set, and every other.
IsWritten(field, value) == field.lack = "none" => value # <<>>

\* A part converted to the other view, when made tells what the parts inside it
\* are converted to.
ReadMessage(type, w, made) ==
  [f \in DOMAIN type.fields |->
     LET field == type.fields[f]
         Of(x) == made[<<"wire", field.type, x>>]
     IN  CASE field.lack = "none"    -> IF f \in DOMAIN w THEN <<Of(w[f])>> ELSE <<>>
           [] field.lack = "default" -> Of(IF f \in DOMAIN w THEN w[f] ELSE NoFields(field.type))
           [] OTHER -> Of(w[f])]

WrittenMessage(type, v, made) ==
  [f \in {g \in DOMAIN type.fields : IsWritten(type.fields[g], v[g])} |->
     LET field == type.fields[f]
     IN  made[<<"held", field.type, IF field.lack = "none" THEN v[f][1] ELSE v[f]>>]]

Converted(part, made) ==
  LET view  == part[1]
      type  == part[2]
      value == part[3]
  IN  CASE type.is \in {"atom", "enum"} -> value
        [] type.is = "time" -> IF view = "wire" THEN Truncated(value) ELSE value
        [] type.is = "list" -> [i \in DOMAIN value |-> made[<<view, type.of, value[i]>>]]
        [] type.is = "message" -> IF view = "wire" THEN ReadMessage(type, value, made)
                                  ELSE WrittenMessage(type, value, made)

Conversion(view, type, value) ==
  LET made[p \in Parts(view, type, value)] == Converted(p, made)
  IN  made[<<view, type, value>>]

Read(type, w) == Conversion("wire", type, w)

Written(type, v) == Conversion("held", type, v)

\* Every atom a value holds, whatever its type refuses.
Held(type, v) ==
  {p[3] : p \in {q \in Parts("held", type, v) : q[2].is \in {"atom", "time", "enum"}}}

-----------------------------------------------------------------------------
(* What can be there at all.                                                  *)

\* The atoms that stand for something no text, instant or member can be, and
\* those of them that a class has.
Marks == {"NaN", "UNSPECIFIED", "NoDate", "t1+ns", "unset", "over"}

MarksOf(as) ==
  CASE as = "number" -> {"NaN"}
    [] as = "scalar" -> {"NaN", "unset"}
    [] OTHER         -> {}

IsList(s) == Len(s) \in Nat /\ s = [i \in 1 .. Len(s) |-> s[i]]

\* On the wire: protobuf knows lists, fields that are always there, and texts
\* and numbers.
Possible(type, w) ==
  /\ type.is = "atom" => w \notin Marks \ MarksOf(type.as)
  /\ type.is = "list" => IsList(w)
  /\ type.is = "message" =>
       \A f \in DOMAIN type.fields : type.fields[f].lack = "never" => f \in DOMAIN w

\* In the program: the objects of its classes, with values that reading lets pass.
Proper(type, v) ==
  /\ type.is = "atom" => v \notin type.unread \cup (Marks \ MarksOf(type.as))
  /\ type.is = "time" => v \in Instants
  /\ type.is = "enum" => v \in type.members
  /\ type.is = "list" => IsList(v)
  /\ type.is = "message" =>
       /\ v = [f \in DOMAIN type.fields |-> v[f]]
       /\ \A f \in DOMAIN type.fields :
            type.fields[f].lack = "none" => v[f] = <<>> \/ v[f] = <<v[f][1]>>
=============================================================================
