------------------------------- MODULE Values -------------------------------
(***************************************************************************)
(* The conversion of Python values to CQL and back (src/src/serialize/     *)
(* value.rs, src/src/deserialize/value.rs, src/src/cql_types.rs), for one  *)
(* type of each form. A Python value is a record of its class py and its   *)
(* contents val; a cell of a frame is null, a string of bytes that may be  *)
(* empty, or the cells of a collection. A fixed-width integer has Bits     *)
(* bits, as a tinyint has; the days of a date and the parts of a duration  *)
(* have as many, and the units of time, to the day, are ten to one.        *)
(***************************************************************************)
EXTENDS Integers, Sequences, FiniteSets

Bits == 8
Half == 2 ^ (Bits - 1)
NanosPerMicro == 10
MicrosPerMilli == 10
MicrosPerDay == 10 * MicrosPerMilli

PyNone == [py |-> "None", val |-> <<>>]
CqlEmpty == [py |-> "CqlEmpty", val |-> <<>>]
Unreadable == [py |-> "error", val |-> <<>>]
Py(class, v) == [py |-> class, val |-> v]

Null == [cell |-> "null", val |-> <<>>]
Error == [cell |-> "error", val |-> <<>>]
Unspecified == [cell |-> "unspecified", val |-> <<>>]
Empty == [cell |-> "bytes", val |-> <<>>]
Bytes(v) == [cell |-> "bytes", val |-> v]
Cells(v) == [cell |-> "cells", val |-> v]

InRange(n) == n \in (-Half)..(Half - 1)

-----------------------------------------------------------------------------
(* Native types *)

\* From<PyCqlDate> for CqlDate and back: the epoch is in the middle of the unsigned
\* range, and the sum and the difference wrap.
DateToCql(days) == ((days % (2 * Half)) + Half) % (2 * Half)

DateFromCql(n) ==
  LET m == (n - Half) % (2 * Half) IN IF m >= Half THEN m - 2 * Half ELSE m

\* has_uniform_sign
UniformSign(s) == (\A i \in DOMAIN s : s[i] >= 0) \/ (\A i \in DOMAIN s : s[i] <= 0)

\* PyCqlDuration::try_from a relativedelta: the sums are checked before the signs.
DurationOf(d) ==
  LET parts == <<d.years * 12 + d.months, d.days, d.microseconds * NanosPerMicro>>
  IN IF (\A i \in 1..3 : InRange(parts[i])) /\ UniformSign(parts) THEN Bytes(parts) ELSE Error

\* A datetime is read in UTC, so it needs a time zone, and to the millisecond, downwards.
TimestampOf(d) == IF d.aware THEN Bytes(<<d.microseconds \div MicrosPerMilli>>) ELSE Error

\* serialize_natives. A bool is an int to Python, and so to an integer column; a
\* datetime is a date, the one its own clock shows.
SerializeNative(t, p) ==
  CASE t.kind = "int" /\ p.py = "int" -> IF InRange(p.val) THEN Bytes(<<p.val>>) ELSE Error
    [] t.kind = "int" /\ p.py = "bool" -> Bytes(<<IF p.val THEN 1 ELSE 0>>)
    [] t.kind = "boolean" /\ p.py = "bool" -> Bytes(<<p.val>>)
    [] t.kind = "text" /\ p.py = "str" -> Bytes(p.val)
    [] t.kind = "blob" /\ p.py = "bytes" -> Bytes(p.val)
    [] t.kind = "date" /\ p.py \in {"CqlDate", "date"} -> Bytes(<<DateToCql(p.val)>>)
    [] t.kind = "date" /\ p.py = "datetime" ->
         Bytes(<<DateToCql(p.val.microseconds \div MicrosPerDay)>>)
    [] t.kind = "time" /\ p.py = "CqlTime" -> Bytes(<<p.val>>)
    [] t.kind = "time" /\ p.py = "time" -> Bytes(<<p.val * NanosPerMicro>>)
    [] t.kind = "timestamp" /\ p.py = "CqlTimestamp" -> Bytes(<<p.val>>)
    [] t.kind = "timestamp" /\ p.py = "datetime" -> TimestampOf(p.val)
    [] t.kind = "duration" /\ p.py = "CqlDuration" -> Bytes(p.val)
    [] t.kind = "duration" /\ p.py = "relativedelta" -> DurationOf(p.val)
    [] OTHER -> Error

Natives == {"int", "boolean", "text", "blob", "date", "time", "timestamp", "duration"}

\* The arms of deser_cql_py_value for a native type and a cell that is not null.
DeserializeNative(t, b) ==
  CASE t.kind = "int" -> Py("int", b[1])
    [] t.kind = "boolean" -> Py("bool", b[1])
    [] t.kind = "text" -> Py("str", b)
    [] t.kind = "blob" -> Py("bytes", b)
    [] t.kind = "date" -> Py("CqlDate", DateFromCql(b[1]))
    [] t.kind = "time" -> Py("CqlTime", b[1])
    [] t.kind = "timestamp" -> Py("CqlTimestamp", b[1])
    [] t.kind = "duration" -> Py("CqlDuration", b)

-----------------------------------------------------------------------------
(* Serialization *)

Failed(cells) == \E i \in DOMAIN cells : cells[i].cell = "error"
AllOrError(cells) == IF Failed(cells) THEN Error ELSE Cells(cells)

\* The items of a Python set in an order of its own (PySetWrapper).
ItemsOf(s) == CHOOSE q \in [1..Cardinality(s) -> s] : {q[i] : i \in DOMAIN q} = s

RECURSIVE SerializeArbitrary(_, _)

\* PyAnyWrapper::serialize: None is null, whatever the type.
SerializeValue(t, p) == IF p = PyNone THEN Null ELSE SerializeArbitrary(t, p)

SerializeSequence(t, items) ==
  AllOrError([i \in DOMAIN items |-> SerializeValue(t.of, items[i])])

\* serialize_vector, of the sequences PyVectorWrapper takes. The elements are written
\* without their sizes, so there is no form for null: what becomes of a None among
\* them is up to the Rust driver.
VectorItems == {"list", "tuple"}

SerializeVector(t, items) ==
  IF Len(items) # t.dimensions THEN Error
  ELSE AllOrError([i \in DOMAIN items |->
         IF items[i] = PyNone THEN Unspecified ELSE SerializeArbitrary(t.of, items[i])])

\* The pairs of a dict, as keys and values in turn.
SerializeMap(t, pairs) ==
  AllOrError([i \in 1..(2 * Len(pairs)) |->
    LET pair == pairs[(i + 1) \div 2]
    IN IF i % 2 = 1 THEN SerializeValue(t.key, pair[1]) ELSE SerializeValue(t.of, pair[2])])

\* A cell is made per field of the type, in its order; a field the dict lacks is an
\* error, one it has beside them is not looked at. None is not tested for here.
SerializeUdt(t, pairs) ==
  AllOrError([i \in DOMAIN t.fields |->
    LET named == {j \in DOMAIN pairs : pairs[j][1] = Py("str", t.fields[i].name)}
    IN IF named = {} THEN Error
       ELSE SerializeArbitrary(t.fields[i].of, pairs[CHOOSE j \in named : TRUE][2])])

\* A shorter tuple is written as it is.
SerializeTuple(t, items) ==
  IF Len(items) > Len(t.fields) THEN Error
  ELSE LET cells == [i \in DOMAIN items |-> SerializeArbitrary(t.fields[i].of, items[i])]
       IN IF items = <<>> THEN Empty ELSE AllOrError(cells)

\* serialize_arbitrary_value
SerializeArbitrary(t, p) ==
  CASE t.kind \in Natives -> SerializeNative(t, p)
    [] t.kind = "list" /\ p.py = "list" -> SerializeSequence(t, p.val)
    [] t.kind = "set" /\ p.py = "set" -> SerializeSequence(t, ItemsOf(p.val))
    [] t.kind = "map" /\ p.py = "dict" -> SerializeMap(t, p.val)
    [] t.kind = "vector" /\ p.py \in VectorItems -> SerializeVector(t, p.val)
    [] t.kind = "udt" /\ p.py = "dict" -> SerializeUdt(t, p.val)
    [] t.kind = "tuple" /\ p.py = "tuple" -> SerializeTuple(t, p.val)
    [] OTHER -> Error

\* External: the database reads the elements a shorter tuple lacks as null.
Stored(t, c) ==
  IF t.kind = "tuple" /\ c # Null
  THEN Cells([i \in DOMAIN t.fields |-> IF i \in DOMAIN c.val THEN c.val[i] ELSE Null])
  ELSE c

-----------------------------------------------------------------------------
(* Deserialization *)

\* An empty cell is the empty value, except of a type whose values may be empty.
IsEmptyValue(t, c) == c = Empty /\ t.kind \notin {"text", "blob"}

RECURSIVE DeserializeValue(_, _)

\* deserialize_sequence
DeserializeEach(t, cells) == [i \in DOMAIN cells |-> DeserializeValue(t, cells[i])]

\* A value made of these parts: what could not be read of a part ends it.
MadeOf(parts, p) == IF Unreadable \in parts THEN Unreadable ELSE p

Items(seq) == {seq[i] : i \in DOMAIN seq}

\* Python's hash, which set.add and dict.__setitem__ take.
RECURSIVE Hashable(_)
Hashable(p) == /\ p.py \notin {"list", "set", "dict"}
               /\ p.py = "tuple" => \A i \in DOMAIN p.val : Hashable(p.val[i])

\* A null list, set or map is an empty one; any other null is None.
DeserializeList(t, c) ==
  IF c = Null THEN Py("list", <<>>)
  ELSE LET read == DeserializeEach(t.of, c.val) IN MadeOf(Items(read), Py("list", read))

DeserializeSet(t, c) ==
  IF c = Null THEN Py("set", {})
  ELSE LET read == Items(DeserializeEach(t.of, c.val))
       IN IF \E p \in read : ~Hashable(p) THEN Unreadable ELSE MadeOf(read, Py("set", read))

DeserializeMap(t, c) ==
  IF c = Null THEN Py("dict", <<>>)
  ELSE LET keys == [i \in 1..(Len(c.val) \div 2) |-> DeserializeValue(t.key, c.val[2 * i - 1])]
           values == [i \in DOMAIN keys |-> DeserializeValue(t.of, c.val[2 * i])]
       IN IF \E i \in DOMAIN keys : ~Hashable(keys[i]) THEN Unreadable
          ELSE MadeOf(Items(keys) \cup Items(values),
                      Py("dict", [i \in DOMAIN keys |-> <<keys[i], values[i]>>]))

DeserializeVector(t, c) ==
  IF c = Null THEN PyNone
  ELSE LET read == DeserializeEach(t.of, c.val) IN MadeOf(Items(read), Py("list", read))

\* The fields of a UDT, the elements of a tuple.
DeserializeFields(t, c) ==
  [i \in DOMAIN t.fields |-> DeserializeValue(t.fields[i].of, c.val[i])]

DeserializeUdt(t, c) ==
  IF c = Null THEN PyNone
  ELSE LET read == DeserializeFields(t, c)
       IN MadeOf(Items(read), Py("dict", [i \in DOMAIN read |->
                                           <<Py("str", t.fields[i].name), read[i]>>]))

DeserializeTuple(t, c) ==
  IF c = Null THEN PyNone
  ELSE LET read == DeserializeFields(t, c) IN MadeOf(Items(read), Py("tuple", read))

\* deser_cql_py_value
DeserializeValue(t, c) ==
  IF IsEmptyValue(t, c) THEN CqlEmpty
  ELSE CASE t.kind \in Natives -> IF c = Null THEN PyNone ELSE DeserializeNative(t, c.val)
         [] t.kind = "list" -> DeserializeList(t, c)
         [] t.kind = "set" -> DeserializeSet(t, c)
         [] t.kind = "map" -> DeserializeMap(t, c)
         [] t.kind = "vector" -> DeserializeVector(t, c)
         [] t.kind = "udt" -> DeserializeUdt(t, c)
         [] t.kind = "tuple" -> DeserializeTuple(t, c)

-----------------------------------------------------------------------------
(* What the conversions are for, without the frame in between *)

DeltaParts(d) == {12 * d.years + d.months, d.days, NanosPerMicro * d.microseconds}

RECURSIVE Fits(_, _), NullPart(_, _), ReadAs(_, _), Readable(_)

\* The Python values a column of type t takes besides None, which may stand for any
\* part of them but an element of a vector.
Fits(t, p) ==
  LET nullable(u, q) == q = PyNone \/ Fits(u, q) IN
  CASE t.kind = "int" -> p.py = "bool" \/ (p.py = "int" /\ p.val >= -Half /\ p.val < Half)
    [] t.kind = "boolean" -> p.py = "bool"
    [] t.kind = "text" -> p.py = "str"
    [] t.kind = "blob" -> p.py = "bytes"
    [] t.kind = "date" -> p.py \in {"CqlDate", "date", "datetime"}
    [] t.kind = "time" -> p.py \in {"CqlTime", "time"}
    [] t.kind = "timestamp" -> p.py = "CqlTimestamp" \/ (p.py = "datetime" /\ p.val.aware)
    [] t.kind = "duration" ->
         \/ p.py = "CqlDuration"
         \/ /\ p.py = "relativedelta"
            /\ \A part \in DeltaParts(p.val) : part >= -Half /\ part < Half
            /\ ~\E u, w \in DeltaParts(p.val) : u < 0 /\ w > 0
    [] t.kind = "list" -> p.py = "list" /\ \A i \in DOMAIN p.val : nullable(t.of, p.val[i])
    [] t.kind = "set" -> p.py = "set" /\ \A q \in p.val : nullable(t.of, q)
    [] t.kind = "map" -> p.py = "dict" /\ \A i \in DOMAIN p.val :
                           nullable(t.key, p.val[i][1]) /\ nullable(t.of, p.val[i][2])
    [] t.kind = "vector" -> /\ p.py \in {"list", "tuple"} /\ Len(p.val) = t.dimensions
                            /\ \A i \in DOMAIN p.val : Fits(t.of, p.val[i])
    [] t.kind = "udt" -> p.py = "dict" /\ \A i \in DOMAIN t.fields :
                           \E j \in DOMAIN p.val : /\ p.val[j][1] = Py("str", t.fields[i].name)
                                                 /\ nullable(t.fields[i].of, p.val[j][2])
    [] t.kind = "tuple" -> /\ p.py = "tuple" /\ Len(p.val) <= Len(t.fields)
                           /\ \A i \in DOMAIN p.val : nullable(t.fields[i].of, p.val[i])

\* The values of the parts of p, with their types.
Parts(t, p) ==
  CASE t.kind \in {"list", "vector"} -> {<<t.of, q>> : q \in Items(p.val)}
    [] t.kind = "set" -> {<<t.of, q>> : q \in p.val}
    [] t.kind = "map" -> UNION {{<<t.key, q[1]>>, <<t.of, q[2]>>} : q \in Items(p.val)}
    [] t.kind = "udt" ->
         {<<f.of, q[2]>> : <<f, q>> \in {x \in Items(t.fields) \X Items(p.val) :
                                          x[2][1] = Py("str", x[1].name)}}
    [] t.kind = "tuple" -> {<<t.fields[i].of, p.val[i]>> : i \in DOMAIN p.val}
    [] OTHER -> {}

\* A value that fits has None for a field of a UDT or an element of a tuple in it.
NullPart(t, p) ==
  /\ p # PyNone
  /\ \E x \in Parts(t, p) : \/ x[2] = PyNone /\ t.kind \in {"udt", "tuple"}
                            \/ NullPart(x[1], x[2])

\* The value read back for p: p itself, but for None in place of a collection, a bool in
\* an integer column, a Python date, datetime or time, a vector given as a tuple, the fields a UDT
\* does not have and the elements a tuple lacks.
ReadAs(t, p) ==
  CASE p = PyNone -> IF t.kind = "list" THEN Py("list", <<>>)
                     ELSE IF t.kind = "set" THEN Py("set", {})
                     ELSE IF t.kind = "map" THEN Py("dict", <<>>) ELSE PyNone
    [] p # PyNone /\ t.kind = "int" ->
         IF p.py = "bool" THEN Py("int", IF p.val THEN 1 ELSE 0) ELSE p
    [] p.py = "date" -> Py("CqlDate", p.val)
    [] p.py = "time" -> Py("CqlTime", NanosPerMicro * p.val)
    [] p.py = "datetime" /\ t.kind = "date" ->
         Py("CqlDate", CHOOSE day \in -100..100 :
              /\ day * MicrosPerDay <= p.val.microseconds
              /\ p.val.microseconds < (day + 1) * MicrosPerDay)
    [] p.py = "datetime" /\ t.kind # "date" ->
         Py("CqlTimestamp", CHOOSE ms \in -100..100 :
              /\ ms * MicrosPerMilli <= p.val.microseconds
              /\ p.val.microseconds < (ms + 1) * MicrosPerMilli)
    [] p.py = "relativedelta" ->
         Py("CqlDuration", <<12 * p.val.years + p.val.months, p.val.days,
                             NanosPerMicro * p.val.microseconds>>)
    [] t.kind \in {"list", "vector"} /\ p # PyNone ->
         Py("list", [i \in DOMAIN p.val |-> ReadAs(t.of, p.val[i])])
    [] t.kind = "set" /\ p # PyNone -> Py("set", {ReadAs(t.of, q) : q \in p.val})
    [] t.kind = "map" /\ p # PyNone ->
         Py("dict", [i \in DOMAIN p.val |->
                       <<ReadAs(t.key, p.val[i][1]), ReadAs(t.of, p.val[i][2])>>])
    [] t.kind = "udt" /\ p # PyNone ->
         Py("dict", [i \in DOMAIN t.fields |->
              LET name == Py("str", t.fields[i].name)
              IN <<name, ReadAs(t.fields[i].of,
                                p.val[CHOOSE j \in DOMAIN p.val : p.val[j][1] = name][2])>>])
    [] t.kind = "tuple" /\ p # PyNone ->
         Py("tuple", [i \in DOMAIN t.fields |->
              ReadAs(t.fields[i].of, IF i \in DOMAIN p.val THEN p.val[i] ELSE PyNone)])
    [] OTHER -> p

\* A value that can be made on reading: the members of its sets and the keys of its
\* dicts are no lists, sets or dicts, nor tuples with one.
Readable(p) ==
  CASE p.py = "set" -> \A q \in p.val : Hashable(q)
    [] p.py = "dict" -> \A i \in DOMAIN p.val : Hashable(p.val[i][1]) /\ Readable(p.val[i][2])
    [] p.py \in {"list", "tuple"} -> \A i \in DOMAIN p.val : Readable(p.val[i])
    [] OTHER -> TRUE
=============================================================================
