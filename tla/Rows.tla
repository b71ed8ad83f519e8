-------------------------------- MODULE Rows --------------------------------
(***************************************************************************)
(* A request's values on their way to a row of cells (src/src/serialize/   *)
(* value_list.rs), and such a row on its way to the object the row factory *)
(* makes of it (src/src/deserialize/rows.rs and row_factory.rs). A column  *)
(* name is a sequence of parts: letters, digits, the underscore and        *)
(* characters that no identifier has.                                      *)
(***************************************************************************)
EXTENDS Values, SequencesExt

CONSTANTS Bound,        \* the pairs of columns and values the client binds
          CacheLimit,   \* NAMEDTUPLE_CACHE_LIMIT
          MaxRows       \* bound: rows read

VARIABLES columns,      \* the columns of the row, as the server names and types them
          source,       \* the object bound
          wire,         \* the row: its cells, or an error; <<>> before
          classes,      \* NAMEDTUPLE_CLASSES
          built,        \* the object made of the row
          rowsRead

rowVars == <<columns, source, wire, classes, built, rowsRead>>

Names(cs) == [i \in DOMAIN cs |-> cs[i].name]

-----------------------------------------------------------------------------
(* Binding *)

\* PyValueList::extract
ValueList(obj) ==
  CASE obj.py = "None" -> [list |-> "empty", val |-> <<>>]
    [] obj.py \in {"list", "tuple", "dict"} /\ obj.val = <<>> -> [list |-> "empty", val |-> <<>>]
    [] obj.py \in {"list", "tuple"} /\ obj.val # <<>> -> [list |-> "sequence", val |-> obj.val]
    [] obj.py = "dict" /\ obj.val # <<>> -> [list |-> "mapping", val |-> obj.val]
    [] OTHER -> [list |-> "invalid", val |-> <<>>]

BindSequence(cs, values) ==
  [i \in DOMAIN cs |-> SerializeValue(cs[i].of, values[i])]

\* Each column takes the value under its name.
BindMapping(cs, pairs) ==
  [i \in DOMAIN cs |->
    LET named == {j \in DOMAIN pairs : pairs[j][1] = Py("str", cs[i].name)}
    IN IF named = {} THEN Error ELSE SerializeValue(cs[i].of, pairs[CHOOSE j \in named : TRUE][2])]

\* SerializeRow for PyValueList: the lengths are compared first.
SerializeRow(cs, list) ==
  IF list.list = "invalid" \/ Len(list.val) # Len(cs) THEN Error
  ELSE AllOrError(IF list.list = "mapping" THEN BindMapping(cs, list.val)
                  ELSE BindSequence(cs, list.val))

Bind ==
  /\ wire = <<>>
  /\ \E b \in Bound : /\ columns' = b.columns
                      /\ source' = <<b.obj>>
                      /\ wire' = <<SerializeRow(b.columns, ValueList(b.obj))>>
  /\ UNCHANGED <<classes, built, rowsRead>>

-----------------------------------------------------------------------------
(* The fields of a named tuple *)

Digits == {"0", "1", "2"}
Letters == {"a", "if", "field_"}
Keywords == {<<"if">>}
Alphanumeric == Digits \cup Letters

\* clean_name: an underscore ends a name and does not begin one.
CleanName(name) ==
  LET kept == {i \in DOMAIN name : name[i] \in Alphanumeric \cup {"_"}}
      first == {i \in DOMAIN name : name[i] \in Alphanumeric}
      body == IF first = {} THEN <<>> ELSE SubSeq(name, Min(first), Max(kept))
  IN [i \in DOMAIN body |-> IF body[i] \in Alphanumeric THEN body[i] ELSE "_"]

\* is_identifier
IsIdentifier(name) == name # <<>> /\ name[1] \notin Digits /\ name \notin Keywords

\* Mutant: one underscore is taken to be enough.
UnseenOnce(name, seen) == IF name \in seen THEN name \o <<"_">> ELSE name

\* Underscores are added until the name is new.
RECURSIVE Unseen(_, _)
Unseen(name, seen) == IF name \in seen THEN Unseen(name \o <<"_">>, seen) ELSE name

\* field_names
FieldNames(names) ==
  FoldLeftDomain(LAMBDA fields, i :
    LET clean == CleanName(names[i])
        name == IF IsIdentifier(clean) THEN clean ELSE <<"field_", ToString(i - 1), "_">>
    IN Append(fields, Unseen(name, ToSet(fields))), <<>>, names)

\* namedtuple_class: the class under the raw names, made when there is none; a full
\* cache is cleared first.
NamedTupleClass(names) == IF names \in DOMAIN classes THEN classes[names] ELSE FieldNames(names)

CacheClass(names) ==
  classes' = IF names \in DOMAIN classes THEN classes
             ELSE LET kept == IF Cardinality(DOMAIN classes) >= CacheLimit THEN <<>> ELSE classes
                  IN (names :> FieldNames(names)) @@ kept

-----------------------------------------------------------------------------
(* Reading *)

BuiltinFactories == {"NamedTupleRowFactory", "DictRowFactory", "TupleRowFactory",
                     "ClassRowFactory"}

\* PyRowFactory::extract: what kind of factory an object is taken for.
RowFactoryOf(obj) ==
  CASE obj \in BuiltinFactories -> obj
    [] obj = "RowFactory subclass" -> "Deferred"
    [] obj = "callable" -> "Builder"
    [] OTHER -> "refused"

Factories == BuiltinFactories \cup {"RowFactory subclass", "callable", "object"}

\* ColumnDeserializer, over the cells of the row.
RowValues ==
  [i \in DOMAIN columns |->
     DeserializeValue(columns[i].of, Stored(columns[i].of, wire[1].val[i]))]

\* named_values: of columns with one name, the last.
NamedValues(names, values) ==
  [name \in ToSet(names) |-> values[Max({i \in DOMAIN names : names[i] = name})]]

\* RowBuilder::resolve against the columns of this page and RowBuilder::build, which
\* makes the values of the row first.
Read(obj) ==
  /\ wire # <<>> /\ wire[1] # Error
  /\ built = <<>>
  /\ LET factory == RowFactoryOf(obj)
         names == Names(columns)
     IN /\ factory # "refused"
        /\ IF factory = "NamedTupleRowFactory" THEN CacheClass(names) ELSE UNCHANGED classes
        /\ built' = <<IF Unreadable \in ToSet(RowValues)
                      THEN [row |-> "unreadable", fields |-> <<>>, val |-> <<>>]
                      ELSE CASE factory = "NamedTupleRowFactory" ->
                                  [row |-> "fields", fields |-> NamedTupleClass(names),
                                   val |-> RowValues]
                             [] factory \in {"DictRowFactory", "ClassRowFactory"} ->
                                  [row |-> "named", fields |-> <<>>,
                                   val |-> NamedValues(names, RowValues)]
                             [] OTHER -> [row |-> "values", fields |-> <<>>, val |-> RowValues]>>
  /\ UNCHANGED <<columns, source, wire, rowsRead>>

\* An object that is no factory is refused, a prepare that returns something that cannot
\* be called too; the client's class or builder may raise. The page can be read again.
ReadFails(obj) ==
  /\ wire # <<>> /\ wire[1] # Error
  /\ built = <<>>
  /\ obj \in {"object", "ClassRowFactory", "RowFactory subclass", "callable"}
  /\ built' = <<[row |-> "error", fields |-> <<>>, val |-> <<>>]>>
  /\ UNCHANGED <<columns, source, wire, classes, rowsRead>>

\* The next row, of this request or of another.
NextResult ==
  /\ wire # <<>> /\ (wire[1] = Error \/ built # <<>>)
  /\ rowsRead < MaxRows
  /\ rowsRead' = rowsRead + 1
  /\ columns' = <<>> /\ source' = <<>> /\ wire' = <<>> /\ built' = <<>>
  /\ UNCHANGED classes

RowInit ==
  /\ columns = <<>> /\ source = <<>> /\ wire = <<>> /\ built = <<>>
  /\ classes = <<>>
  /\ rowsRead = 0

RowNext == Bind \/ NextResult \/ \E obj \in Factories : Read(obj) \/ ReadFails(obj)

-----------------------------------------------------------------------------
(* Properties *)

\* The value the client gave for column i: by position or by name.
GivenFor(i) ==
  LET obj == source[1] IN
  IF obj.py = "dict"
  THEN LET named == {j \in DOMAIN obj.val : obj.val[j][1] = Py("str", columns[i].name)}
       IN {obj.val[j][2] : j \in named}
  ELSE {obj.val[i]}

\* The values have the number of the columns, and each column has a value of its type.
Bindable ==
  LET obj == source[1] IN
  \/ columns = <<>> /\ (obj = PyNone \/ (obj.py \in {"list", "tuple", "dict"} /\ obj.val = <<>>))
  \/ /\ obj.py \in {"list", "tuple", "dict"}
     /\ Len(obj.val) = Len(columns)
     /\ \A i \in DOMAIN columns : \E p \in GivenFor(i) : p = PyNone \/ Fits(columns[i].of, p)

\* A row holds each value read back for its column, and says which column it is of.
HoldsRow(b, values) ==
  CASE b.row = "values" -> b.val = values
    [] b.row = "named" ->
         \A i \in DOMAIN columns :
           LET same == {j \in DOMAIN columns : columns[j].name = columns[i].name}
           IN b.val[columns[i].name] = values[Max(same)]
    [] b.row = "fields" ->
         /\ b.val = values
         /\ Len(b.fields) = Len(columns)
         /\ \A i \in DOMAIN b.fields :
              /\ b.fields[i] # <<>> /\ b.fields[i] \notin Keywords
              /\ b.fields[i][1] \in Letters
              /\ \A j \in 1..(i - 1) : b.fields[j] # b.fields[i]
              /\ (/\ \A k \in DOMAIN columns[i].name :
                        columns[i].name[k] \in Alphanumeric \cup {"_"}
                  /\ columns[i].name \notin Keywords /\ columns[i].name[1] \in Letters
                  /\ \A j \in 1..(i - 1) : b.fields[j] # columns[i].name)
                 => b.fields[i] = columns[i].name
    [] OTHER -> FALSE

\* A None in the place of a field of a UDT or of an element of a tuple.
NullField == \E i \in DOMAIN columns : \E p \in GivenFor(i) : NullPart(columns[i].of, p)

\* Values are bound only when there is one of its type for each column, by position or
\* by name, and always then, but for a None inside a UDT or a tuple (see NullsBound).
\* The row read back holds what was bound under the names of the columns: a named
\* tuple's fields are distinct identifiers, a name that is one already is kept unless an
\* earlier column took it, and a class left in the cache by other columns is never used.
\* What was bound cannot be read back only when a set or the keys of a map would hold a
\* list or a dict (value_list.rs, deserialize/value.rs, row_factory.rs).
RowsFaithful ==
  /\ wire # <<>> => /\ wire[1] # Error => Bindable
                    /\ Bindable /\ ~NullField => wire[1] # Error
  /\ built # <<>> /\ built[1].row # "error" =>
       LET sent == [i \in DOMAIN columns |-> CHOOSE p \in GivenFor(i) : TRUE]
           read == [i \in DOMAIN columns |-> ReadAs(columns[i].of, sent[i])]
       IN IF \A i \in DOMAIN read : Readable(read[i]) THEN HoldsRow(built[1], read)
          ELSE built[1].row = "unreadable"

\* docs/source/topics/data-types.md:39 maps null to None in both directions, and :42
\* says "the accepted input types use the same Python object kinds as the default
\* values returned by the driver": what is read back can be bound, None included.
NullsBound == wire # <<>> /\ Bindable => wire[1] # Error
=============================================================================
