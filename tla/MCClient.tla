------------------------------ MODULE MCClient ------------------------------
(***************************************************************************)
(* Client for TLC: three pages of which one is empty, two tasks, a profile *)
(* that sets everything but the serial consistency, and rows of every type *)
(* and of names that collide when they are cleaned.                        *)
(***************************************************************************)
EXTENDS Client

MCPageRows == <<<<1>>, <<>>, <<2, 3>>>>
MCSetPages == <<<<1>>, <<2, 3>>, <<>>, <<4, 5>>>>
MCProfileArgs ==
  [p1 |-> [timeout |-> "none", consistency |-> "p1", serial |-> "none", factory |-> "p1"]]

(* Types, and for each some values that fit and some that do not *)

TinyInt == [kind |-> "int"]
Text == [kind |-> "text"]
T(k) == [kind |-> k]
Of(k, u) == [kind |-> k, of |-> u]
MapOf(u) == [kind |-> "map", key |-> u, of |-> TinyInt]
MapT == MapOf(Text)
Vec == [kind |-> "vector", of |-> TinyInt, dimensions |-> 2]
Fld(n, u) == [name |-> n, of |-> u]
Udt == [kind |-> "udt", fields |-> <<Fld(<<"x">>, TinyInt), Fld(<<"y">>, Text)>>]
Tup == [kind |-> "tuple", fields |-> <<Fld(<<"">>, TinyInt), Fld(<<"">>, Of("list", TinyInt))>>]
VecTup == [kind |-> "tuple", fields |-> <<Fld(<<"">>, Vec)>>]
I(n) == Py("int", n)
S(s) == Py("str", s)
D(y, m, d, u) == Py("relativedelta", [years |-> y, months |-> m, days |-> d, microseconds |-> u])
L(v) == Py("list", v)
Tu(v) == Py("tuple", v)
Di(pairs) == Py("dict", pairs)
X1 == <<S(<<"x">>), I(1)>>
Y0 == <<S(<<"y">>), S(<<>>)>>
A1 == <<S(<<"a">>), I(1)>>
Z2 == <<S(<<"0">>), I(2)>>
Samples ==
  {TinyInt} \X {PyNone, I(-129), I(-128), I(127), I(128), Py("bool", TRUE), S(<<>>)}
  \cup {T("boolean")} \X {Py("bool", FALSE), I(1), PyNone}
  \cup {Text} \X {S(<<>>), S(<<"a">>), Py("bytes", <<>>), I(0), PyNone}
  \cup {T("blob")} \X {Py("bytes", <<>>), S(<<>>), PyNone}
  \cup {T("date")} \X ({Py(c, d) : c \in {"CqlDate", "date"}, d \in {-128, -1, 0, 127}} \cup
        {Py("datetime", [aware |-> a, microseconds |-> u]) : a \in BOOLEAN, u \in {-100, -1, 0, 199}})
  \cup {T("time")} \X {Py("CqlTime", 0), Py("CqlTime", 7), Py("time", 3), I(3)}
  \cup {T("timestamp")} \X ({Py("CqlTimestamp", -3)} \cup
        {Py("datetime", [aware |-> a, microseconds |-> u]) : a \in BOOLEAN, u \in {-21, -20, 0, 19}})
  \cup {T("duration")} \X ({Py("CqlDuration", <<1, 0, 3>>), I(1)} \cup
        {D(y, m, d, u) : y \in {-10, 0, 10}, m \in {-9, -8, 7, 8},
                         d \in {-1, 0, 128}, u \in {-12, 0, 13}})
  \cup {Of("list", TinyInt)} \X {L(<<>>), L(<<I(1), PyNone>>), L(<<I(128)>>), Tu(<<I(1)>>), PyNone}
  \cup {Of("list", Of("list", Text))} \X {L(<<PyNone, L(<<S(<<>>)>>)>>)}
  \cup {Of("set", TinyInt)} \X {Py("set", {}), Py("set", {I(1), I(2)}), L(<<>>), PyNone}
  \cup {MapT} \X {Di(<<>>), Di(<<A1, <<S(<<>>), PyNone>>>>),
                  Di(<<<<I(1), I(1)>>>>), PyNone}
  \cup {Vec} \X {L(<<I(1), I(2)>>), Tu(<<I(1), I(2)>>), L(<<I(1)>>), Py("set", {I(1)}), PyNone}
  \cup {Of("set", Vec)} \X {Py("set", {}), Py("set", {Tu(<<I(1), I(2)>>)})}
  \cup {MapOf(VecTup)} \X {Di(<<>>), Di(<<<<Tu(<<Tu(<<I(1), I(2)>>)>>), I(2)>>>>)}
  \cup {Of("list", MapOf(Vec))} \X {L(<<PyNone, Di(<<<<Tu(<<I(1), I(2)>>), I(2)>>>>)>>)}
  \cup {Of("list", Udt)} \X {L(<<PyNone, Di(<<X1, <<S(<<"y">>), PyNone>>>>)>>)}
  \cup {Udt} \X {Di(<<X1, <<S(<<"y">>), S(<<"a">>)>>>>), Di(<<Y0, X1>>), Di(<<X1>>), PyNone,
                 Di(<<<<S(<<"z">>), I(3)>>, Y0, X1>>), Di(<<<<S(<<"x">>), PyNone>>, Y0>>)}
  \cup {Tup} \X {Tu(<<I(1), L(<<PyNone>>)>>), Tu(<<I(1)>>), Tu(<<>>),
                 Tu(<<I(1), PyNone>>), Tu(<<I(1), L(<<>>), I(2)>>), L(<<I(1)>>), PyNone}

(* Columns *)

NameSet == {<<"a">>, <<"a", "_">>, <<"(", "a", ")">>, <<"0">>, <<"field_", "0", "_">>}
Odd == {<<"if">>, <<"(", ")">>, <<"_", "a">>}
Col(n, u) == [name |-> n, of |-> u]
IntCols(ns) == [i \in DOMAIN ns |-> Col(ns[i], TinyInt)]
Count(n) == [i \in 1..n |-> I(i)]
Row(cs, obj) == [columns |-> cs, obj |-> obj]
MCBound ==
  {Row(<<Col(<<"a">>, s[1])>>, L(<<s[2]>>)) : s \in Samples}
  \cup {Row(IntCols(<<n>>), Tu(Count(1))) : n \in Odd}
  \cup UNION {{Row(IntCols(ns), Tu(Count(k))) : ns \in [1..k -> NameSet]} : k \in {2, 3}}
  \cup {Row(IntCols(<<<<"a">>, <<"0">>>>), obj) : obj \in
         {Di(<<A1, Z2>>), Di(<<Z2, A1>>),
          Di(<<A1>>), Di(<<A1, <<S(<<"if">>), I(2)>>>>),
          L(Count(3)), L(<<>>), PyNone, I(1), Di(<<>>)}}
  \cup {Row(IntCols(<<<<"a">>, <<"a">>>>), Di(<<A1>>))}
  \cup {Row(<<>>, obj) : obj \in {PyNone, L(<<>>), Di(<<>>), L(Count(1))}}

(* Only the part in use is told apart. A request in flight holds what it was sent with,   *)
(* so the statement it came from no longer matters.                                       *)

SettingsView ==
  IF call.stage = "none" THEN settingsVars ELSE <<call, settings, explicit, sets>>

View ==
  <<part, CASE part = "builder" -> builderVars
            [] part = "requests" -> SettingsView
            [] part = "policies" -> policyVars
            [] part = "rows" -> rowVars
            [] part = "paging" -> pagingVars
            [] part = "resultset" -> setVars>>
=============================================================================
