---------------------------- MODULE SessionStream ----------------------------
(***************************************************************************)
(* The contents of a session as classic ASP, ASP.NET and ASP.NET Core      *)
(* write and read them: CVariantDictionary.cpp of the COM server, and      *)
(* PersistUtil.cs and StreamManager.cs of the managed module, of which     *)
(* ASP.NET Core has a copy that differs in the order of the names.         *)
(*                                                                         *)
(* A value is the sequence of its nodes, in the order in which WriteValue  *)
(* visits them.  A node is a scalar <<type, content>>, an object of .NET   *)
(* <<class, content>> or of a classic page <<"DISPATCH", object, form>>,   *)
(* or an array <<"ARRAY", type, bounds, elements>>.  The elements of an    *)
(* array of numbers or strings are in its node; those of an array of       *)
(* variants are values of their own, and their nodes follow.  A stream is  *)
(* a sequence of cells, each the result of one Write.  Pages run one after *)
(* another.                                                                *)
(***************************************************************************)
EXTENDS Integers, Sequences, FiniteSets

CONSTANTS
    Names,          \* the names of the session's items, in their order
    ClassicValues,  \* what classic pages put
    ManagedValues,  \* what ASP.NET and ASP.NET Core pages put
    MaxOps          \* how many methods one page calls

VARIABLES
    record,  \* the stream in Redis, or NoRecord
    truth,   \* what the pages meant to store
    savers,  \* the servers that have saved this session
    lost,    \* a page has saved an object that its server cannot write, or a part of the session
    page     \* the page that runs

vars == <<record, truth, savers, lost, page>>

Servers == {"classic", "managed", "core"}
Net == {"managed", "core"}

----------------------------------------------------------------------------
(* Arrays *)

Indices(dims) ==
    {i \in [DOMAIN dims -> UNION {1..dims[d] : d \in DOMAIN dims}] :
        \A d \in DOMAIN dims : i[d] <= dims[d]}

\* lElements, the product of the dimensions.
Size(dims) == IF dims = <<>> THEN 0 ELSE Cardinality(Indices(dims))

\* The loops of WriteValue and ReadValue visit j before i: the first dimension
\* runs fastest, the rest carry.
ByColumns(j, i) ==
    \E d \in DOMAIN i : j[d] < i[d] /\ \A e \in DOMAIN i : d < e => j[e] = i[e]

ByRows(j, i) ==
    \E d \in DOMAIN i : j[d] < i[d] /\ \A e \in DOMAIN i : e < d => j[e] = i[e]

\* An element's place among the others: a SAFEARRAY lies in memory by columns,
\* an array of .NET by rows.
Place(s, dims, i) ==
    Cardinality({j \in Indices(dims) :
                    j = i \/ IF s = "classic" THEN ByColumns(j, i) ELSE ByRows(j, i)})

\* The element that lies at each place in memory, elements being counted in the
\* order of the loops.
InMemory(s, dims) ==
    [n \in 1..Size(dims) |->
        Place("classic", dims, CHOOSE i \in Indices(dims) : Place(s, dims, i) = n)]

\* Elements that SAFEARRAYs and Buffer.BlockCopy copy as one block.
Block(s) ==
    IF s = "classic"
    THEN {"I1", "UI1", "I2", "I4", "R4", "R8", "CY", "DATE", "BOOL", "I8"}
    ELSE {"UI1", "I2", "UI2", "I4", "UI4", "R4", "R8", "I8", "UI8"}

OneByOne == {"VARIANT", "BSTR", "DECIMAL"}

Fixed(s) ==
    {"UI1", "I2", "UI2", "BOOL", "I4", "UI4", "R4", "I8", "UI8", "CY", "R8", "DATE",
     "DECIMAL"} \cup (IF s = "classic" THEN {"I1", "INT", "UINT", "ERROR"} ELSE {})

Classes == {"CURRENCY", "COM", "NET", "PLAIN"}

\* ConvertTypeToVtEnum: Type.GetTypeCode answers Object, thus VT_VARIANT, for
\* every class, CurrencyWrapper and the proxies of COM objects among them.
VtOf(s, tag) ==
    IF s \in Net /\ tag \in Classes THEN "VARIANT" ELSE tag

\* How many values follow a node as its elements.
Children(x) ==
    IF x[1] = "ARRAY" /\ x[2] \in {"VARIANT"} \cup Classes THEN Size(x[3]) ELSE 0

----------------------------------------------------------------------------
(* WriteValue, WriteProperty, LocalContents *)

\* Objects of a class that is not serializable, as CurrencyWrapper is not in
\* .NET Core: of these not even a length is written.
Unserializable(s, x) == x[1] = "PLAIN" \/ (x[1] = "CURRENCY" /\ s = "core")

ObjectCells(s, x, isSerialized) ==
    CASE Unserializable(s, x) -> <<>>
      [] s = "classic" /\ isSerialized = (x[3] = "stream") ->
            <<<<"length", 1>>, <<"blob", <<"COM", x[2]>>>>>>
      [] s = "classic" /\ isSerialized # (x[3] = "stream") ->
            <<<<"length", 0>>>>
      [] x[1] = "COM" ->
            <<<<"length", 1>>, <<"blob", x>>>>
      [] OTHER ->
            <<<<"length", 1>>, <<"mark", 0>>, <<"blob", x>>>>

\* The kind of cell that WriteString and WriteDecimal leave.
Kind(of) == IF of = "BSTR" THEN "string" ELSE "fixed"

\* Mutated form of ElementCells: .NET writes strings as they lie in memory.
ElementCellsByRows(s, of, dims, els) ==
    IF of \in {"BSTR", "DECIMAL"}
    THEN [n \in 1..Size(dims) |-> <<Kind(of), els[InMemory(s, dims)[n]][2]>>]
    ELSE IF of \in Block(s) /\ Size(dims) > 0
    THEN <<<<"block", [n \in 1..Size(dims) |-> els[InMemory(s, dims)[n]]]>>>>
    ELSE <<>>

\* The elements that are in the node.
ElementCells(s, of, dims, els) ==
    IF of \in {"BSTR", "DECIMAL"}
    THEN [n \in 1..Size(dims) |-> <<Kind(of), els[n][2]>>]
    ELSE IF of \in Block(s) /\ Size(dims) > 0
    THEN <<<<"block", [n \in 1..Size(dims) |-> els[InMemory(s, dims)[n]]]>>>>
    ELSE <<>>

ArrayCells(s, tag, dims, els) ==
    LET of == VtOf(s, tag)
        typeName == IF of # "VARIANT" THEN "" ELSE IF tag = "VARIANT" THEN "Object" ELSE tag
    IN  IF dims = <<>> THEN <<<<"array", of, 0>>, <<"string", typeName>>>>
        ELSE <<<<"array", of, Len(dims)>>, <<"string", typeName>>, <<"bounds", dims>>>>
             \o ElementCells(s, of, dims, els)

\* The type of a value, and what WriteValue writes of it.
NodeCells(s, x, isSerialized) ==
    <<<<"vt", VtOf(s, x[1])>>>> \o
    CASE x[1] = "ARRAY"                        -> ArrayCells(s, x[2], x[3], x[4])
      [] x[1] \in {"EMPTY", "NULL"}            -> <<>>
      [] x[1] = "BSTR"                         -> <<<<"string", x[2]>>>>
      [] x[1] \in {"DISPATCH"} \cup Classes    -> ObjectCells(s, x, isSerialized)
      [] OTHER                                 -> <<<<"fixed", x[2]>>>>

\* A value, its elements after it: the note that an object is still a stream is
\* about the value of an item only.
WriteValue(s, v, isSerialized) ==
    LET cells[n \in 0..Len(v)] ==
            IF n = 0 THEN <<>>
            ELSE cells[n - 1] \o NodeCells(s, v[n], isSerialized /\ n = 1)
    IN  cells[Len(v)]

\* Saving ends in an exception of Buffer.BlockCopy: DateTime is not primitive, and
\* a bool has one byte, not the two of VT_BOOL.
Throws(s, v) ==
    /\ s \in Net
    /\ \E n \in DOMAIN v :
          /\ v[n][1] = "ARRAY"
          /\ v[n][2] = "DATE" \/ (v[n][2] = "BOOL" /\ Size(v[n][3]) > 0)

\* Mutated form of WriteProperty: the offset is taken before the value is written.
WritePropertyEarly(s, st, k, v, isSerialized) ==
    st \o <<<<"string", k>>, <<"next", Len(st) + 3>>>> \o WriteValue(s, v, isSerialized)

\* A name, the offset of the next one, the type, and the value.
WriteProperty(s, st, k, v, isSerialized) ==
    LET value == WriteValue(s, v, isSerialized)
    IN  st \o <<<<"string", k>>, <<"next", Len(st) + 3 + Len(value)>>>> \o value

\* The names in descending order; a SortedSet runs through them ascending.
Order(s, keys) ==
    [n \in 1..Cardinality(keys) |->
        CHOOSE k \in keys :
            Cardinality({j \in keys : IF s = "core" THEN j <= k ELSE j >= k}) = n]

Header(count) ==
    <<<<"string", "Els">>, <<"next", 5>>, <<"vt", "I4">>, <<"fixed", count>>>>

LocalContents(s, items, isserialized) ==
    LET order == Order(s, DOMAIN items)
        stream[n \in 0..Len(order)] ==
            IF n = 0 THEN Header(Len(order))
            ELSE WriteProperty(s, stream[n - 1], order[n], items[order[n]],
                               order[n] \in isserialized)
    IN  stream[Len(order)]

----------------------------------------------------------------------------
(* ReadValue, ReadProperty, LocalLoad *)

At(st, p, kind) == p \in DOMAIN st /\ st[p][1] = kind

Read(hr, x, p) == [hr |-> hr, x |-> x, p |-> p]
Empty == <<"EMPTY", 0>>

\* An unknown type, or a value that is not where it is looked for: what is read
\* there instead is taken for no value at all.
Fails(p) == Read("E_FAIL", Empty, p)

\* Stream.ReadByte answers an int.
ReadFixed(s, vt, x) ==
    CASE s \in Net /\ vt = "UI1" -> <<"I4", x>>
      [] s \in Net /\ vt = "CY"  -> <<"CURRENCY", x>>
      [] OTHER                   -> <<vt, x>>

\* A classic page gets a stream, which get_Item makes an object.
ReadObject(s, st, p) ==
    CASE ~At(st, p, "length") -> Fails(p)
      [] At(st, p, "length") /\ st[p][2] = 0 ->
            Read(IF s = "classic" THEN "S_FALSE" ELSE "S_OK", Empty, p + 1)
      [] OTHER ->
            IF s = "classic" THEN Read("S_OK", <<"DISPATCH", st[p + 1][2][2], "stream">>, p + 2)
            ELSE IF At(st, p + 1, "mark") THEN Read("S_OK", st[p + 2][2], p + 3)
            ELSE Read("S_OK", st[p + 1][2], p + 2)

\* Strings and decimals are read one by one, as long as there are any.
ReadElements(of, dims, st, p) ==
    LET good == {n \in 1..Size(dims) : \A m \in 1..n : At(st, p + m - 1, Kind(of))}
    IN  Read(IF good = 1..Size(dims) THEN "S_OK" ELSE "E_FAIL",
             <<"ARRAY", of, dims, [n \in 1..Size(dims) |->
                                      IF n \in good THEN <<of, st[p + n - 1][2]>> ELSE Empty]>>,
             p + Cardinality(good))

\* The elements of a block go to the places they have in this server's memory.
ReadBlock(s, of, dims, st, p) ==
    LET at == InMemory(s, dims)
    IN  IF Size(dims) = 0 THEN Read("S_OK", <<"ARRAY", of, dims, <<>>>>, p)
        ELSE Read("S_OK",
                  <<"ARRAY", of, dims, [n \in 1..Size(dims) |->
                       st[p][2][CHOOSE m \in 1..Size(dims) : at[m] = n]]>>,
                  p + 1)

\* ConvertEnumToType: .NET makes arrays of CurrencyWrapper of those of VT_CY.
TypeOf(s, vt, typeName) ==
    CASE vt = "VARIANT" /\ typeName # "Object" -> typeName
      [] vt = "CY" /\ s \in Net -> "CURRENCY"
      [] OTHER -> vt

\* The bounds and the elements are read after the type, and after its name,
\* which classic pages refuse unless it is that of Object; .NET has no type for
\* VT_I1.
ReadArray(s, st, p) ==
    LET vt == st[p][2]
        of == TypeOf(s, vt, st[p + 1][2])
        dims == IF st[p][3] = 0 THEN <<>> ELSE st[p + 2][2]
    IN  CASE s = "classic" /\ of # vt -> Fails(p + 2)
          [] s \in Net /\ vt = "I1" -> Fails(p + 2)
          [] s = "classic" /\ of = vt /\ dims = <<>> -> Read("S_OK", Empty, p + 2)
          [] s \in Net /\ vt # "I1" /\ dims = <<>> -> Read("S_OK", <<"ARRAY", of, <<0>>, <<>>>>, p + 2)
          [] OTHER ->
                IF vt = "VARIANT" \/ Size(dims) = 0
                THEN Read("S_OK", <<"ARRAY", of, dims, <<>>>>, p + 3)
                ELSE IF vt \in OneByOne THEN ReadElements(vt, dims, st, p + 3)
                ELSE IF vt \in Block(s) THEN ReadBlock(s, vt, dims, st, p + 3)
                ELSE IF s = "classic"
                THEN Read("S_OK", <<"ARRAY", vt, dims, [n \in 1..Size(dims) |-> Empty]>>, p + 3)
                ELSE Fails(p + 3)

ReadNode(s, vt, st, p) ==
    CASE vt = "ARRAY" /\ At(st, p, "array") -> ReadArray(s, st, p)
      [] vt \in {"EMPTY", "NULL"} -> Read("S_OK", <<vt, 0>>, p)
      [] vt = "BSTR" /\ At(st, p, "string") -> Read("S_OK", <<vt, st[p][2]>>, p + 1)
      [] vt \in Fixed(s) /\ At(st, p, "fixed") ->
            Read("S_OK", ReadFixed(s, vt, st[p][2]), p + 1)
      [] vt \in {"DISPATCH", "UNKNOWN"} \/ (vt = "VARIANT" /\ s \in Net) ->
            ReadObject(s, st, p)
      [] OTHER -> Fails(p)

Further(r, one) ==
    [hr |-> one.hr, v |-> Append(r.v, one.x), p |-> one.p, todo |-> r.todo - 1 + Children(one.x)]

\* One value more of the todo that are still to be read.
NextNode(s, st, r) ==
    IF r.todo = 0 \/ r.hr # "S_OK" THEN r
    ELSE Further(r, IF At(st, r.p, "vt") THEN ReadNode(s, st[r.p][2], st, r.p + 1)
                    ELSE Fails(r.p))

\* The elements that were not read stay empty, and what failed is cleared.
Filled(r) ==
    [hr |-> r.hr,
     v |-> IF r.hr = "E_FAIL" THEN <<Empty>> ELSE r.v \o [n \in 1..r.todo |-> Empty],
     p |-> r.p]

\* ReadValue calls itself for the elements of an array; the loops end with the
\* first that is not S_OK.
ReadValue(s, st, p) ==
    LET read[n \in 0..Len(st)] ==
            IF n = 0 THEN [hr |-> "S_OK", v |-> <<>>, p |-> p, todo |-> 1]
            ELSE NextNode(s, st, read[n - 1])
    IN  Filled(read[Len(st)])

Enter(items, k, v) == [n \in DOMAIN items \cup {k} |-> IF n = k THEN v ELSE items[n]]

\* An item is entered whatever became of its value r.
EnterItem(s, st, l, k, r) ==
    LET isObject == s = "classic" /\ At(st, l.p + 2, "vt")
                                  /\ st[l.p + 2][2] \in {"DISPATCH", "UNKNOWN"}
    IN  [hr |-> r.hr,
         items |-> Enter(l.items, k, r.v),
         isserialized |-> l.isserialized \cup (IF isObject THEN {k} ELSE {}),
         aligned |-> l.aligned /\ (r.hr = "S_OK" => st[l.p + 1][2] = r.p),
         p |-> r.p]

NextItem(s, st, l) ==
    IF l.hr # "S_OK" \/ ~At(st, l.p, "string")
    THEN [l EXCEPT !.hr = IF @ = "S_OK" THEN "E_FAIL" ELSE @]
    ELSE EnterItem(s, st, l, st[l.p][2], ReadValue(s, st, l.p + 2))

\* LocalLoad: the first item that is not S_OK is the last.  aligned: values end
\* where their next offset says.
LocalLoad(s, st) ==
    LET loaded[n \in 0..st[4][2]] ==
            IF n = 0
            THEN [hr |-> "S_OK", items |-> <<>>, isserialized |-> {}, aligned |-> TRUE, p |-> 5]
            ELSE NextItem(s, st, loaded[n - 1])
    IN  loaded[st[4][2]]

----------------------------------------------------------------------------
(* What pages put *)

IsSeq(v) == Len(v) \in Nat /\ v = [n \in 1..Len(v) |-> v[n]]

\* How many values are to come after each node, for v to be complete.
Todo(v) ==
    LET todo[n \in 0..Len(v)] ==
            IF n = 0 THEN 1 ELSE todo[n - 1] - 1 + Children(v[n])
    IN  todo

\* One value and all its elements.
IsTree(v) ==
    /\ IsSeq(v)
    /\ Todo(v)[Len(v)] = 0
    /\ \A n \in 0..(Len(v) - 1) : Todo(v)[n] > 0

\* The types of arrays. Those of UI2, UI4, UI8 and of signed bytes of .NET, which
\* it writes as VT_UNKNOWN, are left out; its arrays of CY are of a class.
Tags(s) ==
    IF s \in Net THEN (Block("classic") \ {"I1", "CY"}) \cup OneByOne \cup Classes
    ELSE Block("classic") \cup OneByOne

IsScalar(s, x) ==
    /\ x = <<x[1], x[2]>>
    /\ x[1] \in {"EMPTY", "NULL", "BSTR"} \cup Fixed(s)
    /\ x[1] \in {"EMPTY", "NULL"} => x[2] = 0

IsObject(s, x) ==
    IF s = "classic"
    THEN x = <<"DISPATCH", x[2], x[3]>> /\ x[3] \in {"live", "stream"}
    ELSE x = <<x[1], x[2]>> /\ x[1] \in Classes

IsArray(s, x) ==
    /\ x = <<"ARRAY", x[2], x[3], x[4]>>
    /\ x[2] \in Tags(s)
    /\ IsSeq(x[3]) /\ \A d \in 1..Len(x[3]) : x[3][d] \in Nat
    /\ IsSeq(x[4])
    /\ Len(x[4]) = IF x[2] \in {"VARIANT"} \cup Classes THEN 0 ELSE Size(x[3])
    /\ x[2] \in {"BSTR", "DECIMAL"} =>
           \A n \in 1..Len(x[4]) : x[4][n] = <<x[2], x[4][n][2]>>

IsNode(s, x) == IsScalar(s, x) \/ IsObject(s, x) \/ IsArray(s, x)

\* What a page of s has in its session: an object of a classic page is not part
\* of an array.
IsValue(s, v) ==
    /\ IsTree(v)
    /\ \A n \in 1..Len(v) : IsNode(s, v[n])
    /\ \A n \in 2..Len(v) : v[n][1] # "DISPATCH"

\* LocalLoad refuses a session of more items.
MAXSHORT == 32767

ASSUME StreamAssumption ==
    /\ Names \subseteq Nat
    /\ IsFiniteSet(Names) /\ Cardinality(Names) <= MAXSHORT
    /\ MaxOps \in Nat
    /\ \A v \in ClassicValues : IsValue("classic", v) /\ (v[1][1] = "DISPATCH" => v[1][3] = "live")
    /\ \A v \in ManagedValues : IsValue("managed", v)

----------------------------------------------------------------------------
(* Pages *)

NoPage == [server |-> "none"]

\* Redis has no such session: a stream begins with its header.
NoRecord == <<>>

\* What a node means to the pages: a byte is a number, an object is itself.
NodeMeaning(x, isSerialized) ==
    CASE x[1] = "UI1" -> <<"I4", x[2]>>
      [] x[1] = "CURRENCY" -> <<"CY", x[2]>>
      [] x[1] = "DISPATCH" /\ isSerialized = (x[3] = "stream") -> <<"OBJECT", x[2]>>
      [] x[1] = "DISPATCH" /\ isSerialized # (x[3] = "stream") -> Empty
      [] x[1] \in Classes \ {"CURRENCY"} -> <<"OBJECT", x[2]>>
      [] OTHER -> x

Meaning(v, isSerialized) ==
    [n \in DOMAIN v |-> NodeMeaning(v[n], isSerialized /\ n = 1)]

Init ==
    /\ record = NoRecord
    /\ truth = <<>>
    /\ savers = {}
    /\ lost = FALSE
    /\ page = NoPage

\* Mutated form of NewPage: every item counts as a stream.
NewPageOfStreams(s, items, isserialized, partial) ==
    [server |-> s, items |-> items, isserialized |-> DOMAIN items, meant |-> truth,
     dirty |-> FALSE, partial |-> partial, calls |-> 0]

\* partial: the page goes on with a part of the session.
NewPage(s, items, isserialized, partial) ==
    [server |-> s, items |-> items, isserialized |-> isserialized, meant |-> truth,
     dirty |-> FALSE, partial |-> partial, calls |-> 0]

\* get_Item makes the object from its stream.
Got(v, isSerialized) ==
    IF isSerialized /\ v[1][1] = "DISPATCH" THEN [v EXCEPT ![1][3] = "live"] ELSE v

\* InvokeOnStartPage gets every object of the session.
Started(l) == [k \in DOMAIN l.items |-> Got(l.items[k], k \in l.isserialized)]

\* Mutated form of StillNoted: get_Item leaves the note that the item is a stream.
NotedForGood(l) == l.isserialized

StillNoted(l) == {k \in l.isserialized : l.items[k][1][1] # "DISPATCH"}

\* OnStartPage. A page whose session cannot be loaded fails and changes nothing;
\* but if its id rotates, a classic page goes on with what it has, since NewID
\* overwrites the result of LocalLoad.
Load(s) ==
    /\ page = NoPage
    /\ IF record = NoRecord
       THEN page' = NewPage(s, <<>>, {}, FALSE)
       ELSE LET l == LocalLoad(s, record)
            IN  /\ l.hr = "S_OK" \/ s = "classic"
                /\ page' = NewPage(s, Started(l), StillNoted(l), l.hr # "S_OK")
    /\ UNCHANGED <<record, truth, savers, lost>>

Method(p) ==
    /\ page # NoPage
    /\ page.calls < MaxOps
    /\ page' = [p EXCEPT !.calls = @ + 1]
    /\ UNCHANGED <<record, truth, savers, lost>>

With(k, v) ==
    [page EXCEPT !.items = Enter(@, k, v), !.meant = Enter(@, k, Meaning(v, FALSE))]

Values(s) == IF s = "classic" THEN ClassicValues ELSE ManagedValues

\* put_Item, and the indexers of .NET.
Put(k, v) ==
    /\ page # NoPage
    /\ v \in Values(page.server)
    /\ v[1][1] # "DISPATCH"
    /\ Method([With(k, v) EXCEPT !.dirty = TRUE])

\* putref_Item does not make the dictionary dirty.
PutRef(k, v) ==
    /\ page # NoPage
    /\ v \in Values(page.server)
    /\ v[1][1] = "DISPATCH"
    /\ Method(With(k, v))

Without(f, k) == [n \in DOMAIN f \ {k} |-> f[n]]

RemoveItem(k) ==
    /\ page # NoPage
    /\ k \in DOMAIN page.items
    /\ Method([page EXCEPT !.items = Without(@, k), !.meant = Without(@, k),
                           !.isserialized = IF page.items[k][1][1] = "DISPATCH"
                                            THEN @ \ {k} ELSE @,
                           !.dirty = TRUE])

\* The managed module saves every page.
Save ==
    /\ page # NoPage
    /\ page.dirty \/ page.server = "managed"
    /\ \A k \in DOMAIN page.items : ~Throws(page.server, page.items[k])
    /\ record' = LocalContents(page.server, page.items, page.isserialized)
    /\ truth' = page.meant
    /\ savers' = savers \cup {page.server}
    /\ lost' = (lost \/ page.partial
                     \/ \E k \in DOMAIN page.items : \E n \in DOMAIN page.items[k] :
                            Unserializable(page.server, page.items[k][n]))
    /\ page' = NoPage

\* A page that has changed nothing, or whose values .NET cannot write.
End ==
    /\ page # NoPage
    /\ \/ ~page.dirty /\ page.server # "managed"
       \/ \E k \in DOMAIN page.items : Throws(page.server, page.items[k])
    /\ page' = NoPage
    /\ UNCHANGED <<record, truth, savers, lost>>

\* The session is abandoned or expires.
SessionEnds ==
    /\ page = NoPage
    /\ record # NoRecord
    /\ record' = NoRecord
    /\ truth' = <<>>
    /\ savers' = {}
    /\ lost' = FALSE
    /\ UNCHANGED page

Next ==
    \/ \E s \in Servers : Load(s)
    \/ \E k \in Names : RemoveItem(k)
    \/ \E k \in Names, v \in ClassicValues \cup ManagedValues : Put(k, v) \/ PutRef(k, v)
    \/ Save \/ End \/ SessionEnds

Spec == Init /\ [][Next]_vars

----------------------------------------------------------------------------
TypeOK ==
    /\ DOMAIN truth \subseteq Names
    /\ savers \subseteq Servers
    /\ lost \in BOOLEAN
    /\ page # NoPage =>
           /\ page.server \in Servers
           /\ page.isserialized \subseteq Names
           /\ page.isserialized # {} => page.server = "classic"

Scalars == ({"EMPTY", "NULL", "BSTR"} \cup Fixed("managed")) \ {"CY"}

\* Values that all servers write alike: numbers, strings, vectors of numbers
\* and strings, and arrays of any number of dimensions of such values.
Portable(m) ==
    \A n \in DOMAIN m :
       \/ m[n][1] \in Scalars
       \/ /\ m[n][1] = "ARRAY" /\ m[n][3] # <<>>
          /\ \/ m[n][2] \in Block("classic") \cap Block("managed") /\ Len(m[n][3]) = 1
             \/ m[n][2] \in OneByOne

\* Arrays have their bounds. (One that a classic page has only declared is no
\* array any more when the next page reads it.)
Dimensioned(m) == \A n \in DOMAIN m : m[n][1] = "ARRAY" => m[n][3] # <<>>

Seen(l) == [k \in DOMAIN l.items |-> Meaning(l.items[k], k \in l.isserialized)]

Reads(s) ==
    LET l == LocalLoad(s, record) IN l.hr = "S_OK" /\ Seen(l) = truth

\* As long as pages store portable values only, whichever server runs the next
\* page, it reads what the pages before meant to store, in how many steps and
\* through how many servers it ever came.  (.NET can lose an object that is not
\* serializable, a classic page with a rotating id all it cannot load.)
ReadBack ==
    /\ record # NoRecord /\ page = NoPage /\ ~lost
    /\ \A k \in DOMAIN truth : Portable(truth[k])
    => \A s \in Servers : Reads(s)

\* What only classic pages have stored, their objects included, they read back;
\* so do pages of .NET.
OwnValues ==
    /\ record # NoRecord /\ page = NoPage /\ ~lost
    /\ \A k \in DOMAIN truth : Dimensioned(truth[k])
    => /\ savers \subseteq {"classic"} => Reads("classic")
       /\ savers \subseteq Net => \A s \in Net : Reads(s)

\* Every value ends where the offset before it says, as PersistUtil.cs asserts.
InStep ==
    record # NoRecord /\ page = NoPage =>
        \A s \in Servers : LocalLoad(s, record).aligned
=============================================================================
