-------------------------- MODULE MCSessionStream --------------------------
(***************************************************************************)
(* A small instance of SessionStream for TLC.                              *)
(***************************************************************************)
EXTENDS SessionStream

Number(x) == <<"I4", x>>

Array(of, dims, els) == <<<<"ARRAY", of, dims, els>>>>

\* A table of three rows and two columns, by columns.
Table == <<3, 2>>

\* A string, a byte, a currency, an object, an array without bounds, a nested
\* array, a table.
Classic == {
    <<<<"BSTR", 1>>>>, <<<<"UI1", 2>>>>, <<<<"CY", 3>>>>, <<<<"DISPATCH", 4, "live">>>>,
    Array("I4", <<>>, <<>>),
    Array("VARIANT", <<2>>, <<>>) \o <<<<"NULL", 0>>>>
        \o Array("VARIANT", <<2>>, <<>>) \o <<Number(5), <<"BSTR", 6>>>>,
    Array("VARIANT", Table, <<>>) \o [n \in 1..6 |-> Number(n)] }

\* A currency, an object that .NET does not serialize, and typed arrays, one of objects.
DotNet == {
    <<<<"CURRENCY", 3>>>>, <<<<"PLAIN", 8>>>>,
    Array("UI1", <<2>>, <<<<"UI1", 1>>, <<"UI1", 2>>>>),
    Array("BOOL", <<1>>, <<<<"BOOL", 1>>>>),
    Array("NET", <<2>>, <<>>) \o <<<<"NET", 8>>, <<"NET", 9>>>>,
    Array("I4", Table, [n \in 1..6 |-> Number(n)]),
    Array("BSTR", Table, [n \in 1..6 |-> <<"BSTR", n>>]) }
=============================================================================
