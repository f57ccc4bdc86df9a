----------------------------- MODULE MCGraphQL ------------------------------
(* Types that inherit, refer to one another and share names; uploads whose *)
(* paths overlap, lead into text, null and files, or are refused.          *)
EXTENDS GraphQL, TLC

ThreeClasses == 1 .. 3
Named == <<"A", "B", "A">>

O == {"object"}
I == {"input"}
Class(b, k) == [base |-> b, kinds |-> k, maps |-> <<0, 0, 0>>, members |-> <<{}, {}, {}>>,
                entries |-> <<<<>>, <<>>, <<>>>>]
Declarations == {
    Class(<<0, 0, 0>>, <<O, O, {}>>),
    Class(<<0, 1, 2>>, <<{}, O, O>>),
    Class(<<0, 1, 0>>, <<I, I, O>>),
    Class(<<0, 1, 0>>, <<O, O \union I, {}>>),
    \* enum {A, B, "-" = "C"}, used on both sides
    [Class(<<0, 0, 0>>, <<I, {"enum"}, {}>>) EXCEPT !.entries[2] =
        <<<<"0", "A">>, <<"1", "B">>, <<"A", "0">>, <<"B", "1">>, <<"-", "C">>>>],
    \* a scalar that stands for the class before it, and one for a type
    [Class(<<0, 0, 0>>, <<O, {"scalar"}, {}>>) EXCEPT !.maps[2] = 3],
    [Class(<<0, 0, 0>>, <<O, {"scalar"}, {}>>) EXCEPT !.maps[2] = 1],
    \* a union of an object type
    [Class(<<0, 0, 0>>, <<O, {"union"}, {}>>) EXCEPT !.members[2] = {1}] }

\* {"v": {"f": "text", "g": null}}
Operation == <<"v", "f">> :> Text @@ <<"v", "g">> :> Null

Paths == {<<"v">>, <<"v", "f">>, <<"v", "g">>, <<"v", "f", "x">>, <<"v", "g", "x">>,
          <<"v", "proto">>, <<"v", "f", "x", "y">>}

Multipart == {[operations |-> Operation, map |-> m] : m \in
    {<<>>}
    \union {<<[file |-> "file1", paths |-> <<p, q>>]>> : p, q \in Paths}
    \union {<<[file |-> "file1", paths |-> <<p>>], [file |-> f, paths |-> <<q>>]>> :
               p, q \in Paths, f \in {"file2", "large", "not a file"}}
    \union {<<[file |-> "file1", paths |-> <<p>>], [file |-> "file2", paths |-> <<q>>],
              [file |-> "file3", paths |-> <<>>]>> : p, q \in {<<"v", "f">>}}}
=============================================================================
