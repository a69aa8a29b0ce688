----------------------------- MODULE MCValuePath -----------------------------
EXTENDS ValuePath

Leaves == {Value("int", <<"1">>, <<>>), Value("int", <<"1", "0">>, <<>>),
           Value("dec", <<"1", ".", "0">>, <<>>),
           Value("dec", <<"0", ".", "0", "1", "0", "1">>, <<>>),
           Value("word", <<"any">>, <<>>), Str(<<>>), Str(<<"x">>), Str(<<":", "]">>),
           Str(<<"'">>), Str(<<"'", "x", "'">>), Str(<<"\\">>), Str(<<"x", "\"", ":">>)}
Flat(leaves) == {Arr(<<>>)} \cup {Arr(<<v>>) : v \in leaves}
                            \cup {Arr(<<v, w>>) : v \in leaves, w \in leaves}
TheValues == Flat(Leaves) \cup Flat({Arr(<<>>), Value("word", <<"true">>, <<>>)} \cup
                                    {Arr(<<v>>) : v \in Leaves})
TheNames == {<<>>, <<"x">>, <<"any">>, <<"true", "x">>, <<"Inf">>, <<"0", "1">>, <<"1", "x">>, <<"1", "e", "1">>,
             <<"1", "e">>, <<"[", "\"", "x", "\"", "]">>, <<"x", "\\">>,
             <<"\"", "x">>, <<"'", "x", ":", "'">>, <<"[", "x">>, <<"1", ".", "1">>,
             <<"\"", "0", "1", "\"">>}
=============================================================================
