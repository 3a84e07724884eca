-------------------------------- MODULE MCFs --------------------------------
EXTENDS Fs

a == <<"a">>
b == <<"b">>
ab == <<"a", "b">>
up == <<"a", "..">>
call(ops, paths) == [op : ops, path : paths, new : {<<>>}]

MCMaxLinks == [DIR |-> 3, FILE |-> 2]

\* One process makes, links, opens and removes files while the other makes and
\* removes directories and changes its own, both under the same names.
MCCalls == <<call({"create"}, {a, ab}) \cup call({"open"}, {ab}) \cup call({"unlink"}, {a, b})
               \cup [op : {"link"}, path : {a}, new : {b, ab}],
             call({"mkdir"}, {a, ab}) \cup call({"unlink"}, {ab, up, <<>>})
               \cup call({"chdir"}, {a, up})>>
=============================================================================
