----------------------------- MODULE MCSessions -----------------------------
(* Instances of Sessions for TLC. *)
EXTENDS Sessions, TLC

CONSTANTS c1, c2, c3

Programs == <<"pub", "sub", "manage", "list">>
Trio(p) == [c \in Clients |-> CASE c = c1 -> p[1] [] c = c2 -> p[2] [] c = c3 -> p[3]]

\* Any two programs, up to a renaming of the clients.
AnyRoles == {Trio(<<Programs[p[1]], Programs[p[2]], "none">>) :
                 p \in {q \in (1 .. 4) \X (1 .. 4) : q[1] <= q[2]}}

\* A session of each kind beside another one, with the first client interrupted, and
\* three clients on the register pipe.
PubSub == {Trio(<<"pub", "sub", "none">>)}
LiveRoles == PubSub \cup {Trio(<<"sub", "pub", "none">>), Trio(<<"list", "manage", "none">>),
                         Trio(<<"manage", "manage", "manage">>)}

\* No box; boxes out of order; two slots with one name; a box without its name yet.
MCBoxTables == {<< >>, <<2, 1>>, <<1, 2, 1>>, <<2, 0>>}
TwoTables == {<< >>, <<2, 1>>}

Symmetry == Permutations(Workers)
=============================================================================
