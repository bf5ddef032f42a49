---- MODULE MCThumbRegion ----
EXTENDS ThumbRegion

Upto(S, n) == UNION {[1..k -> S] : k \in 0..n}

Fn(entry, end) == [is |-> "function", entry |-> entry, end |-> end, size |-> 4]
Op(at, len) == [at |-> at, len |-> len, same |-> TRUE]
Body(addr, ops) == [is |-> "body", addr |-> addr, ops |-> ops]
Odd == [is |-> "odd"]
Object(e) == [kind |-> "object", elems |-> <<e>>]
Array(es) == [kind |-> "array", elems |-> es]
Radare2(values) == [producer |-> "radare2", values |-> values]
RizinOf(values) == [producer |-> "rizin", values |-> values]
Xref(from, to) == [is |-> "xref", from |-> from, to |-> to]
Refs == Array(<<Xref(4, 1), Odd, Xref(9, 2)>>)

\* Who gets which body: equal and unequal entries, one beyond 32 bits, one
\* with a wrong end; bodies with an address, without one, with none but an
\* instruction's.
Entries == {Fn(2, 10), Fn(6, 10), Fn(16, 17), Fn(6, 5)}
Few == {Body(2, <<Op(2, 2), Op(6, 2)>>), Body(6, <<Op(6, 2)>>), Body(Absent, <<>>),
        Body(Absent, <<Op(6, 4)>>), Body(16, <<>>)}
Plain(fs, bs) == <<Array(fs)>> \o [k \in DOMAIN bs |-> Object(bs[k])]

Inventories == Upto(Entries, 3) \ {<<>>}
Pairing == {Radare2(Plain(fs, bs)) : fs \in Inventories, bs \in Upto(Few, 3)}
           \cup {RizinOf(Append(Plain(fs, bs), Refs)) : fs \in Inventories, bs \in Upto(Few, 2)}

\* The shape of the stream.
Some == {Object(Body(2, <<Op(2, 4)>>)), Object(Odd), Array(<<>>), Array(<<Fn(2, 10)>>),
         Array(<<Fn(6, 10), Fn(2, 10)>>), Array(<<Fn(2, 10), Fn(2, 10), Fn(6, 10), Fn(6, 10)>>),
         Array(<<Odd, Body(6, <<>>), Body(2, <<>>)>>), Array(<<Fn(2, 10), Odd>>),
         Array(<<Fn(Absent, 10)>>)}
Shapes == {Radare2(vs) : vs \in Upto(Some, 3)} \cup {RizinOf(vs) : vs \in Upto(Some, 3)}

\* One function and its instructions.
Ops == {Op(2, 2), Op(2, 4), Op(4, 2), Op(4, 4), Op(6, 2), Op(8, 4), Op(3, 2), Op(10, 4),
        Op(4, 3), Op(Absent, 2), [Op(6, 2) EXCEPT !.same = FALSE]}
Geometry == {Radare2(Plain(<<Fn(4, end)>>, <<Body(4, ops)>>)) : end \in {8, 12}, ops \in Upto(Ops, 3)}
            \cup {RizinOf(Append(Plain(<<Fn(4, 12)>>, <<Body(4, ops)>>), Refs)) : ops \in Upto(Ops, 2)}

\* rizin's references.
Listed == {Xref(4, 1), Xref(7, 2), Xref(8, 1), Xref(16, 1), Xref(4, Absent), Odd}
Referring == {RizinOf(<<Array(<<Fn(4, 12)>>), Object(Body(4, <<Op(4, 4)>>)), Array(es)>>) :
              es \in Upto(Listed, 3)}

AllCaptures == Pairing \cup Shapes \cup Geometry \cup Referring
====
