---- MODULE MCGlobalShapes ----
EXTENDS GlobalShapes

Op(op) == [op |-> op, cond |-> FALSE, dst |-> 15, src |-> 0, imm |-> 0, back |-> 0, to |-> 0]
SetReg(r, v)    == [Op("set") EXCEPT !.dst = r, !.imm = v]
Add(r, s, n)    == [Op("add") EXCEPT !.dst = r, !.src = s, !.imm = n]
Access(r, n)    == [Op("access") EXCEPT !.src = r, !.imm = n]
Post(r, n)      == [Op("access") EXCEPT !.src = r, !.back = n]
KillReg(r)      == [Op("kill") EXCEPT !.dst = r]
Branch(t)       == [Op("branch") EXCEPT !.to = t]
Call(t)         == [Op("call") EXCEPT !.to = t]
If(i)           == [i EXCEPT !.cond = TRUE]
Stop            == Op("stop")

Code(choices) == FoldLeft(LAMBDA codes, slot : {Append(c, i) : c \in codes, i \in slot}, {<<>>}, choices)
Fn(entry, ranges) == [entry |-> entry, ranges |-> ranges]
Family(choices, functions) == {[code |-> c, functions |-> functions] : c \in Code(choices)}

Values == {SetReg(0, 1), SetReg(0, 3)}

\* One function with loops, diamonds and conditional writes.
Alone == Family(
    << Values \cup {Access(0, 0)},
       {If(SetReg(0, 1)), If(Branch(4)), Add(1, 0, 2), Post(0, 2), KillReg(0)},
       Values \cup {If(SetReg(0, 3)), If(Branch(5)), Add(0, 0, 2), Add(0, 0, 0), Add(4, 0, 0)},
       {Branch(1), If(Branch(2)), If(Call(1)), Op("bad"), Add(0, 1, 0)},
       {Access(0, 0), Access(1, 0), Access(4, 2), If(Branch(1)), Add(0, 0, -2)},
       {If(Branch(2)), Branch(4), Access(0, 0), Stop} >>,
    <<Fn(1, {<<1, 6>>})>>)

\* Two callers (one in a loop, one with a displaced pointer) of one callee.
Calling == Family(
    << Values \cup {KillReg(0)},
       {Call(6), If(Branch(4)), SetReg(1, 1), Add(1, 0, 0)},
       {Call(6), Add(0, 0, 2), If(Branch(2))},
       Values \cup {Add(0, 0, 2)},
       {Call(6), Branch(1), Branch(6)},
       {Access(0, 0), If(SetReg(0, 1)), SetReg(0, 1), Add(4, 0, 0)},
       {Access(0, 2), Post(0, 2), Access(1, 0), Access(4, 0), Branch(6)},
       {If(Branch(6)), Access(0, 0), Stop} >>,
    <<Fn(1, {<<1, 3>>}), Fn(4, {<<4, 5>>}), Fn(6, {<<6, 8>>})>>)

\* Two functions that share a tail, one of them the callee of the other or
\* ambiguous with a third that has its entry.
Sharing(third) == Family(
    << Values \cup {Add(1, 0, 0)},
       {Branch(7), Call(4), SetReg(1, 3)},
       {Branch(7), Call(4)},
       Values \cup {Add(0, 0, 2), Access(0, 0)},
       {Branch(7), If(Branch(7))},
       {Stop},
       {Access(0, 0), Call(4)},
       {Access(0, 2), Access(1, 0), Branch(4)} >>,
    <<Fn(1, {<<1, 3>>, <<7, 8>>}), Fn(4, {<<4, 5>>, <<7, 8>>})>> \o third)

\* Two functions of one entry, one of which ends where the other goes on.
Twins == Family(
    << {If(Branch(4)), SetReg(0, 1)},
       Values \cup {If(SetReg(0, 3))},
       {Call(6), Add(0, 0, 0)},
       Values \cup {Call(6)},
       {Branch(3), Stop},
       {Access(0, 0), Add(0, 0, 2)},
       {Access(0, 0), Stop} >>,
    <<Fn(1, {<<1, 3>>}), Fn(1, {<<1, 5>>}), Fn(6, {<<6, 7>>})>>)

AllPrograms == Alone \cup Calling \cup Twins \cup Sharing(<<>>) \cup Sharing(<<Fn(4, {<<4, 6>>})>>)
TwoGlobals == {1, 3}
====
