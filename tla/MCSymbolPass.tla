---------------------------- MODULE MCSymbolPass ----------------------------
EXTENDS SymbolPass

Plain    == {[src |-> s, stem |-> "x", role |-> "none"] :
                s \in {"default", "analysis", "imported"}}
Native   == {k \in Plain : k.src # "imported"}
Excepted == {[src |-> "analysis", stem |-> "x", role |-> "exc_owned"],
             [src |-> "default", stem |-> "x", role |-> "exc_kept"]}
Tasks    == {[src |-> "analysis", stem |-> "x", role |-> "pal_owned"]}

Function(kinds, targets) ==
    {[src |-> k.src, stem |-> k.stem, role |-> k.role, thunk |-> t] :
        k \in kinds, t \in targets}
Inventory ==
    {[e \in {1, 2, 3} |-> CASE e = 1 -> a [] e = 2 -> b [] e = 3 -> c] :
        a \in Function(Plain \cup Tasks, {0}),
        b \in Function(Plain \cup Excepted, {0, 1}),
        c \in Function(Native \cup {k \in Excepted : k.role = "exc_kept"}, {0, 2})}
\* An ss name or a registration belongs to one entry and is no one else's.
Lone    == [func |-> "none", reg |-> "none", ss |-> "none", startup |-> "none",
            guesses |-> 0]
Func(n) == [Lone EXCEPT !.func = n]
Ss(n)   == [Lone EXCEPT !.ss = n]
Guessed == [Lone EXCEPT !.guesses = 1]

Evidence(a, b, c, d, f) == <<a, b, c, d, f>>
Proof ==
    {Evidence(a, b, c, Func("x"), Lone) :
        a \in {Lone, Func("y")},
        b \in {Lone, Func("y"), Guessed,
               [Lone EXCEPT !.reg = "r", !.ss = "s", !.guesses = 1]},
        c \in {Lone, Func("y")}}
    \* an ss name at a task, startup names at any kind of entry
    \cup {Evidence(a, b, Lone, Lone, Lone) :
        a \in {Lone, Ss("t")},
        b \in {[Lone EXCEPT !.ss = "s", !.startup = "i", !.guesses = 1],
               [Lone EXCEPT !.startup = "i", !.guesses = 1],
               [Lone EXCEPT !.reg = "r", !.startup = "x"],
               [Lone EXCEPT !.guesses = 2]}}
    \* a function to create by the name that another gets
    \cup {Evidence(Func("y"), Lone, Lone, Func("y"), Lone)}
    \* two functions to create, one of them by a name that 1 may still have
    \cup {Evidence(Func("y"), Lone, Lone, Func("x"), Func("z"))}
=============================================================================
