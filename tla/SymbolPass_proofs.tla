--------------------------- MODULE SymbolPass_proofs ---------------------------
(***************************************************************************)
(* Proofs about SymbolPass for every set of functions, every inventory of  *)
(* pass 1 and every evidence: a saved project has all names of the map or  *)
(* none, names keep their rank, a replay changes no name, the refresh      *)
(* accepts exactly the exports it should, and the scripts refuse a map     *)
(* only for an exception entry that shows its renamed target's name.       *)
(*                                                                         *)
(* The program is described by two sets: the functions of pass 1 that were *)
(* renamed and the functions that were created. Everything the scripts     *)
(* check follows from these sets and from what a thunk shows.              *)
(***************************************************************************)
EXTENDS SymbolPass, FiniteSetTheorems, WellFoundedInduction, TLAPS

-----------------------------------------------------------------------------
(* Thunk chains.                                                           *)

\* Every set of natural numbers has a least one.
LEMMA LeastNat ==
    ASSUME NEW T, T \subseteq Nat, T # {}
    PROVE  \E n \in T : \A m \in T : n <= m
  <1>1. PICK n \in T : \A m \in T : ~(<<m, n>> \in OpToRel(<, Nat))
    BY NatLessThanWellFounded, WFMin
  <1>2. ASSUME NEW m \in T PROVE n <= m
    <2>1. <<m, n>> \in Nat \X Nat OBVIOUS
    <2>2. ~(m < n) BY <1>1, <2>1 DEF OpToRel
    <2> QED BY <2>2
  <1> QED BY <1>1, <1>2

\* The end of a chain is the end of the chain from its next link on.
LEMMA EndOfDef ==
    ASSUME NEW next, NEW e \in Nat
    PROVE  EndOf(next, e) =
             IF e \in DOMAIN next /\ next[e] \in 1 .. (e - 1)
             THEN EndOf(next, next[e]) ELSE e
  <1> DEFINE Link(n) == n \in DOMAIN next /\ next[n] \in 1 .. (n - 1)
             Step(f, n) == IF Link(n) THEN f[next[n]] ELSE n
             Def(f, k) == f = [n \in 0 .. k |-> Step(f, n)]
             Bad == {k \in Nat : \A f : ~Def(f, k)}
  <1>1. Bad = {}
    <2> SUFFICES ASSUME Bad # {} PROVE FALSE OBVIOUS
    <2>1. Bad \subseteq Nat OBVIOUS
    <2>2. PICK k \in Bad : \A m \in Bad : k <= m
      <3> HIDE DEF Bad
      <3> QED BY <2>1, LeastNat
    <2>3. k # 0
      <3>1. Def([n \in 0 .. 0 |-> 0], 0) OBVIOUS
      <3> QED BY <3>1
    <2>4. k \in Nat /\ k - 1 \in Nat BY <2>3
    <2>5. k - 1 \notin Bad
      <3> HIDE DEF Bad
      <3> QED BY <2>2, <2>4
    <2>6. PICK f : Def(f, k - 1)
      <3> HIDE DEF Def
      <3> QED BY <2>4, <2>5
    <2> DEFINE g == [n \in 0 .. k |-> IF n = k THEN Step(f, k) ELSE f[n]]
    <2>7. ASSUME NEW n \in 0 .. k PROVE g[n] = Step(g, n)
      <3>1. CASE n = k
        <4>1. Link(k) => next[k] \in 0 .. k /\ next[k] # k BY <2>4
        <4> QED BY <3>1, <4>1
      <3>2. CASE n # k
        <4>1. n \in 0 .. (k - 1) BY <2>4, <3>2
        <4>2. f[n] = Step(f, n) BY <2>6, <4>1
        <4>3. Link(n) => next[n] \in 0 .. k /\ next[n] # k BY <2>4, <4>1
        <4> QED BY <3>2, <4>2, <4>3
      <3> QED BY <3>1, <3>2
    <2>8. Def(g, k)
      <3>1. g = [n \in 0 .. k |-> g[n]] OBVIOUS
      <3> HIDE DEF g, Step
      <3> QED BY <2>7, <3>1
    <2> QED BY <2>8
  <1>2. ASSUME NEW k \in Nat
        PROVE  \E f : Def(f, k) /\ EndOf(next, k) = f[k]
    <2>1. \E f : Def(f, k)
      <3> HIDE DEF Def
      <3> QED BY <1>1
    <2> QED BY <2>1, Zenon DEF EndOf
  <1>3. ASSUME NEW k \in Nat, NEW m \in Nat, NEW f, Def(f, k), NEW g, Def(g, m),
               NEW i \in Nat, i <= k, i <= m
        PROVE  f[i] = g[i]
    <2> DEFINE Off == {n \in Nat : n <= k /\ n <= m /\ f[n] # g[n]}
    <2> SUFFICES ASSUME Off # {} PROVE FALSE BY <1>3
    <2>1. Off \subseteq Nat OBVIOUS
    <2>2. PICK n \in Off : \A o \in Off : n <= o
      <3> HIDE DEF Off
      <3> QED BY <2>1, LeastNat
    <2>3. n \in 0 .. k /\ n \in 0 .. m OBVIOUS
    <2>4. f[n] = Step(f, n) /\ g[n] = Step(g, n) BY <1>3, <2>3
    <2>5. Link(n) BY <2>4
    <2>6. next[n] \in Nat /\ next[n] < n BY <2>3, <2>5
    <2>7. next[n] \notin Off
      <3> HIDE DEF Off
      <3> QED BY <2>1, <2>2, <2>6
    <2>8. f[next[n]] = g[next[n]] BY <2>3, <2>6, <2>7
    <2> QED BY <2>4, <2>5, <2>8
  <1>4. PICK f : Def(f, e) /\ EndOf(next, e) = f[e] BY <1>2
  <1>5. f[e] = Step(f, e) BY <1>4
  <1>6. CASE Link(e)
    <2>1. next[e] \in Nat /\ next[e] <= e BY <1>6
    <2>2. PICK g : Def(g, next[e]) /\ EndOf(next, next[e]) = g[next[e]]
      <3> HIDE DEF Def
      <3> QED BY <1>2, <2>1
    <2>3. f[next[e]] = g[next[e]]
      <3> HIDE DEF Def
      <3> QED BY <1>3, <1>4, <2>1, <2>2
    <2> QED BY <1>4, <1>5, <1>6, <2>2, <2>3
  <1> QED BY <1>4, <1>5, <1>6

\* Chains along links that agree on what they pass end at the same place.
LEMMA EndOfSame ==
    ASSUME NEW next, NEW other, NEW S, S \subseteq Nat,
           S \subseteq DOMAIN next, S \subseteq DOMAIN other,
           \A n \in S : next[n] = other[n] /\ next[n] \in S \cup {0},
           NEW e \in S
    PROVE  EndOf(next, e) = EndOf(other, e) /\ EndOf(next, e) \in S
  <1> DEFINE F(n) == EndOf(next, n)
             G(n) == EndOf(other, n)
             Bad == {n \in S : ~(F(n) = G(n) /\ F(n) \in S)}
  <1> SUFFICES ASSUME Bad # {} PROVE FALSE OBVIOUS
  <1>1. Bad \subseteq Nat OBVIOUS
  <1>2. PICK n \in Bad : \A m \in Bad : n <= m
    <2> HIDE DEF Bad
    <2> QED BY <1>1, LeastNat
  <1>3. n \in S /\ n \in Nat OBVIOUS
  <1>4. F(n) = IF next[n] \in 1 .. (n - 1) THEN F(next[n]) ELSE n
    BY <1>3, EndOfDef
  <1>5. G(n) = IF next[n] \in 1 .. (n - 1) THEN G(next[n]) ELSE n
    BY <1>3, EndOfDef
  <1> HIDE DEF F, G
  <1>6. next[n] \in 1 .. (n - 1) BY <1>3, <1>4, <1>5
  <1>7. next[n] \in S /\ next[n] \notin Bad
    <2>1. next[n] \in S BY <1>3, <1>6
    <2>2. next[n] \in Nat /\ next[n] < n BY <1>3, <1>6
    <2> HIDE DEF Bad
    <2> QED BY <1>1, <1>2, <2>1, <2>2
  <1> QED BY <1>3, <1>4, <1>5, <1>6, <1>7

\* A function table whose thunks of known functions stay among them, below.
ThunksOK(fn) ==
    /\ Known \subseteq DOMAIN fn
    /\ \A e \in Known : fn[e].thunk \in Known \cup {0} /\ fn[e].thunk < e

\* A function with a name of its own shows it.
LEMMA ShownOwn ==
    ASSUME NEW fn, NEW e \in Nat, e \in DOMAIN fn, fn[e].src # "default"
    PROVE  Shown(fn, e) = fn[e].name
  <1>1. Unnamed(fn)[e] = 0 BY DEF Unnamed
  <1>2. EndOf(Unnamed(fn), e) = e BY <1>1, EndOfDef
  <1> QED BY <1>2 DEF Shown

\* One without shows what its target shows.
LEMMA ShownThunk ==
    ASSUME NEW fn, NEW e \in Nat, e \in DOMAIN fn, fn[e].src = "default",
           fn[e].thunk \in 1 .. (e - 1)
    PROVE  Shown(fn, e) = Shown(fn, fn[e].thunk)
  <1>1. Unnamed(fn)[e] = fn[e].thunk /\ e \in DOMAIN Unnamed(fn) BY DEF Unnamed
  <1>2. EndOf(Unnamed(fn), e) = EndOf(Unnamed(fn), fn[e].thunk)
    BY <1>1, EndOfDef
  <1> QED BY <1>2 DEF Shown

\* One that is no thunk either shows the default name.
LEMMA ShownDefault ==
    ASSUME NEW fn, NEW e \in Nat, e \in DOMAIN fn, fn[e].src = "default",
           fn[e].thunk = 0
    PROVE  Shown(fn, e) = Default(e)
  <1>1. Unnamed(fn)[e] = 0 BY DEF Unnamed
  <1>2. EndOf(Unnamed(fn), e) = e BY <1>1, EndOfDef
  <1> QED BY <1>2 DEF Shown

\* What the known functions show depends on them alone.
LEMMA ShownSame ==
    ASSUME NEW fn, NEW gn, ThunksOK(fn), Known \subseteq DOMAIN gn,
           \A e \in Known : fn[e] = gn[e]
    PROVE  \A e \in Known : Shown(fn, e) = Shown(gn, e)
  <1> SUFFICES ASSUME NEW e \in Known PROVE Shown(fn, e) = Shown(gn, e)
    OBVIOUS
  <1> DEFINE f == Unnamed(fn)
             g == Unnamed(gn)
  <1>1. Known \subseteq Nat BY PassAssumption
  <1>2. Known \subseteq DOMAIN f /\ Known \subseteq DOMAIN g
    BY DEF Unnamed, ThunksOK
  <1>3. \A n \in Known : f[n] = g[n] /\ f[n] \in Known \cup {0}
    BY DEF Unnamed, ThunksOK
  <1> HIDE DEF f, g
  <1>4. EndOf(f, e) = EndOf(g, e) /\ EndOf(f, e) \in Known
    BY <1>1, <1>2, <1>3, EndOfSame
  <1> QED BY <1>4 DEF Shown, f, g

-----------------------------------------------------------------------------
(* The inductive invariant.                                                *)

\* What applying the decision of e leaves of it, and what creating e leaves.
RenamedFn(e) ==
    [name |-> NameOf(e).name, src |-> NameOf(e).source, thunk |-> inv[e].thunk]
CreatedFn(e) ==
    [name |-> NameOf(e).name, src |-> NameOf(e).source, thunk |-> 0]

\* The functions and the registry rows once R is renamed and O created.
FunctionsOf(R, O) ==
    [e \in Known \cup O |-> IF e \in O THEN CreatedFn(e)
                            ELSE IF e \in R THEN RenamedFn(e) ELSE Pass1[e]]
RowsOf(R) ==
    [e \in {k \in Known : inv[k].role # "none"} |->
        IF e \in R /\ Transition(e)
        THEN [disp |-> "pass2_owned", primary |-> Request(e)]
        ELSE [disp |-> inv[e].role, primary |-> Original(e)]]

\* What the map asks to create; until a map is complete no function of pass 1
\* shows the name of a created one.
Requested == DOMAIN SymbolMap.requests
FreeNames(O) ==
    \A e \in O : \A k \in Known : NameOf(e).name # Original(k)[1]

ProgramOf(p, R) ==
    /\ p = [fn |-> p.fn, owned |-> p.owned, prop |-> p.prop, reg |-> p.reg]
    /\ p.fn = FunctionsOf(R, p.owned) /\ p.reg = RowsOf(R)
    /\ p.owned \subseteq Requested /\ p.prop \in {"none", "map"}
    /\ p.prop = "none" => FreeNames(p.owned)

\* Without its property a map has renamed nothing, with it everything.
Base(p) == IF p.prop = "map" THEN Renamed ELSE {}

\* What the scripts have established when they set the property.
Settled(p) ==
    p.prop = "map" =>
        /\ \A e \in Known : Verified(p, e)
        /\ ValidAfter(p)
        /\ \A e \in p.owned : \A f \in DOMAIN p.fn \ {e} :
              Shown(p.fn, f) # Shown(p.fn, e)

Active == {"thumb", "symbols", "renames", "export", "exported", "refresh"}

PlanInv ==
    /\ inv \in Inventories
    /\ pc = "plan" => saved.prop = "none" /\ start.prop = "none"
    /\ pc # "plan" => map = SymbolMap

ProjectInv == \A p \in {saved, start} : ProgramOf(p, Base(p)) /\ Settled(p)

RunInv ==
    /\ \E R \in SUBSET Renamed : ProgramOf(prog, R)
    /\ pc \in Active \ {"renames"} => ProgramOf(prog, Base(prog))
    /\ pc = "renames" =>
         /\ queue \subseteq Renamed /\ ProgramOf(prog, Renamed \ queue)
         /\ prog.prop = "map" => queue = {}
    /\ pc \in Active =>
         /\ Settled(prog)
         /\ saved.owned \subseteq prog.owned /\ start.owned = prog.owned
         /\ saved.prop = "map" => start.prop = "map" /\ prog.prop = "map"
    /\ pc \in {"export", "exported", "refresh"} =>
         prog.prop = "map" /\ start.prop = "map"
    /\ pc = "thumb" => prog = saved
    /\ pc = "refresh" => prog = saved

CountInv ==
    pc \in {"symbols", "renames", "export", "exported"} =>
        /\ summary.reapplied = Cardinality(saved.owned)
        /\ summary.created = Cardinality(prog.owned \ saved.owned)

TreeInv ==
    /\ Known \subseteq DOMAIN tree /\ DOMAIN tree \ Known \subseteq saved.owned
    /\ \A e \in DOMAIN tree \ Known : tree[e] = CreatedFn(e)

IInv == TypeOK /\ PlanInv /\ ProjectInv /\ RunInv /\ CountInv /\ TreeInv

-----------------------------------------------------------------------------
(* The plan depends on the inventory and the evidence alone.               *)

LEMMA Frozen ==
    ASSUME UNCHANGED <<inv, evid>>
    PROVE  /\ \A e : Original(e)' = Original(e)
           /\ \A e : NameOf(e)' = NameOf(e)
           /\ Renamed' = Renamed /\ Requested' = Requested
           /\ SymbolMap' = SymbolMap /\ Pass1' = Pass1
           /\ \A e : Transition(e)' = Transition(e)
           /\ \A R, O : FunctionsOf(R, O)' = FunctionsOf(R, O)
           /\ \A R : RowsOf(R)' = RowsOf(R)
           /\ \A e : CreatedFn(e)' = CreatedFn(e)
           /\ \A e : Planned(e)' = Planned(e) /\ Request(e)' = Request(e)
           /\ \A e : SharedThunk(e)' = SharedThunk(e)
  <1>1. Pass1' = Pass1 BY DEF Pass1
  <1>2. ASSUME NEW e PROVE Original(e)' = Original(e) BY <1>1 DEF Original
  <1>3. ASSUME NEW e PROVE RoleOwns(e)' = RoleOwns(e) BY DEF RoleOwns
  <1>4. ASSUME NEW e PROVE Registered(e)' = Registered(e)
    BY <1>2, <1>3 DEF Registered, OwnsName
  <1>5. ASSUME NEW e PROVE Candidate(e)' = Candidate(e)
    <2>1. Found(e)' = Found(e) BY <1>4 DEF Found
    <2>2. HasRole(e)' = HasRole(e) BY DEF HasRole
    <2> QED BY <1>3, <2>1, <2>2 DEF Candidate
  <1>6. ASSUME NEW e PROVE NameOf(e)' = NameOf(e)
    BY <1>5 DEF NameOf
  <1>7. ASSUME NEW e PROVE Differs(e)' = Differs(e) BY <1>2, <1>6 DEF Differs
  <1>8. ASSUME NEW e PROVE Authority(e)' = Authority(e) BY <1>4 DEF Authority
  <1>9. ASSUME NEW e
        PROVE  /\ ExceptionTransition(e)' = ExceptionTransition(e)
               /\ PalTransition(e)' = PalTransition(e)
               /\ Exception(e)' = Exception(e)
    BY <1>6, <1>7, <1>8 DEF ExceptionTransition, PalTransition, Exception
  <1>10. ASSUME NEW e PROVE Transition(e)' = Transition(e)
    BY <1>9 DEF Transition
  <1>11. ASSUME NEW e PROVE Authorized(e)' = Authorized(e)
    BY <1>9 DEF Authorized
  <1>12. Renamed' = Renamed BY <1>7, <1>11 DEF Renamed
  <1>13. ASSUME NEW e PROVE MirrorOf(e)' = MirrorOf(e) BY <1>12 DEF MirrorOf
  <1>14. ASSUME NEW e PROVE Request(e)' = Request(e) BY <1>6 DEF Request
  <1>15. ASSUME NEW e PROVE Planned(e)' = Planned(e)
    BY <1>2, <1>6, <1>9, <1>10, <1>12, <1>13, <1>14 DEF Planned
  <1>16. SymbolMap' = SymbolMap BY <1>6, <1>14, <1>15 DEF SymbolMap
  <1>17. Requested' = Requested BY <1>16 DEF Requested
  <1>18. ASSUME NEW e
         PROVE  RenamedFn(e)' = RenamedFn(e) /\ CreatedFn(e)' = CreatedFn(e)
    BY <1>6 DEF RenamedFn, CreatedFn
  <1>19. ASSUME NEW R, NEW O PROVE FunctionsOf(R, O)' = FunctionsOf(R, O)
    BY <1>1, <1>18 DEF FunctionsOf
  <1>20. ASSUME NEW R PROVE RowsOf(R)' = RowsOf(R)
    BY <1>2, <1>10, <1>14 DEF RowsOf
  <1>21. ASSUME NEW e PROVE SharedThunk(e)' = SharedThunk(e)
    BY <1>13 DEF SharedThunk
  <1> QED
    BY <1>1, <1>2, <1>6, <1>10, <1>12, <1>14, <1>15, <1>16, <1>17, <1>18, <1>19,
       <1>20, <1>21

LEMMA FrozenProgram ==
    ASSUME UNCHANGED <<inv, evid>>
    PROVE  /\ \A p, R : ProgramOf(p, R)' <=> ProgramOf(p, R)
           /\ \A p : Base(p)' = Base(p)
           /\ UNCHANGED map => \A p : Settled(p)' <=> Settled(p)
  <1>1. \A p, R : ProgramOf(p, R)' <=> ProgramOf(p, R)
    BY Frozen DEF ProgramOf, FreeNames
  <1>2. \A p : Base(p)' = Base(p) BY Frozen DEF Base
  <1>3. ASSUME UNCHANGED map, NEW p PROVE Settled(p)' <=> Settled(p)
    <2>1. \A e : Decision(e)' = Decision(e) /\ Creations' = Creations
      BY <1>3 DEF Decision, Creations
    <2>2. \A e : Original(e)' = Original(e) BY Frozen
    <2>3. \A e : Verified(p, e)' <=> Verified(p, e) BY <2>1, <2>2 DEF Verified
    <2>4. Transitioned(p)' = Transitioned(p) BY DEF Transitioned
    <2>5. Transitions' = Transitions BY <2>1 DEF Transitions
    <2>6. OwnershipHolds(p)' <=> OwnershipHolds(p)
      BY <1>3, <2>1 DEF OwnershipHolds
    <2>7. RegistriesHold(p)' <=> RegistriesHold(p) BY DEF RegistriesHold
    <2>8. ValidAfter(p)' <=> ValidAfter(p)
      BY <2>4, <2>5, <2>6, <2>7 DEF ValidAfter
    <2> QED BY <2>3, <2>8 DEF Settled
  <1> QED BY <1>1, <1>2, <1>3

-----------------------------------------------------------------------------
(* What the planner decides.                                               *)

LEMMA InventoryFacts ==
    ASSUME inv \in Inventories, NEW e \in Known
    PROVE  /\ e \in Nat /\ e > 0 /\ e \notin Fresh
           /\ inv[e].src \in {"default", "analysis", "imported"}
           /\ inv[e].role \in Roles
           /\ inv[e].role \in {"exc_owned", "pal_owned"} => inv[e].src = "analysis"
           /\ inv[e].thunk \in Known \cup {0} /\ inv[e].thunk < e
           /\ Pass1[e].src = inv[e].src /\ Pass1[e].thunk = inv[e].thunk
           /\ Pass1[e].name[2] \in Nat
  <1>1. e \in Nat /\ e > 0 /\ e \notin Fresh BY PassAssumption
  <1>2. /\ Pass1[e].src = inv[e].src /\ Pass1[e].thunk = inv[e].thunk
        /\ Pass1[e].name \in {<<"role", e>>, Default(e), <<inv[e].stem, 0>>}
    BY DEF Pass1
  <1>3. Pass1[e].name[2] \in Nat BY <1>1, <1>2 DEF Default
  <1> QED BY <1>1, <1>2, <1>3, InventoryAssumption

\* The names the planner proposes: the strongest claim's, by rank.
LEMMA NameFacts ==
    ASSUME NEW e \in Entries
    PROVE  /\ NameOf(e).source \in {"user_defined", "analysis"}
           /\ NameOf(e).name[2] \in Nat
           /\ Found(e) # "none" => /\ NameOf(e).source = Recovered
                                   /\ NameOf(e).name[1] = Found(e)
           /\ Found(e) = "none" /\ RoleOwns(e) =>
                /\ NameOf(e).source = Recovered
                /\ NameOf(e).name = <<"role", e>>
           /\ Found(e) = "none" /\ ~HasRole(e) /\ evid[e].startup # "none" =>
                /\ NameOf(e).source = Recovered
                /\ NameOf(e).name[1] = evid[e].startup
  <1> DEFINE c == Candidate(e)
  <1>1. e \in Nat BY PassAssumption DEF Entries
  <1>2. RoleOwns(e) => HasRole(e) BY DEF RoleOwns, HasRole
  <1>3. /\ c.source \in {"user_defined", "analysis"} /\ c.name[2] \in Nat
        /\ c = [name |-> c.name, source |-> c.source]
        /\ Found(e) # "none" => c.source = Recovered /\ c.name = <<Found(e), 0>>
        /\ Found(e) = "none" /\ RoleOwns(e) =>
             c.source = Recovered /\ c.name = <<"role", e>>
        /\ Found(e) = "none" /\ ~HasRole(e) /\ evid[e].startup # "none" =>
             c.source = Recovered /\ c.name = <<evid[e].startup, 0>>
    BY <1>1, <1>2 DEF Candidate, Recovered, Provisional, None
  <1>4. \/ NameOf(e) = c
        \/ NameOf(e) = [c EXCEPT !.name = <<c.name[1], e>>]
    BY DEF NameOf
  <1> HIDE DEF c
  <1>5. CASE NameOf(e) = c BY <1>3, <1>5
  <1>6. CASE NameOf(e) = [c EXCEPT !.name = <<c.name[1], e>>]
    <2>1. NameOf(e).source = c.source /\ NameOf(e).name = <<c.name[1], e>>
      BY <1>3, <1>6
    <2> QED BY <1>1, <1>3, <2>1
  <1> QED BY <1>4, <1>5, <1>6

\* An authority over exception roles is also the name that the firmware gives.
LEMMA AuthorityFound ==
    ASSUME NEW e, Authority(e)
    PROVE  Found(e) # "none" /\ Found(e) \in {evid[e].func, evid[e].reg}
  BY DEF Authority, Found, Registered

\* Who is renamed, and how.
LEMMA RenamedFacts ==
    ASSUME inv \in Inventories, NEW e \in Renamed
    PROVE  /\ e \in Known /\ NameOf(e).name # Original(e)[1]
           /\ inv[e].src \in {"default", "analysis"}
           /\ inv[e].role # "exc_kept"
           /\ Transition(e) <=> inv[e].role \in {"exc_owned", "pal_owned"}
           /\ RoleOwns(e) => Found(e) # "none"
           /\ inv[e].role = "exc_owned" => Authority(e)
  <1>1. e \in Known /\ Differs(e) /\ Authorized(e) BY DEF Renamed
  <1>2. NameOf(e).name # Original(e)[1] BY <1>1 DEF Differs
  <1>3. inv[e].role # "exc_kept" /\ inv[e].src \in {"default", "analysis"}
    BY <1>1, InventoryFacts
       DEF Authorized, ExceptionTransition, PalTransition, Exception
  <1>4. RoleOwns(e) => Found(e) # "none"
    <2> SUFFICES ASSUME RoleOwns(e), Found(e) = "none" PROVE FALSE OBVIOUS
    <2>1. NameOf(e).name = <<"role", e>>
      BY <1>1, NameFacts DEF Entries
    <2>2. e \in Nat /\ e \in DOMAIN Pass1 /\ Pass1[e].src # "default"
          /\ Pass1[e].name = <<"role", e>>
      BY <1>1, InventoryFacts DEF RoleOwns, Pass1
    <2>3. Original(e)[1] = <<"role", e>>
      BY <2>2, ShownOwn DEF Original, Primary
    <2> QED BY <1>2, <2>1, <2>3
  <1>5. inv[e].role = "exc_owned" => Transition(e)
    BY <1>1 DEF Transition, Authorized, Exception, PalTransition
  <1>6. inv[e].role = "pal_owned" => Transition(e)
    <2> SUFFICES ASSUME inv[e].role = "pal_owned" PROVE PalTransition(e)
      BY DEF Transition
    <2>1. RoleOwns(e) BY <1>1 DEF RoleOwns
    <2>2. NameOf(e).source = Recovered
      BY <1>1, <1>4, <2>1, NameFacts DEF Entries
    <2> QED BY <1>1, <2>2 DEF PalTransition
  <1>7. Transition(e) => inv[e].role \in {"exc_owned", "pal_owned"}
    BY DEF Transition, ExceptionTransition, PalTransition
  <1>8. inv[e].role = "exc_owned" => Authority(e)
    BY <1>1 DEF Authorized, Exception, ExceptionTransition, PalTransition
  <1> QED BY <1>1, <1>2, <1>3, <1>4, <1>5, <1>6, <1>7, <1>8

\* The decisions and creations of the map.
LEMMA MapFacts ==
    ASSUME map = SymbolMap
    PROVE  /\ \A e \in Known : Decision(e) = Planned(e)
           /\ Creations = Requested /\ Requested \subseteq Fresh
           /\ \A e \in Requested :
                /\ map.requests[e] = Request(e)
                /\ \A k \in Known : Planned(k).final[1] # NameOf(e).name
                /\ \A f \in Requested \ {e} : NameOf(f).name # NameOf(e).name
  BY DEF SymbolMap, Decision, Creations, Requested

LEMMA PlannedFacts ==
    ASSUME inv \in Inventories, NEW e \in Known
    PROVE  /\ e \in Renamed =>
                /\ Planned(e).action = "rename" /\ Planned(e).final = Request(e)
                /\ Planned(e).transition = Transition(e)
           /\ e \notin Renamed =>
                /\ Planned(e).action \in {"mirror", "preserve"}
                /\ ~Planned(e).transition
                /\ Planned(e).final[2] = inv[e].src
                /\ Planned(e).action = "preserve" => Planned(e).final = Original(e)
                /\ Planned(e).action = "preserve" =>
                     Exception(e) \/ MirrorOf(e) = 0
                /\ Planned(e).action = "mirror" =>
                     MirrorOf(e) # 0
                     /\ Planned(e).final[1] = NameOf(MirrorOf(e)).name
           /\ Original(e)[2] = inv[e].src
           /\ Original(e) = <<Original(e)[1], Original(e)[2]>>
           /\ Planned(e).final = <<Planned(e).final[1], Planned(e).final[2]>>
  <1>1. /\ Original(e)[2] = inv[e].src
        /\ Original(e) = <<Original(e)[1], Original(e)[2]>>
    BY InventoryFacts DEF Original, Primary
  <1>2. /\ Request(e) = <<Request(e)[1], Request(e)[2]>> BY DEF Request
  <1> QED BY <1>1, <1>2 DEF Planned

-----------------------------------------------------------------------------
(* Programs with a set of names applied.                                   *)

LEMMA RequestedFresh == Requested \subseteq Fresh
  BY DEF Requested, SymbolMap

LEMMA Programs ==
    ASSUME inv \in Inventories, NEW p, NEW R \in SUBSET Renamed, ProgramOf(p, R)
    PROVE  /\ p.owned \subseteq Fresh /\ p.owned \cap Known = {}
           /\ DOMAIN p.fn = Known \cup p.owned
           /\ \A e \in Known :
                /\ p.fn[e] = IF e \in R THEN RenamedFn(e) ELSE Pass1[e]
                /\ p.fn[e].thunk = inv[e].thunk
           /\ \A e \in p.owned :
                p.fn[e] = CreatedFn(e) /\ Shown(p.fn, e) = NameOf(e).name
                /\ Primary(p.fn, e) = Request(e)
           /\ ThunksOK(p.fn)
           /\ \A e \in R :
                Shown(p.fn, e) = NameOf(e).name /\ p.fn[e].src = NameOf(e).source
  <1>1. p.fn = FunctionsOf(R, p.owned) /\ p.owned \subseteq Requested
    BY Zenon DEF ProgramOf
  <1>2. p.owned \subseteq Fresh /\ p.owned \cap Known = {}
    BY <1>1, RequestedFresh, PassAssumption
  <1>3. DOMAIN p.fn = Known \cup p.owned BY <1>1 DEF FunctionsOf
  <1>4. ASSUME NEW e \in Known
        PROVE  /\ p.fn[e] = IF e \in R THEN RenamedFn(e) ELSE Pass1[e]
               /\ p.fn[e].thunk = inv[e].thunk
    <2>1. p.fn[e] = IF e \in R THEN RenamedFn(e) ELSE Pass1[e]
      BY <1>1, <1>2 DEF FunctionsOf
    <2>2. RenamedFn(e).thunk = inv[e].thunk BY DEF RenamedFn
    <2>3. Pass1[e].thunk = inv[e].thunk BY InventoryFacts
    <2> QED BY <2>1, <2>2, <2>3
  <1>5. ASSUME NEW e \in p.owned
        PROVE  /\ p.fn[e] = CreatedFn(e) /\ Shown(p.fn, e) = NameOf(e).name
               /\ Primary(p.fn, e) = Request(e)
    <2>1. p.fn[e] = CreatedFn(e) BY <1>1 DEF FunctionsOf
    <2>2. p.fn[e].name = NameOf(e).name /\ p.fn[e].src = NameOf(e).source
      BY <2>1 DEF CreatedFn
    <2>3. e \in Entries /\ e \in Nat /\ e \in DOMAIN p.fn
      BY <1>2, <1>3, PassAssumption DEF Entries
    <2>4. NameOf(e).source # "default" BY <2>3, NameFacts
    <2>5. Shown(p.fn, e) = NameOf(e).name BY <2>2, <2>3, <2>4, ShownOwn
    <2> QED BY <2>1, <2>2, <2>5 DEF Primary, Request
  <1>6. ThunksOK(p.fn)
    BY <1>3, <1>4, InventoryFacts DEF ThunksOK
  <1>7. ASSUME NEW e \in R
        PROVE  Shown(p.fn, e) = NameOf(e).name /\ p.fn[e].src = NameOf(e).source
    <2>1. e \in Known /\ e \in Nat /\ e \in Entries /\ e \in DOMAIN p.fn
      BY <1>3, RenamedFacts, PassAssumption DEF Entries
    <2>2. p.fn[e] = RenamedFn(e) BY <1>4, <1>7, <2>1
    <2>3. p.fn[e].name = NameOf(e).name /\ p.fn[e].src = NameOf(e).source
      BY <2>2 DEF RenamedFn
    <2>4. NameOf(e).source # "default" BY <2>1, NameFacts
    <2> QED BY <2>1, <2>3, <2>4, ShownOwn
  <1> QED BY <1>2, <1>3, <1>4, <1>5, <1>6, <1>7

\* The ownership registry of the created functions agrees with the map.
LEMMA OwnershipOK ==
    ASSUME inv \in Inventories, map = SymbolMap,
           NEW p, NEW R \in SUBSET Renamed, ProgramOf(p, R)
    PROVE  OwnershipHolds(p)
  <1>1. p.owned \subseteq Requested BY Zenon DEF ProgramOf
  <1>2. /\ Creations = Requested /\ Requested \subseteq Fresh
        /\ \A e \in Requested : map.requests[e] = Request(e)
    BY MapFacts
  <1>3. /\ DOMAIN p.fn = Known \cup p.owned
        /\ \A e \in p.owned : Primary(p.fn, e) = Request(e)
    BY Programs
  <1> QED BY <1>1, <1>2, <1>3, PassAssumption DEF OwnershipHolds

\* Before any renaming the registries and the primaries are those of pass 1.
LEMMA BeforeRenames ==
    ASSUME inv \in Inventories, NEW p, ProgramOf(p, {})
    PROVE  /\ \A e \in Known : /\ p.fn[e] = Pass1[e]
                               /\ Primary(p.fn, e) = Original(e)
                               /\ Shown(p.fn, e) = Original(e)[1]
           /\ RegistriesHold(p) /\ Transitioned(p) = {}
           /\ \A e \in Known : Disposition(p, e) = inv[e].role
  <1>1. /\ ThunksOK(p.fn) /\ Known \subseteq DOMAIN p.fn
        /\ \A e \in Known : p.fn[e] = Pass1[e]
    BY Programs
  <1>2. Known \subseteq DOMAIN Pass1 BY DEF Pass1
  <1>3. \A e \in Known : Shown(p.fn, e) = Shown(Pass1, e)
    BY <1>1, <1>2, ShownSame
  <1>4. \A e \in Known : /\ Primary(p.fn, e) = Original(e)
                         /\ Shown(p.fn, e) = Original(e)[1]
    BY <1>1, <1>3 DEF Original, Primary
  <1>5. p.reg = RowsOf({}) BY Zenon DEF ProgramOf
  <1>6. /\ DOMAIN p.reg = {k \in Known : inv[k].role # "none"}
        /\ \A e \in DOMAIN p.reg : /\ p.reg[e].disp = inv[e].role
                                   /\ p.reg[e].primary = Original(e)
    BY <1>5 DEF RowsOf
  <1>7. RegistriesHold(p) BY <1>4, <1>6 DEF RegistriesHold
  <1>8. Transitioned(p) = {} BY <1>6 DEF Transitioned
  <1>9. \A e \in Known : Disposition(p, e) = inv[e].role
    BY <1>6 DEF Disposition
  <1> QED BY <1>1, <1>4, <1>7, <1>8, <1>9

\* More functions, of the same names: the known ones look the same.
LEMMA ProgramsGrow ==
    ASSUME inv \in Inventories, NEW R \in SUBSET Renamed,
           NEW p, ProgramOf(p, R), NEW q, ProgramOf(q, R), p.owned \subseteq q.owned
    PROVE  /\ \A e \in DOMAIN p.fn : e \in DOMAIN q.fn /\ q.fn[e] = p.fn[e]
           /\ \A e \in Known : Shown(q.fn, e) = Shown(p.fn, e)
  <1>1. /\ ThunksOK(q.fn) /\ Known \subseteq DOMAIN p.fn
        /\ DOMAIN p.fn = Known \cup p.owned /\ DOMAIN q.fn = Known \cup q.owned
    BY Programs
  <1>2. \A e \in Known : q.fn[e] = p.fn[e]
    <2> TAKE e \in Known
    <2>1. p.fn[e] = IF e \in R THEN RenamedFn(e) ELSE Pass1[e] BY Programs
    <2>2. q.fn[e] = IF e \in R THEN RenamedFn(e) ELSE Pass1[e] BY Programs
    <2> QED BY <2>1, <2>2
  <1>3. \A e \in p.owned : q.fn[e] = p.fn[e]
    <2> TAKE e \in p.owned
    <2>1. p.fn[e] = CreatedFn(e) BY Programs
    <2>2. e \in q.owned OBVIOUS
    <2>3. q.fn[e] = CreatedFn(e) BY <2>2, Programs
    <2> QED BY <2>1, <2>3
  <1>4. \A e \in Known : Shown(q.fn, e) = Shown(p.fn, e)
    BY <1>1, <1>2, ShownSame
  <1> QED BY <1>1, <1>2, <1>3, <1>4

-----------------------------------------------------------------------------
(* What the scripts find.                                                  *)

LEMMA RenamedKnown == Renamed \subseteq Known
  BY DEF Renamed

LEMMA BaseRenamed == ASSUME NEW p PROVE Base(p) \in SUBSET Renamed
  BY DEF Base

\* A settled project passes the checks that come before any change.
LEMMA ValidBeforeOK ==
    ASSUME inv \in Inventories, map = SymbolMap,
           NEW p, ProgramOf(p, Base(p)), Settled(p)
    PROVE  ValidBefore(p)
  <1>1. p.prop \in {"none", "map"} BY DEF ProgramOf
  <1>2. CASE p.prop = "map"
    <2>1. ValidAfter(p) BY <1>2 DEF Settled
    <2> QED BY <1>2, <2>1 DEF ValidAfter, ValidBefore
  <1>3. CASE p.prop = "none"
    <2>1. ProgramOf(p, {}) BY <1>3 DEF Base
    <2>2. RegistriesHold(p) /\ Transitioned(p) = {} BY <2>1, BeforeRenames
    <2>3. OwnershipHolds(p) BY BaseRenamed, OwnershipOK
    <2> QED BY <1>3, <2>2, <2>3 DEF ValidBefore
  <1> QED BY <1>1, <1>2, <1>3

\* So do the decisions that are authorized over it.
LEMMA AcceptsOK ==
    ASSUME inv \in Inventories, map = SymbolMap,
           NEW p, ProgramOf(p, Base(p)), Settled(p), NEW e \in Known
    PROVE  Accepts(p, e)
  <1>1. p.prop \in {"none", "map"} BY DEF ProgramOf
  <1>2. Decision(e) = Planned(e) BY MapFacts
  <1>3. CASE p.prop = "none"
    <2>1. ProgramOf(p, {}) BY <1>3 DEF Base
    <2>2. /\ Primary(p.fn, e) = Original(e) /\ p.fn[e] = Pass1[e]
          /\ Disposition(p, e) = inv[e].role
      BY <2>1, BeforeRenames
    <2>3. CASE e \in Renamed
      <3>1. /\ Decision(e).action = "rename" /\ Decision(e).final = Request(e)
            /\ Decision(e).transition = Transition(e)
        BY <1>2, <2>3, PlannedFacts
      <3>2. /\ NameOf(e).name # Original(e)[1]
            /\ inv[e].src \in {"default", "analysis"} /\ inv[e].role # "exc_kept"
            /\ Transition(e) <=> inv[e].role \in {"exc_owned", "pal_owned"}
        BY <2>3, RenamedFacts
      <3>3. ~Applied(p, e) BY <2>2, <3>1, <3>2 DEF Applied, Request
      <3>4. inv[e].role \in {"none", "exc_owned", "pal_owned"}
        BY <3>2, InventoryFacts DEF Roles
      <3>5. p.fn[e].src = inv[e].src BY <2>2, InventoryFacts
      <3> QED BY <2>2, <3>1, <3>2, <3>3, <3>4, <3>5 DEF Accepts
    <2>4. CASE e \notin Renamed
      <3>1. Decision(e).action # "rename" /\ ~Decision(e).transition
        BY <1>2, <2>4, PlannedFacts
      <3> QED BY <2>2, <3>1 DEF Accepts
    <2> QED BY <2>3, <2>4
  <1>4. CASE p.prop = "map"
    <2>1. ProgramOf(p, Renamed) BY <1>4 DEF Base
    <2>2. Verified(p, e) BY <1>4 DEF Settled
    <2>3. Primary(p.fn, e) = <<Shown(p.fn, e), p.fn[e].src>> BY DEF Primary
    <2>4. Decision(e).final = <<Decision(e).final[1], Decision(e).final[2]>>
      BY <1>2, PlannedFacts
    <2>5. CASE e \in Renamed
      <3>1. /\ Decision(e).action = "rename"
            /\ Decision(e).transition = Transition(e)
        BY <1>2, <2>5, PlannedFacts
      <3>2. Applied(p, e) BY <2>2, <2>3, <2>4, <3>1 DEF Applied, Verified
      <3>3. Transition(e) => Disposition(p, e) = "pass2_owned"
        <4> SUFFICES ASSUME Transition(e) PROVE Disposition(p, e) = "pass2_owned"
          OBVIOUS
        <4>1. inv[e].role # "none" BY <2>5, RenamedFacts
        <4>2. p.reg = RowsOf(Renamed) BY <2>1 DEF ProgramOf
        <4> QED BY <2>5, <4>1, <4>2 DEF RowsOf, Disposition
      <3> QED BY <3>1, <3>2, <3>3 DEF Accepts
    <2>6. CASE e \notin Renamed
      <3>1. /\ Decision(e).action # "rename" /\ ~Decision(e).transition
            /\ Decision(e).final[2] = inv[e].src /\ Original(e)[2] = inv[e].src
            /\ Original(e) = <<Original(e)[1], Original(e)[2]>>
        BY <1>2, <2>6, PlannedFacts
      <3>2. Applied(p, e) \/ Primary(p.fn, e) = Original(e)
        BY <2>2, <2>3, <2>4, <3>1 DEF Applied, Verified
      <3> QED BY <3>1, <3>2 DEF Accepts
    <2> QED BY <2>5, <2>6
  <1> QED BY <1>1, <1>3, <1>4

\* The renames that are left to do: all of them the first time, then none.
LEMMA QueueOK ==
    ASSUME inv \in Inventories, map = SymbolMap,
           NEW p, ProgramOf(p, Base(p)), Settled(p)
    PROVE  {e \in Known : /\ Decision(e).action = "rename"
                          /\ Shown(p.fn, e) # Decision(e).final[1]}
             = Renamed \ Base(p)
  <1>1. p.prop \in {"none", "map"} BY DEF ProgramOf
  <1>2. Renamed \subseteq Known BY RenamedKnown
  <1>3. \A e \in Known : /\ Decision(e) = Planned(e)
                         /\ Decision(e).action = "rename" <=> e \in Renamed
    BY MapFacts, PlannedFacts
  <1>4. CASE p.prop = "none"
    <2>1. ProgramOf(p, {}) /\ Base(p) = {} BY <1>4 DEF Base
    <2>2. \A e \in Known : Shown(p.fn, e) = Original(e)[1]
      BY <2>1, BeforeRenames
    <2>3. \A e \in Renamed : Decision(e).final[1] # Original(e)[1]
      BY <1>2, <1>3, PlannedFacts, RenamedFacts DEF Request
    <2> QED BY <1>2, <1>3, <2>1, <2>2, <2>3
  <1>5. CASE p.prop = "map"
    <2>1. Base(p) = Renamed BY <1>5 DEF Base
    <2>2. \A e \in Known : Verified(p, e) BY <1>5 DEF Settled
    <2> QED BY <1>3, <2>1, <2>2 DEF Verified
  <1> QED BY <1>1, <1>4, <1>5

-----------------------------------------------------------------------------
(* What the scripts leave.                                                 *)

\* A settled project stays so when functions with names of their own are added.
LEMMA SettledGrows ==
    ASSUME inv \in Inventories, map = SymbolMap,
           NEW p, ProgramOf(p, Base(p)), Settled(p), NEW O,
           \A e \in O : \A f \in DOMAIN p.fn : NameOf(e).name # Shown(p.fn, f),
           NEW q, ProgramOf(q, Base(q)),
           q.prop = p.prop, q.owned = p.owned \cup O, ValidBefore(q)
    PROVE  Settled(q)
  <1> SUFFICES ASSUME p.prop = "map" PROVE Settled(q) BY DEF Settled
  <1>0. /\ DOMAIN p.fn = Known \cup p.owned /\ p.owned \subseteq q.owned
        /\ Base(p) = Base(q)
    <2>1. DOMAIN p.fn = Known \cup p.owned BY BaseRenamed, Programs
    <2> QED BY <2>1 DEF Base
  <1>1. /\ \A e \in Known : Shown(q.fn, e) = Shown(p.fn, e)
        /\ \A e \in DOMAIN p.fn : e \in DOMAIN q.fn /\ q.fn[e] = p.fn[e]
    BY <1>0, BaseRenamed, ProgramsGrow
  <1>2. \A e \in Known : Verified(q, e)
    BY <1>0, <1>1 DEF Settled, Verified
  <1>3. ValidAfter(q) BY DEF ValidAfter, ValidBefore
  <1>4. ASSUME NEW e \in q.owned, NEW f \in DOMAIN q.fn \ {e}
        PROVE  Shown(q.fn, f) # Shown(q.fn, e)
    <2>1. /\ Shown(q.fn, e) = NameOf(e).name
          /\ f \in q.owned => Shown(q.fn, f) = NameOf(f).name
          /\ DOMAIN q.fn = Known \cup q.owned /\ q.owned \cap Known = {}
      <3>1. /\ \A d \in q.owned : Shown(q.fn, d) = NameOf(d).name
            /\ DOMAIN q.fn = Known \cup q.owned /\ q.owned \cap Known = {}
        <4> DEFINE R == Base(q)
        <4>1. R \in SUBSET Renamed /\ ProgramOf(q, R) BY BaseRenamed
        <4> HIDE DEF R
        <4> QED BY <4>1, Programs
      <3> QED BY <1>4, <3>1
    <2>2. q.owned \subseteq Requested BY DEF ProgramOf
    <2>3. CASE f \in q.owned
      <3>1. NameOf(f).name # NameOf(e).name BY <2>2, <2>3, MapFacts
      <3> QED BY <2>1, <2>3, <3>1
    <2>4. CASE f \in Known
      <3>1. f \in DOMAIN p.fn /\ Shown(q.fn, f) = Shown(p.fn, f)
        BY <1>0, <1>1, <2>4
      <3>2. CASE e \in O BY <2>1, <3>1, <3>2
      <3>3. CASE e \in p.owned
        <4>1. Shown(p.fn, e) = NameOf(e).name BY <3>3, BaseRenamed, Programs
        <4>2. f # e BY <1>4
        <4>3. Shown(p.fn, f) # Shown(p.fn, e)
          BY <3>1, <3>3, <4>2 DEF Settled
        <4> QED BY <2>1, <3>1, <4>1, <4>3
      <3> QED BY <3>2, <3>3
    <2> QED BY <2>1, <2>3, <2>4
  <1> QED BY <1>2, <1>3, <1>4 DEF Settled

\* The created functions have names of their own.
LEMMA CreateOK ==
    ASSUME inv \in Inventories, map = SymbolMap,
           NEW p, ProgramOf(p, Base(p)), Settled(p),
           NEW O \in SUBSET Requested,
           \A e \in O : \A f \in DOMAIN p.fn : NameOf(e).name # Shown(p.fn, f),
           NEW q, q = [p EXCEPT
                        !.fn = [f \in DOMAIN p.fn \cup O |->
                                  IF f \in O THEN Created(f) ELSE p.fn[f]],
                        !.owned = @ \cup O],
           ValidBefore(q)
    PROVE  /\ ProgramOf(q, Base(q)) /\ Settled(q)
           /\ q.prop = p.prop /\ q.owned = p.owned \cup O
  <1>1. /\ p = [fn |-> p.fn, owned |-> p.owned, prop |-> p.prop, reg |-> p.reg]
        /\ p.fn = FunctionsOf(Base(p), p.owned) /\ p.reg = RowsOf(Base(p))
        /\ p.owned \subseteq Requested /\ p.prop \in {"none", "map"}
        /\ p.prop = "none" => FreeNames(p.owned)
    BY DEF ProgramOf
  <1> DEFINE g == [f \in DOMAIN p.fn \cup O |->
                     IF f \in O THEN Created(f) ELSE p.fn[f]]
  <1>2. /\ q = [fn |-> g, owned |-> p.owned \cup O, prop |-> p.prop, reg |-> p.reg]
    BY <1>1
  <1>3. /\ q.fn = g /\ q.owned = p.owned \cup O /\ q.prop = p.prop
        /\ q.reg = p.reg /\ Base(q) = Base(p)
        /\ q = [fn |-> q.fn, owned |-> q.owned, prop |-> q.prop, reg |-> q.reg]
    BY <1>2 DEF Base
  <1>4. DOMAIN p.fn = Known \cup p.owned /\ O \cap Known = {}
    BY Programs, BaseRenamed, RequestedFresh, PassAssumption
  <1>5. q.fn = FunctionsOf(Base(q), q.owned)
    <2>1. \A f \in O : Created(f) = CreatedFn(f)
      BY MapFacts DEF Created, CreatedFn, Request
    <2> DEFINE h == FunctionsOf(Base(q), q.owned)
    <2>2. DOMAIN q.fn = Known \cup q.owned /\ q.fn = [f \in DOMAIN q.fn |-> q.fn[f]]
      BY <1>3, <1>4
    <2>3. DOMAIN h = Known \cup q.owned /\ h = [f \in DOMAIN h |-> h[f]]
      BY DEF FunctionsOf
    <2>4. ASSUME NEW f \in Known \cup q.owned PROVE q.fn[f] = h[f]
      <3>1. CASE f \in O BY <1>3, <2>1, <3>1 DEF FunctionsOf
      <3>2. CASE f \notin O
        <4>1. f \in DOMAIN p.fn /\ (f \in p.owned <=> f \in q.owned)
          BY <1>3, <1>4, <3>2
        <4>2. q.fn[f] = FunctionsOf(Base(p), p.owned)[f]
          BY <1>1, <1>3, <3>2, <4>1
        <4> QED BY <1>3, <1>4, <4>1, <4>2 DEF FunctionsOf
      <3> QED BY <3>1, <3>2
    <2> HIDE DEF h
    <2>5. q.fn = h BY <2>2, <2>3, <2>4
    <2> QED BY <2>5 DEF h
  <1>6. q.prop = "none" => FreeNames(q.owned)
    <2> SUFFICES ASSUME p.prop = "none" PROVE FreeNames(q.owned) BY <1>3
    <2>1. ProgramOf(p, {}) BY DEF Base
    <2>2. \A k \in Known : Shown(p.fn, k) = Original(k)[1]
      BY <2>1, BeforeRenames
    <2> QED BY <1>1, <1>3, <1>4, <2>2 DEF FreeNames
  <1> HIDE DEF g
  <1>7. ProgramOf(q, Base(q)) BY <1>1, <1>3, <1>5, <1>6 DEF ProgramOf
  <1>8. Settled(q)
    <2> DEFINE o == p.owned \cup O
    <2>1. q.owned = o /\ q.prop = p.prop BY <1>3
    <2> HIDE DEF o
    <2> QED BY <1>3, <1>7, SettledGrows
  <1> QED BY <1>3, <1>7, <1>8

\* p with the decision of e applied.
RenamedIn(p, e) ==
    [p EXCEPT
        !.fn[e].name = Decision(e).final[1],
        !.fn[e].src = Decision(e).final[2],
        !.reg = IF Decision(e).transition
                THEN [@ EXCEPT ![e] = [disp    |-> "pass2_owned",
                                       primary |-> Decision(e).final]]
                ELSE @]

\* One more name applied.
LEMMA RenameOK ==
    ASSUME inv \in Inventories, map = SymbolMap,
           NEW R \in SUBSET Renamed, NEW p, ProgramOf(p, R),
           NEW e \in Renamed, e \notin R,
           NEW q, q = RenamedIn(p, e)
    PROVE  ProgramOf(q, R \cup {e}) /\ q.prop = p.prop /\ q.owned = p.owned
  <1>1. /\ p = [fn |-> p.fn, owned |-> p.owned, prop |-> p.prop, reg |-> p.reg]
        /\ p.fn = FunctionsOf(R, p.owned) /\ p.reg = RowsOf(R)
        /\ p.owned \subseteq Requested /\ p.prop \in {"none", "map"}
        /\ p.prop = "none" => FreeNames(p.owned)
    BY DEF ProgramOf
  <1>2. /\ e \in Known /\ Decision(e).final = Request(e)
        /\ Decision(e).transition = Transition(e)
        /\ Transition(e) => inv[e].role # "none"
    BY RenamedFacts, PlannedFacts, MapFacts
  <1> DEFINE r == IF Decision(e).transition
                  THEN [p.reg EXCEPT ![e] = [disp    |-> "pass2_owned",
                                             primary |-> Decision(e).final]]
                  ELSE p.reg
             g == [p.fn EXCEPT ![e] =
                     [p.fn[e] EXCEPT !.name = Decision(e).final[1],
                                     !.src = Decision(e).final[2]]]
  <1>3. e \in DOMAIN p.fn /\ p.fn[e] = Pass1[e] /\ e \notin p.owned
        /\ DOMAIN p.fn = Known \cup p.owned
    BY <1>2, Programs
  <1>4. q.fn = g /\ q.reg = r /\ q.owned = p.owned /\ q.prop = p.prop
        /\ q = [fn |-> g, owned |-> p.owned, prop |-> p.prop, reg |-> r]
    BY <1>1, <1>3 DEF RenamedIn
  <1>5. g[e] = RenamedFn(e)
    <2>1. /\ Pass1[e] = [name |-> Pass1[e].name, src |-> Pass1[e].src,
                         thunk |-> inv[e].thunk]
      BY <1>2 DEF Pass1
    <2>2. Decision(e).final[1] = NameOf(e).name
          /\ Decision(e).final[2] = NameOf(e).source
      BY <1>2 DEF Request
    <2>3. g[e] = [Pass1[e] EXCEPT !.name = NameOf(e).name, !.src = NameOf(e).source]
      BY <1>3, <2>2
    <2> DEFINE n == Pass1[e].name
               c == Pass1[e].src
    <2>4. Pass1[e] = [name |-> n, src |-> c, thunk |-> inv[e].thunk] BY <2>1
    <2> DEFINE t == inv[e].thunk
               a == NameOf(e).name
               b == NameOf(e).source
    <2> HIDE DEF n, c, t, a, b, g
    <2>5. [[name |-> n, src |-> c, thunk |-> t] EXCEPT !.name = a, !.src = b]
            = [name |-> a, src |-> b, thunk |-> t]
      <3>1. [[name |-> n, src |-> c, thunk |-> t] EXCEPT !.name = a]
              = [name |-> a, src |-> c, thunk |-> t]
        OBVIOUS
      <3>2. [[name |-> a, src |-> c, thunk |-> t] EXCEPT !.src = b]
              = [name |-> a, src |-> b, thunk |-> t]
        OBVIOUS
      <3> QED BY <3>1, <3>2, Zenon
    <2>6. g[e] = [name |-> a, src |-> b, thunk |-> t]
      BY <2>3, <2>4, <2>5, Zenon DEF a, b, t
    <2> QED BY <2>6 DEF RenamedFn, a, b, t
  <1>6. g = FunctionsOf(R \cup {e}, p.owned)
    <2>1. DOMAIN g = Known \cup p.owned /\ \A f \in DOMAIN g : f # e => g[f] = p.fn[f]
      BY <1>3
    <2>2. g = [f \in Known \cup p.owned |-> g[f]] BY <2>1
    <2>3. \A f \in Known \cup p.owned :
            f # e => g[f] = IF f \in p.owned THEN CreatedFn(f)
                            ELSE IF f \in R THEN RenamedFn(f) ELSE Pass1[f]
      BY <1>1, <2>1 DEF FunctionsOf
    <2> HIDE DEF g
    <2> QED BY <1>3, <1>5, <2>2, <2>3 DEF FunctionsOf
  <1>7. r = RowsOf(R \cup {e})
    <2> DEFINE D == {k \in Known : inv[k].role # "none"}
    <2>1. DOMAIN r = D /\ \A f \in D : f # e => r[f] = RowsOf(R)[f]
      BY <1>1 DEF RowsOf
    <2>2. e \in D => r[e] = RowsOf(R \cup {e})[e]
      BY <1>1, <1>2 DEF RowsOf
    <2>3. \A f \in D : f # e => RowsOf(R)[f] = RowsOf(R \cup {e})[f]
      BY DEF RowsOf
    <2>4. DOMAIN RowsOf(R \cup {e}) = D BY DEF RowsOf
    <2>5. r = [f \in D |-> r[f]]
          /\ RowsOf(R \cup {e}) = [f \in D |-> RowsOf(R \cup {e})[f]]
      <3>1. r = [f \in DOMAIN r |-> r[f]] BY <1>1 DEF RowsOf
      <3>2. RowsOf(R \cup {e}) = [f \in DOMAIN RowsOf(R \cup {e}) |->
                                    RowsOf(R \cup {e})[f]]
        BY DEF RowsOf
      <3> HIDE DEF r, D
      <3> QED BY <2>1, <2>4, <3>1, <3>2
    <2> HIDE DEF r, D
    <2>6. \A f \in D : r[f] = RowsOf(R \cup {e})[f] BY <2>1, <2>2, <2>3
    <2> QED BY <2>5, <2>6
  <1> HIDE DEF g, r
  <1> QED BY <1>1, <1>4, <1>6, <1>7 DEF ProgramOf

\* The property is set over a complete map.
LEMMA FinishOK ==
    ASSUME inv \in Inventories, map = SymbolMap,
           NEW p, ProgramOf(p, Renamed), Settled(p),
           ValidAfter(p), \A e \in Known : Verified(p, e),
           NEW q, q = [p EXCEPT !.prop = "map"]
    PROVE  /\ ProgramOf(q, Base(q)) /\ Settled(q)
           /\ q.prop = "map" /\ q.owned = p.owned
  <1>1. /\ p = [fn |-> p.fn, owned |-> p.owned, prop |-> p.prop, reg |-> p.reg]
        /\ p.fn = FunctionsOf(Renamed, p.owned) /\ p.reg = RowsOf(Renamed)
        /\ p.owned \subseteq Requested /\ p.prop \in {"none", "map"}
        /\ p.prop = "none" => FreeNames(p.owned)
    BY DEF ProgramOf
  <1>2. /\ q = [fn |-> p.fn, owned |-> p.owned, prop |-> "map", reg |-> p.reg]
    BY <1>1
  <1>3. /\ q.fn = p.fn /\ q.owned = p.owned /\ q.prop = "map" /\ q.reg = p.reg
        /\ q = [fn |-> q.fn, owned |-> q.owned, prop |-> q.prop, reg |-> q.reg]
    BY <1>2
  <1>4. Base(q) = Renamed BY <1>3 DEF Base
  <1>5. ProgramOf(q, Base(q)) BY <1>1, <1>3, <1>4 DEF ProgramOf
  <1>6. \A e \in Known : Verified(q, e) BY <1>3 DEF Verified
  <1>7. ValidAfter(q)
    BY <1>3 DEF ValidAfter, RegistriesHold, OwnershipHolds, Transitioned
  <1>8. ASSUME NEW e \in p.owned, NEW f \in DOMAIN p.fn \ {e}
        PROVE  Shown(p.fn, f) # Shown(p.fn, e)
    <2>1. CASE p.prop = "map" BY <1>8, <2>1 DEF Settled
    <2>2. CASE p.prop = "none"
      <3>1. /\ Shown(p.fn, e) = NameOf(e).name
            /\ f \in p.owned => Shown(p.fn, f) = NameOf(f).name
            /\ DOMAIN p.fn = Known \cup p.owned
        BY Programs
      <3>2. CASE f \in p.owned
        <4>1. NameOf(f).name # NameOf(e).name BY <1>1, <3>2, MapFacts
        <4> QED BY <3>1, <3>2, <4>1
      <3>3. CASE f \in Known
        <4>1. Decision(f).final[1] # NameOf(e).name
          BY <1>1, <3>3, MapFacts
        <4>2. Original(f)[1] # NameOf(e).name
          BY <1>1, <2>2, <3>3 DEF FreeNames
        <4>3. Shown(p.fn, f) \in {Decision(f).final[1], Original(f)[1]}
          BY <3>3 DEF Verified
        <4> QED BY <3>1, <4>1, <4>2, <4>3
      <3> QED BY <3>1, <3>2, <3>3
    <2> QED BY <1>1, <2>1, <2>2
  <1> QED BY <1>3, <1>5, <1>6, <1>7, <1>8 DEF Settled

-----------------------------------------------------------------------------
(* The invariant holds at the start and is kept by every step.             *)

LEMMA ProgramType ==
    ASSUME inv \in Inventories, NEW p, NEW R \in SUBSET Renamed, ProgramOf(p, R)
    PROVE  IsProgram(p)
  <1>1. /\ p.owned \subseteq Fresh /\ DOMAIN p.fn = Known \cup p.owned
        /\ \A e \in Known : p.fn[e] = IF e \in R THEN RenamedFn(e) ELSE Pass1[e]
        /\ \A e \in p.owned : p.fn[e] = CreatedFn(e)
    BY Programs
  <1>2. ASSUME NEW e \in DOMAIN p.fn PROVE IsFunction(p.fn[e])
    <2>1. e \in Entries BY <1>1, <1>2 DEF Entries
    <2>2. \/ p.fn[e] = RenamedFn(e) \/ p.fn[e] = CreatedFn(e)
          \/ e \in Known /\ p.fn[e] = Pass1[e]
      <3>1. CASE e \in p.owned BY <1>1, <3>1
      <3>2. CASE e \in R BY <1>1, <3>2, RenamedKnown
      <3>3. CASE e \in Known /\ e \notin R BY <1>1, <3>3
      <3> QED BY <1>1, <1>2, <3>1, <3>2, <3>3
    <2>3. IsFunction(RenamedFn(e)) /\ IsFunction(CreatedFn(e))
      BY <2>1, NameFacts DEF RenamedFn, CreatedFn, IsFunction
    <2>4. e \in Known => IsFunction(Pass1[e])
      BY InventoryFacts DEF IsFunction
    <2> QED BY <2>2, <2>3, <2>4
  <1>3. p.prop \in {"none", "map"} /\ p.reg = RowsOf(R) BY DEF ProgramOf
  <1>4. DOMAIN p.reg \subseteq Known BY <1>3 DEF RowsOf
  <1> QED BY <1>1, <1>2, <1>3, <1>4 DEF IsProgram, Entries

LEMMA ImportedOK ==
    ProgramOf(Imported, {}) /\ Imported.prop = "none" /\ Imported.owned = {}
  <1>1. /\ Imported.fn = Pass1 /\ Imported.owned = {} /\ Imported.prop = "none"
        /\ Imported = [fn |-> Imported.fn, owned |-> Imported.owned,
                       prop |-> Imported.prop, reg |-> Imported.reg]
    BY DEF Imported
  <1>2. Pass1 = FunctionsOf({}, {}) BY DEF FunctionsOf, Pass1
  <1>3. Imported.reg = RowsOf({}) BY DEF Imported, RowsOf
  <1> QED BY <1>1, <1>2, <1>3 DEF ProgramOf, FreeNames

\* TypeOK without the programs, whose types follow from what they are.
ControlOK ==
    /\ pc \in Active \cup {"plan", "idle"}
    /\ queue # {} => pc = "renames"
    /\ refresh \in {"none", "ok", "rejected"} /\ runs \in 0 .. MaxRuns

LEMMA TypeFollows ==
    ControlOK /\ PlanInv /\ ProjectInv /\ RunInv => TypeOK
  <1> SUFFICES ASSUME ControlOK, PlanInv, ProjectInv, RunInv PROVE TypeOK
    OBVIOUS
  <1>1. inv \in Inventories BY DEF PlanInv
  <1>2. IsProgram(prog) BY <1>1, ProgramType DEF RunInv
  <1>3. IsProgram(saved) /\ IsProgram(start)
    BY <1>1, BaseRenamed, ProgramType DEF ProjectInv
  <1>4. queue \subseteq Known /\ \A e \in queue : Decision(e).action = "rename"
    <2>1. CASE queue = {} BY <2>1
    <2>2. CASE queue # {}
      <3>1. pc = "renames" /\ queue \subseteq Renamed /\ map = SymbolMap
        BY <2>2 DEF ControlOK, RunInv, PlanInv
      <3>2. \A e \in queue : e \in Known /\ Decision(e) = Planned(e)
        BY <3>1, RenamedKnown, MapFacts
      <3> QED BY <1>1, <3>1, <3>2, PlannedFacts
    <2> QED BY <2>1, <2>2
  <1> QED BY <1>2, <1>3, <1>4 DEF TypeOK, ControlOK, Active

LEMMA TypeControls == ASSUME TypeOK PROVE ControlOK
  BY DEF TypeOK, ControlOK, Active

LEMMA InitIInv == ASSUME Init PROVE IInv
  <1>1. /\ inv \in Inventories /\ pc = "plan" /\ prog = Imported
        /\ saved = Imported /\ start = Imported /\ tree = Imported.fn
        /\ queue = {} /\ refresh = "none" /\ runs = 0
    BY DEF Init
  <1>2. ProgramOf(Imported, {}) /\ Imported.prop = "none" /\ Imported.owned = {}
    BY ImportedOK
  <1>3. ControlOK BY <1>1, PassAssumption DEF ControlOK
  <1>4. PlanInv BY <1>1, <1>2 DEF PlanInv
  <1>5. Base(Imported) = {} /\ Settled(Imported)
    BY <1>2 DEF Base, Settled
  <1>6. ProjectInv BY <1>1, <1>2, <1>5 DEF ProjectInv
  <1>7. RunInv BY <1>1, <1>2 DEF RunInv, Active
  <1>8. CountInv BY <1>1 DEF CountInv
  <1>9. DOMAIN tree = Known BY <1>1 DEF Imported, Pass1
  <1>10. TreeInv BY <1>9 DEF TreeInv
  <1>11. TypeOK BY <1>3, <1>4, <1>6, <1>7, TypeFollows
  <1> QED BY <1>4, <1>6, <1>7, <1>8, <1>10, <1>11 DEF IInv

\* A step that changes neither the plan nor the map, from what it leaves.
LEMMA StepWorks ==
    ASSUME IInv, UNCHANGED <<inv, evid>>,
           pc = "plan" \/ UNCHANGED map,
           pc' # "plan", map' = SymbolMap, ControlOK',
           \A p \in {saved', start'} : ProgramOf(p, Base(p)) /\ (Settled(p)'),
           RunInv', CountInv',
           \/ UNCHANGED tree /\ saved.owned \subseteq saved'.owned
           \/ tree' = prog.fn /\ saved' = prog
              /\ \E R \in SUBSET Renamed : ProgramOf(prog, R)
    PROVE  IInv'
  <1>1. PlanInv'
    BY Frozen DEF IInv, PlanInv
  <1>2. ProjectInv'
    BY FrozenProgram DEF ProjectInv
  <1>3. TypeOK' BY <1>1, <1>2, TypeFollows, PTL
  <1>4. TreeInv'
    <2>1. \A e : CreatedFn(e)' = CreatedFn(e) BY Frozen
    <2>2. CASE UNCHANGED tree /\ saved.owned \subseteq saved'.owned
      BY <2>1, <2>2 DEF TreeInv, IInv
    <2>3. CASE tree' = prog.fn /\ saved' = prog
               /\ \E R \in SUBSET Renamed : ProgramOf(prog, R)
      <3>1. inv \in Inventories BY DEF IInv, PlanInv
      <3>2. /\ DOMAIN prog.fn = Known \cup prog.owned
            /\ \A e \in prog.owned : prog.fn[e] = CreatedFn(e)
        BY <2>3, <3>1, Programs
      <3>3. DOMAIN tree' = Known \cup saved'.owned BY <2>3, <3>2
      <3>4. \A e \in saved'.owned : tree'[e] = CreatedFn(e)
        BY <2>3, <3>2
      <3> QED BY <2>1, <3>3, <3>4 DEF TreeInv
    <2> QED BY <2>2, <2>3
  <1> QED BY <1>1, <1>2, <1>3, <1>4 DEF IInv

\* The invariant, taken apart where a script works on the program.
LEMMA Here ==
    ASSUME IInv
    PROVE  /\ inv \in Inventories /\ ControlOK
           /\ pc # "plan" => map = SymbolMap
           /\ ProgramOf(saved, Base(saved)) /\ Settled(saved)
           /\ ProgramOf(start, Base(start)) /\ Settled(start)
           /\ pc \in Active => Settled(prog)
           /\ pc \in Active \ {"renames"} => ProgramOf(prog, Base(prog))
           /\ pc = "renames" =>
                queue \subseteq Renamed /\ ProgramOf(prog, Renamed \ queue)
  BY TypeControls DEF IInv, PlanInv, ProjectInv, RunInv

LEMMA PlanMapOK == ASSUME IInv, PlanMap PROVE IInv'
  <1>1. /\ pc = "plan" /\ map' = SymbolMap /\ pc' = "idle"
        /\ UNCHANGED <<inv, evid, prog, saved, start, queue, tree, refresh, runs>>
    BY DEF PlanMap
  <1>2. ControlOK' BY <1>1, Here DEF ControlOK
  <1>3. saved.prop = "none" /\ start.prop = "none"
    BY <1>1 DEF IInv, PlanInv
  <1>4. \A p \in {saved', start'} : ProgramOf(p, Base(p)) /\ (Settled(p)')
    BY <1>1, <1>3, Here DEF Settled
  <1>5. RunInv'
    <2>1. PICK R \in SUBSET Renamed : ProgramOf(prog, R) BY DEF IInv, RunInv
    <2>2. R \in SUBSET Renamed' /\ ProgramOf(prog, R)'
      BY <1>1, <2>1, Frozen, FrozenProgram
    <2> QED BY <1>1, <2>2 DEF RunInv, Active
  <1>6. CountInv' BY <1>1 DEF CountInv
  <1> QED BY <1>1, <1>2, <1>4, <1>5, <1>6, StepWorks

LEMMA LaunchOK == ASSUME IInv, Launch PROVE IInv'
  <1>1. /\ pc = "idle" /\ runs < MaxRuns /\ runs' = runs + 1
        /\ prog' = saved /\ start' = saved /\ pc' = "thumb"
        /\ UNCHANGED <<inv, evid, map, saved, queue, tree, refresh>>
    BY DEF Launch
  <1>2. ControlOK' BY <1>1, Here, PassAssumption DEF ControlOK, Active
  <1>3. map' = SymbolMap BY <1>1, Here
  <1>4. \A p \in {saved', start'} : ProgramOf(p, Base(p)) /\ (Settled(p)')
    BY <1>1, Here, FrozenProgram
  <1>5. RunInv'
    <2>1. ProgramOf(prog, Base(prog))' /\ Settled(prog)'
      BY <1>1, Here, FrozenProgram
    <2>2. Base(prog)' \in SUBSET Renamed'
      BY <1>1, BaseRenamed, Frozen, FrozenProgram
    <2> QED BY <1>1, <2>1, <2>2 DEF RunInv, Active
  <1>6. CountInv' BY <1>1 DEF CountInv
  <1> QED BY <1>1, <1>2, <1>3, <1>4, <1>5, <1>6, StepWorks

LEMMA ApplyThumbNamesOK == ASSUME IInv, ApplyThumbNames PROVE IInv'
  <1>1. /\ pc = "thumb" /\ pc' = "symbols" /\ start' = prog'
        /\ prog' = [prog EXCEPT
                     !.fn = [f \in DOMAIN prog.fn \cup ToCreate |->
                               IF f \in ToCreate THEN Created(f) ELSE prog.fn[f]],
                     !.owned = @ \cup ToCreate]
        /\ ValidBefore(prog')
        /\ summary' = [created   |-> Cardinality(ToCreate),
                       reapplied |-> Cardinality(Reapplied),
                       skipped   |-> Cardinality(Skipped)]
        /\ UNCHANGED <<inv, evid, map, saved, queue, tree, refresh, runs>>
    BY DEF ApplyThumbNames
  <1>2. /\ inv \in Inventories /\ map = SymbolMap
        /\ ProgramOf(prog, Base(prog)) /\ Settled(prog)
        /\ prog = saved
    BY <1>1, Here DEF IInv, RunInv, Active
  <1>3. /\ Creations = Requested
        /\ \A e \in Requested : map.requests[e] = Request(e)
    BY <1>2, MapFacts
  <1>4. /\ ToCreate \in SUBSET Requested /\ ToCreate \cap prog.owned = {}
        /\ Reapplied = prog.owned
    <2>1. prog.owned \subseteq Requested BY <1>2 DEF ProgramOf
    <2> QED BY <1>3, <2>1 DEF ToCreate, Reapplied
  <1>5. \A e \in ToCreate : \A f \in DOMAIN prog.fn :
           NameOf(e).name # Shown(prog.fn, f)
    <2> TAKE e \in ToCreate
    <2>1. map.requests[e][1] \notin NamesInProgram
      BY <1>3 DEF ToCreate, Skipped
    <2>2. map.requests[e][1] = NameOf(e).name BY <1>3, <1>4 DEF Request
    <2> QED BY <2>1, <2>2 DEF NamesInProgram
  <1>6. /\ ProgramOf(prog', Base(prog')) /\ Settled(prog')
        /\ prog'.prop = prog.prop /\ prog'.owned = prog.owned \cup ToCreate
    <2> DEFINE O == ToCreate
               p == prog
               q == prog'
    <2>1. /\ ProgramOf(p, Base(p)) /\ Settled(p) /\ O \in SUBSET Requested
          /\ \A e \in O : \A f \in DOMAIN p.fn : NameOf(e).name # Shown(p.fn, f)
          /\ ValidBefore(q)
      BY <1>1, <1>2, <1>4, <1>5
    <2>2. q = [p EXCEPT !.fn = [f \in DOMAIN p.fn \cup O |->
                                  IF f \in O THEN Created(f) ELSE p.fn[f]],
                        !.owned = @ \cup O]
      BY <1>1
    <2> HIDE DEF O, p, q
    <2>3. /\ ProgramOf(q, Base(q)) /\ Settled(q)
          /\ q.prop = p.prop /\ q.owned = p.owned \cup O
      BY <1>2, <2>1, <2>2, CreateOK
    <2> QED BY <2>3 DEF O, p, q
  <1>7. ControlOK' BY <1>1, Here DEF ControlOK, Active
  <1>8. \A p \in {saved', start'} : ProgramOf(p, Base(p)) /\ (Settled(p)')
    BY <1>1, <1>6, Here, FrozenProgram
  <1>9. RunInv'
    <2>1. ProgramOf(prog, Base(prog))' /\ Settled(prog)'
      BY <1>1, <1>6, FrozenProgram
    <2>2. Base(prog)' \in SUBSET Renamed'
      BY <1>1, BaseRenamed, Frozen, FrozenProgram
    <2>3. /\ saved'.owned \subseteq prog'.owned /\ start'.owned = prog'.owned
          /\ saved'.prop = "map" => start'.prop = "map" /\ prog'.prop = "map"
      BY <1>1, <1>2, <1>6
    <2> QED BY <1>1, <2>1, <2>2, <2>3 DEF RunInv, Active
  <1>10. CountInv'
    <2>1. ToCreate = prog'.owned \ saved'.owned /\ Reapplied = saved'.owned
      BY <1>1, <1>2, <1>4, <1>6
    <2>2. /\ summary'.created = Cardinality(ToCreate)
          /\ summary'.reapplied = Cardinality(Reapplied)
      BY <1>1
    <2> QED BY <2>1, <2>2 DEF CountInv
  <1> QED BY <1>1, <1>2, <1>7, <1>8, <1>9, <1>10, Frozen, StepWorks

LEMMA AuthorizeSymbolsOK == ASSUME IInv, AuthorizeSymbols PROVE IInv'
  <1>1. /\ pc = "symbols" /\ pc' = "renames"
        /\ queue' = {e \in Known : /\ Decision(e).action = "rename"
                                   /\ Shown(prog.fn, e) # Decision(e).final[1]}
        /\ UNCHANGED <<inv, evid, map, prog, saved, start, summary, tree,
                       refresh, runs>>
    BY DEF AuthorizeSymbols
  <1>2. /\ inv \in Inventories /\ map = SymbolMap
        /\ ProgramOf(prog, Base(prog)) /\ Settled(prog)
    BY <1>1, Here DEF Active
  <1>3. queue' = Renamed \ Base(prog) BY <1>1, <1>2, QueueOK
  <1>4. Renamed \ queue' = Base(prog) BY <1>3, BaseRenamed
  <1>5. ControlOK' BY <1>1, Here DEF ControlOK, Active
  <1>6. \A p \in {saved', start'} : ProgramOf(p, Base(p)) /\ (Settled(p)')
    BY <1>1, Here, FrozenProgram
  <1>7. RunInv'
    <2>1. ProgramOf(prog', Renamed \ queue') BY <1>1, <1>2, <1>4
    <2>2. ProgramOf(prog, Renamed \ queue)' BY <1>1, <2>1, Frozen, FrozenProgram
    <2>3. Settled(prog)' BY <1>1, <1>2, FrozenProgram
    <2>4. queue' \subseteq Renamed' BY <1>1, <1>3, Frozen
    <2>5. prog'.prop = "map" => queue' = {} BY <1>1, <1>3 DEF Base
    <2>6. \E R \in SUBSET Renamed' : ProgramOf(prog, R)'
      BY <2>2
    <2> QED BY <1>1, <2>2, <2>3, <2>4, <2>5, <2>6 DEF IInv, RunInv, Active
  <1>8. CountInv' BY <1>1 DEF IInv, CountInv
  <1> QED BY <1>1, <1>2, <1>5, <1>6, <1>7, <1>8, Frozen, StepWorks

LEMMA RenameOneOK == ASSUME IInv, RenameOne PROVE IInv'
  <1>1. PICK e \in queue :
          /\ pc = "renames"
          /\ prog' = [prog EXCEPT
                !.fn[e].name = Decision(e).final[1],
                !.fn[e].src = Decision(e).final[2],
                !.reg = IF Decision(e).transition
                        THEN [@ EXCEPT ![e] = [disp    |-> "pass2_owned",
                                               primary |-> Decision(e).final]]
                        ELSE @]
          /\ queue' = queue \ {e}
          /\ UNCHANGED <<inv, evid, map, saved, start, pc, summary, tree,
                         refresh, runs>>
    BY DEF RenameOne
  <1>2. /\ inv \in Inventories /\ map = SymbolMap /\ queue \subseteq Renamed
        /\ ProgramOf(prog, Renamed \ queue) /\ prog.prop # "map"
    BY <1>1, Here DEF IInv, RunInv
  <1>3. /\ ProgramOf(prog', Renamed \ queue') /\ prog'.prop = prog.prop
        /\ prog'.owned = prog.owned
    <2> DEFINE R == Renamed \ queue
               p == prog
               q == prog'
    <2>1. /\ R \in SUBSET Renamed /\ e \in Renamed /\ e \notin R
          /\ ProgramOf(p, R) /\ R \cup {e} = Renamed \ queue'
      BY <1>1, <1>2
    <2>2. q = RenamedIn(p, e) BY <1>1 DEF RenamedIn
    <2> HIDE DEF R, p, q
    <2>3. ProgramOf(q, R \cup {e}) /\ q.prop = p.prop /\ q.owned = p.owned
      BY <1>2, <2>1, <2>2, RenameOK
    <2> QED BY <2>1, <2>3 DEF p, q
  <1>4. ControlOK' BY <1>1, Here DEF ControlOK, Active
  <1>5. \A p \in {saved', start'} : ProgramOf(p, Base(p)) /\ (Settled(p)')
    BY <1>1, Here, FrozenProgram
  <1>6. RunInv'
    <2>1. ProgramOf(prog, Renamed \ queue)' BY <1>1, <1>3, Frozen, FrozenProgram
    <2>2. Settled(prog)' BY <1>2, <1>3 DEF Settled
    <2>3. queue' \subseteq Renamed' BY <1>1, <1>2, Frozen
    <2>4. \E R \in SUBSET Renamed' : ProgramOf(prog, R)' BY <2>1
    <2> QED
      BY <1>1, <1>2, <1>3, <2>1, <2>2, <2>3, <2>4 DEF IInv, RunInv, Active
  <1>7. CountInv' BY <1>1, <1>3 DEF IInv, CountInv
  <1> QED BY <1>1, <1>2, <1>4, <1>5, <1>6, <1>7, Frozen, StepWorks

LEMMA FinishSymbolsOK == ASSUME IInv, FinishSymbols PROVE IInv'
  <1>1. /\ pc = "renames" /\ queue = {}
        /\ ValidAfter(prog) /\ \A e \in Known : Verified(prog, e)
        /\ prog' = [prog EXCEPT !.prop = "map"]
        /\ pc' = "export" /\ start' = prog'
        /\ UNCHANGED <<inv, evid, map, saved, queue, summary, tree, refresh, runs>>
    BY DEF FinishSymbols
  <1>2. /\ inv \in Inventories /\ map = SymbolMap
        /\ ProgramOf(prog, Renamed \ queue) /\ Settled(prog)
    BY <1>1, Here DEF Active
  <1>3. /\ ProgramOf(prog', Base(prog')) /\ Settled(prog')
        /\ prog'.prop = "map" /\ prog'.owned = prog.owned
    <2> DEFINE p == prog
               q == prog'
    <2>1. /\ ProgramOf(p, Renamed) /\ Settled(p) /\ ValidAfter(p)
          /\ \A e \in Known : Verified(p, e)
      <3>1. Renamed \ queue = Renamed BY <1>1
      <3> QED BY <1>1, <1>2, <3>1
    <2>2. q = [p EXCEPT !.prop = "map"] BY <1>1
    <2> HIDE DEF p, q
    <2>3. /\ ProgramOf(q, Base(q)) /\ Settled(q)
          /\ q.prop = "map" /\ q.owned = p.owned
      BY <1>2, <2>1, <2>2, FinishOK
    <2> QED BY <2>3 DEF p, q
  <1>4. ControlOK' BY <1>1, Here DEF ControlOK, Active
  <1>5. \A p \in {saved', start'} : ProgramOf(p, Base(p)) /\ (Settled(p)')
    BY <1>1, <1>3, Here, FrozenProgram
  <1>6. RunInv'
    <2>1. ProgramOf(prog, Base(prog))' /\ Settled(prog)'
      BY <1>1, <1>3, FrozenProgram
    <2>2. Base(prog)' \in SUBSET Renamed'
      BY <1>1, BaseRenamed, Frozen, FrozenProgram
    <2> QED
      BY <1>1, <1>3, <2>1, <2>2 DEF IInv, RunInv, Active
  <1>7. CountInv' BY <1>1, <1>3 DEF IInv, CountInv
  <1> QED BY <1>1, <1>2, <1>4, <1>5, <1>6, <1>7, Frozen, StepWorks

LEMMA ExportOK == ASSUME IInv, Export PROVE IInv'
  <1>1. /\ pc = "export" /\ prog.prop = "map" /\ pc' = "exported"
        /\ UNCHANGED <<inv, evid, map, prog, saved, start, queue, summary, tree,
                       refresh, runs>>
    BY DEF Export
  <1>2. /\ map = SymbolMap /\ ProgramOf(prog, Base(prog)) /\ Settled(prog)
    BY <1>1, Here DEF Active
  <1>3. ControlOK' BY <1>1, Here DEF ControlOK, Active
  <1>4. \A p \in {saved', start'} : ProgramOf(p, Base(p)) /\ (Settled(p)')
    BY <1>1, Here, FrozenProgram
  <1>5. RunInv'
    <2>1. ProgramOf(prog, Base(prog))' /\ Settled(prog)'
      BY <1>1, <1>2, FrozenProgram
    <2>2. Base(prog)' \in SUBSET Renamed'
      BY <1>1, BaseRenamed, Frozen, FrozenProgram
    <2> QED BY <1>1, <2>1, <2>2 DEF IInv, RunInv, Active
  <1>6. CountInv' BY <1>1 DEF IInv, CountInv
  <1> QED BY <1>1, <1>2, <1>3, <1>4, <1>5, <1>6, Frozen, StepWorks

LEMMA SaveOK == ASSUME IInv, Save PROVE IInv'
  <1>1. /\ pc = "exported" /\ saved' = prog /\ pc' = "refresh"
        /\ UNCHANGED <<inv, evid, map, prog, start, queue, summary, tree,
                       refresh, runs>>
    BY DEF Save
  <1>2. /\ map = SymbolMap /\ ProgramOf(prog, Base(prog)) /\ Settled(prog)
    BY <1>1, Here DEF Active
  <1>3. /\ saved.owned \subseteq prog.owned /\ start.owned = prog.owned
        /\ prog.prop = "map"
    BY <1>1 DEF IInv, RunInv, Active
  <1>4. ControlOK' BY <1>1, Here DEF ControlOK, Active
  <1>5. \A p \in {saved', start'} : ProgramOf(p, Base(p)) /\ (Settled(p)')
    BY <1>1, <1>2, Here, FrozenProgram
  <1>6. RunInv'
    <2>1. ProgramOf(prog, Base(prog))' /\ Settled(prog)'
      BY <1>1, <1>2, FrozenProgram
    <2>2. Base(prog)' \in SUBSET Renamed'
      BY <1>1, BaseRenamed, Frozen, FrozenProgram
    <2>3. start'.prop = "map" BY <1>1 DEF IInv, RunInv, Active
    <2> QED BY <1>1, <1>3, <2>1, <2>2, <2>3 DEF RunInv, Active
  <1>7. CountInv' BY <1>1 DEF CountInv
  <1> QED BY <1>1, <1>2, <1>3, <1>4, <1>5, <1>6, <1>7, Frozen, StepWorks

LEMMA RefreshOK == ASSUME IInv, Refresh PROVE IInv'
  <1>1. /\ pc = "refresh" /\ pc' = "idle"
        /\ refresh' \in {"ok", "rejected"} /\ tree' \in {prog.fn, tree}
        /\ UNCHANGED <<inv, evid, map, prog, saved, start, queue, summary, runs>>
    BY DEF Refresh
  <1>2. /\ map = SymbolMap /\ ProgramOf(prog, Base(prog)) /\ prog = saved
    BY <1>1, Here DEF Active, IInv, RunInv
  <1>3. ControlOK' BY <1>1, Here DEF ControlOK, Active
  <1>4. \A p \in {saved', start'} : ProgramOf(p, Base(p)) /\ (Settled(p)')
    BY <1>1, Here, FrozenProgram
  <1>5. Base(prog) \in SUBSET Renamed BY BaseRenamed
  <1>6. RunInv'
    <2>1. ProgramOf(prog, Base(prog))' /\ Base(prog)' \in SUBSET Renamed'
      BY <1>1, <1>2, <1>5, Frozen, FrozenProgram
    <2> QED BY <1>1, <2>1 DEF RunInv, Active
  <1>7. CountInv' BY <1>1 DEF CountInv
  <1> QED BY <1>1, <1>2, <1>3, <1>4, <1>5, <1>6, <1>7, Frozen, StepWorks

LEMMA ScriptFailsOK == ASSUME IInv, ScriptFails PROVE IInv'
  <1>1. /\ pc \in {"thumb", "symbols", "renames", "export"}
        /\ prog' = start /\ saved' \in {saved, start} /\ pc' = "idle"
        /\ queue' = {}
        /\ UNCHANGED <<inv, evid, map, start, summary, tree, refresh, runs>>
    BY DEF ScriptFails
  <1>2. /\ map = SymbolMap /\ saved.owned \subseteq start.owned
    BY <1>1, Here DEF Active, IInv, RunInv
  <1>3. ControlOK' BY <1>1, Here DEF ControlOK, Active
  <1>4. \A p \in {saved', start'} : ProgramOf(p, Base(p)) /\ (Settled(p)')
    BY <1>1, Here, FrozenProgram
  <1>5. RunInv'
    <2>1. ProgramOf(prog, Base(prog))' BY <1>1, Here, FrozenProgram
    <2>2. Base(prog)' \in SUBSET Renamed'
      BY <1>1, BaseRenamed, Frozen, FrozenProgram
    <2> QED BY <1>1, <2>1, <2>2 DEF RunInv, Active
  <1>6. CountInv' BY <1>1 DEF CountInv
  <1> QED BY <1>1, <1>2, <1>3, <1>4, <1>5, <1>6, Frozen, StepWorks

LEMMA KilledOK == ASSUME IInv, Killed PROVE IInv'
  <1>1. /\ pc \notin {"plan", "idle"} /\ pc' = "idle" /\ queue' = {}
        /\ UNCHANGED <<inv, evid, map, prog, saved, start, summary, tree,
                       refresh, runs>>
    BY DEF Killed
  <1>2. map = SymbolMap BY <1>1, Here
  <1>3. ControlOK' BY <1>1, Here DEF ControlOK
  <1>4. \A p \in {saved', start'} : ProgramOf(p, Base(p)) /\ (Settled(p)')
    BY <1>1, Here, FrozenProgram
  <1>5. RunInv'
    <2>1. PICK R \in SUBSET Renamed : ProgramOf(prog, R) BY DEF IInv, RunInv
    <2>2. R \in SUBSET Renamed' /\ ProgramOf(prog, R)'
      BY <1>1, <2>1, Frozen, FrozenProgram
    <2> QED BY <1>1, <2>2 DEF RunInv, Active
  <1>6. CountInv' BY <1>1 DEF CountInv
  <1> QED BY <1>1, <1>2, <1>3, <1>4, <1>5, <1>6, Frozen, StepWorks

LEMMA StutterOK == ASSUME IInv, UNCHANGED vars PROVE IInv'
  <1>1. /\ UNCHANGED <<inv, evid, map, prog, saved, start, pc, queue, summary,
                       tree, refresh, runs>>
    BY DEF vars
  <1>2. ControlOK' BY <1>1, Here DEF ControlOK
  <1>3. PlanInv' BY <1>1, Frozen DEF IInv, PlanInv
  <1>4. ProjectInv' BY <1>1, Here, FrozenProgram DEF ProjectInv
  <1>5. RunInv'
    <2>1. PICK R \in SUBSET Renamed : ProgramOf(prog, R) BY DEF IInv, RunInv
    <2>2. R \in SUBSET Renamed' /\ ProgramOf(prog, R)'
      BY <1>1, <2>1, Frozen, FrozenProgram
    <2>3. pc' \in Active => Settled(prog)' BY <1>1, Here, FrozenProgram
    <2>4. pc' \in Active \ {"renames"} => ProgramOf(prog, Base(prog))'
      BY <1>1, Here, FrozenProgram
    <2>5. pc' = "renames" =>
            queue' \subseteq Renamed' /\ ProgramOf(prog, Renamed \ queue)'
      BY <1>1, Here, Frozen, FrozenProgram
    <2> QED BY <1>1, <2>2, <2>3, <2>4, <2>5 DEF IInv, RunInv
  <1>6. CountInv' BY <1>1 DEF IInv, CountInv
  <1>7. TreeInv' BY <1>1, Frozen DEF IInv, TreeInv
  <1>8. TypeOK' BY <1>2, <1>3, <1>4, <1>5, TypeFollows, PTL
  <1> QED BY <1>3, <1>4, <1>5, <1>6, <1>7, <1>8 DEF IInv

LEMMA StepIInv == ASSUME IInv, [Next]_vars PROVE IInv'
  <1>1. CASE PlanMap BY <1>1, PlanMapOK
  <1>2. CASE Launch BY <1>2, LaunchOK
  <1>3. CASE ApplyThumbNames BY <1>3, ApplyThumbNamesOK
  <1>4. CASE AuthorizeSymbols BY <1>4, AuthorizeSymbolsOK
  <1>5. CASE RenameOne BY <1>5, RenameOneOK
  <1>6. CASE FinishSymbols BY <1>6, FinishSymbolsOK
  <1>7. CASE Export BY <1>7, ExportOK
  <1>8. CASE Save BY <1>8, SaveOK
  <1>9. CASE Refresh BY <1>9, RefreshOK
  <1>10. CASE ScriptFails BY <1>10, ScriptFailsOK
  <1>11. CASE Killed BY <1>11, KilledOK
  <1>12. CASE Stop \/ UNCHANGED vars BY <1>12, StutterOK DEF Stop
  <1> QED
    BY <1>1, <1>2, <1>3, <1>4, <1>5, <1>6, <1>7, <1>8, <1>9, <1>10, <1>11, <1>12
       DEF Next

\* Every reachable state has a program, a project and a published tree that
\* two sets describe: who is renamed and what is created.
THEOREM Invariance == Spec => []IInv
  <1> QED BY InitIInv, StepIInv, PTL DEF Spec

-----------------------------------------------------------------------------
(* The properties.                                                         *)

\* ProgramOK: the saved project has all names of the map, verified, with its
\* registries and no name given twice, or exactly the names of pass 1.
THEOREM SavedAllOrNothing == Spec => []ProgramOK
  <1>1. IInv => ProgramOK
    <2> SUFFICES ASSUME IInv PROVE ProgramOK OBVIOUS
    <2>1. inv \in Inventories /\ ProgramOf(saved, Base(saved)) /\ Settled(saved)
      BY Here
    <2>2. CASE saved.prop = "map"
      BY <2>1, <2>2 DEF ProgramOK, SavedIsAllOrNothing, Settled, IInv
    <2>3. CASE saved.prop # "map"
      <3>1. ProgramOf(saved, {}) BY <2>1, <2>3 DEF Base
      <3>2. RegistriesHold(saved) /\ \A e \in Known : saved.fn[e] = Pass1[e]
        BY <2>1, <3>1, BeforeRenames
      <3> QED BY <2>3, <3>2 DEF ProgramOK, SavedIsAllOrNothing, IInv
    <2> QED BY <2>2, <2>3
  <1> QED BY <1>1, Invariance, PTL

\* NamesKeepTheirRank: at no moment, not even between two renames, does a
\* name of the firmware or of a role yield to a weaker one.
THEOREM RanksHold == Spec => []NamesKeepTheirRank
  <1>1. IInv => NamesKeepTheirRank
    <2> DEFINE Is(f, S) == prog.fn[f].name[1] \in S \ {"none"}
    <2> SUFFICES
          ASSUME IInv, NEW e \in Known, prog.fn[e] # Pass1[e]
          PROVE  /\ inv[e].src # "imported" /\ inv[e].role # "exc_kept"
                 /\ evid[e].func # "none" => Is(e, {evid[e].func})
                 /\ inv[e].role = "exc_owned" =>
                      Is(e, {evid[e].func, evid[e].reg})
                 /\ evid[e].ss # "none" \/ inv[e].role = "pal_owned" =>
                      Is(e, {evid[e].func, evid[e].reg, evid[e].ss})
                 /\ evid[e].startup # "none" =>
                      Is(e, {evid[e].func, evid[e].reg, evid[e].ss,
                             evid[e].startup})
                 /\ prog.fn[e].src = Provisional =>
                      /\ evid[e].func = "none" /\ evid[e].ss = "none"
                      /\ evid[e].startup = "none"
      BY DEF NamesKeepTheirRank
    <2>1. inv \in Inventories BY Here
    <2>2. PICK R \in SUBSET Renamed : ProgramOf(prog, R) BY DEF IInv, RunInv
    <2>3. e \in R /\ prog.fn[e] = RenamedFn(e)
      <3>1. prog.fn[e] = IF e \in R THEN RenamedFn(e) ELSE Pass1[e]
        BY <2>1, <2>2, Programs
      <3> QED BY <3>1
    <2>4. /\ prog.fn[e].name = NameOf(e).name
          /\ prog.fn[e].src = NameOf(e).source
      BY <2>3 DEF RenamedFn
    <2>5. /\ inv[e].src \in {"default", "analysis"} /\ inv[e].role # "exc_kept"
          /\ RoleOwns(e) => Found(e) # "none"
          /\ inv[e].role = "exc_owned" => Authority(e)
          /\ inv[e].role \in Roles
      BY <2>1, <2>3, RenamedFacts, InventoryFacts
    <2>6. /\ HasRole(e) => RoleOwns(e)
          /\ inv[e].role = "pal_owned" => RoleOwns(e)
      BY <2>5 DEF HasRole, RoleOwns, Roles
    <2>7. /\ Found(e) \in {evid[e].func, evid[e].reg, evid[e].ss}
          /\ evid[e].func # "none" => Found(e) = evid[e].func
          /\ evid[e].ss # "none" => Found(e) # "none"
      BY DEF Found, Registered
    <2>8. e \in Entries BY DEF Entries
    <2>9. CASE Found(e) # "none"
      <3>1. prog.fn[e].name[1] = Found(e) /\ prog.fn[e].src # Provisional
        BY <2>4, <2>8, <2>9, NameFacts DEF Recovered, Provisional
      <3>2. inv[e].role = "exc_owned" => Found(e) \in {evid[e].func, evid[e].reg}
        BY <2>5, AuthorityFound
      <3> QED BY <2>5, <2>7, <2>9, <3>1, <3>2
    <2>10. CASE Found(e) = "none"
      <3>1. ~HasRole(e) /\ inv[e].role \notin {"exc_owned", "pal_owned"}
        BY <2>5, <2>6, <2>10 DEF RoleOwns
      <3>2. evid[e].func = "none" /\ evid[e].ss = "none" BY <2>7, <2>10
      <3>3. evid[e].startup # "none" =>
               /\ prog.fn[e].name[1] = evid[e].startup
               /\ prog.fn[e].src # Provisional
        BY <2>4, <2>8, <2>10, <3>1, NameFacts DEF Recovered, Provisional
      <3> QED BY <2>5, <3>1, <3>2, <3>3
    <2> QED BY <2>9, <2>10
  <1> QED BY <1>1, Invariance, PTL

\* ReplayKeepsNames: once a project was saved with the map applied, every
\* later project has it applied, and all functions it had, as they were.
THEOREM ReplaysKeepNames == Spec => ReplayKeepsNames
  <1>1. ASSUME IInv, [Next]_vars, saved.prop = "map"
        PROVE  /\ saved'.prop = "map"
               /\ \A e \in DOMAIN saved.fn : saved'.fn[e] = saved.fn[e]
    <2>1. CASE UNCHANGED saved BY <1>1, <2>1
    <2>2. CASE Save \/ ScriptFails
      <3>1. pc \in Active BY <2>2 DEF Save, ScriptFails, Active
      <3>2. /\ inv \in Inventories /\ ProgramOf(saved, Base(saved))
            /\ ProgramOf(start, Base(start))
            /\ saved.owned \subseteq prog.owned /\ start.owned = prog.owned
            /\ start.prop = "map" /\ prog.prop = "map"
        BY <1>1, <3>1, Here DEF IInv, RunInv
      <3>3. \/ saved' \in {saved, start}
            \/ saved' = prog /\ ProgramOf(prog, Base(prog))
        <4>1. CASE Save
          <5>1. saved' = prog /\ pc \in Active \ {"renames"}
            BY <4>1 DEF Save, Active
          <5> QED BY <1>1, <5>1, Here
        <4>2. CASE ScriptFails
          <5>1. saved' \in {saved, start} BY <4>2 DEF ScriptFails
          <5> QED BY <5>1
        <4> QED BY <2>2, <4>1, <4>2
      <3>4. /\ ProgramOf(saved', Base(saved')) /\ saved'.prop = "map"
            /\ saved.owned \subseteq saved'.owned
        BY <1>1, <3>2, <3>3
      <3>5. ProgramOf(saved, Renamed) /\ ProgramOf(saved', Renamed)
        BY <1>1, <3>2, <3>4 DEF Base
      <3> DEFINE p == saved
                 q == saved'
      <3>6. \A e \in DOMAIN p.fn : e \in DOMAIN q.fn /\ q.fn[e] = p.fn[e]
        <4>1. /\ ProgramOf(p, Renamed) /\ ProgramOf(q, Renamed)
              /\ p.owned \subseteq q.owned
          BY <3>4, <3>5
        <4> HIDE DEF p, q
        <4> QED BY <3>2, <4>1, ProgramsGrow
      <3> QED BY <3>4, <3>6
    <2> QED
      BY <1>1, <2>1, <2>2
         DEF Next, PlanMap, Launch, ApplyThumbNames, AuthorizeSymbols, RenameOne,
             FinishSymbols, Export, Refresh, Killed, Stop, vars
  <1>2. IInv /\ [Next]_vars => [saved.prop = "map" =>
          /\ saved'.prop = "map"
          /\ \A e \in DOMAIN saved.fn : saved'.fn[e] = saved.fn[e]]_vars
    BY <1>1
  <1> QED BY <1>2, Invariance, PTL DEF Spec, ReplayKeepsNames

\* What a function table counts: the created functions in it.
LEMMA Counting ==
    ASSUME NEW fn, NEW T \in SUBSET Creations, T \cap Known = {},
           Creations \cap Known = {}, DOMAIN fn = Known \cup T,
           \A e \in T : Primary(fn, e) = map.requests[e], IsFiniteSet(T)
    PROVE  /\ Exact(fn) = Cardinality(T)
           /\ Size(fn) = Cardinality(Known) + Cardinality(T)
           /\ Cardinality(T) \in Nat /\ Cardinality(Known) \in Nat
  <1>1. {e \in Creations : e \in DOMAIN fn /\ Primary(fn, e) = map.requests[e]} = T
    OBVIOUS
  <1>2. Exact(fn) = Cardinality(T) BY <1>1 DEF Exact
  <1>3. Cardinality(T) \in Nat /\ Cardinality(Known) \in Nat
    BY PassAssumption, FS_CardinalityType
  <1>4. Cardinality(Known \cup T) = Cardinality(Known) + Cardinality(T)
    <2>1. Cardinality(Known \cup T) =
            Cardinality(Known) + Cardinality(T) - Cardinality(Known \cap T)
      BY PassAssumption, FS_Union
    <2>2. Known \cap T = {} OBVIOUS
    <2>3. Cardinality(Known \cap T) = 0 BY <2>2, FS_EmptySet
    <2> QED BY <1>3, <2>1, <2>3
  <1> QED BY <1>2, <1>3, <1>4 DEF Size

\* ExportIsPublishable: the refresh takes an export over exactly if the tree
\* has none or all of the functions that earlier runs created.
THEOREM ExportsPublishable == Spec => []ExportIsPublishable
  <1>1. IInv => ExportIsPublishable
    <2> SUFFICES ASSUME IInv, pc = "exported"
                 PROVE  Accepted <=> DOMAIN tree \in {Known, DOMAIN saved.fn}
      BY DEF ExportIsPublishable
    <2> DEFINE O == prog.owned
               o == saved.owned
               T == DOMAIN tree \ Known
    <2>1. /\ inv \in Inventories /\ map = SymbolMap
          /\ ProgramOf(saved, Base(saved)) /\ ProgramOf(prog, Base(prog))
          /\ o \subseteq O /\ T \subseteq o /\ Known \subseteq DOMAIN tree
          /\ \A e \in T : tree[e] = CreatedFn(e)
          /\ summary.reapplied = Cardinality(o)
          /\ summary.created = Cardinality(O \ o)
      BY Here DEF Active, IInv, RunInv, CountInv, TreeInv
    <2>2. /\ Creations = Requested /\ Requested \subseteq Fresh
          /\ \A e \in Requested : map.requests[e] = Request(e)
      BY <2>1, MapFacts
    <2>3. O \subseteq Creations /\ Creations \cap Known = {} /\ O \cap Known = {}
      BY <2>1, <2>2, PassAssumption DEF ProgramOf
    <2>4. /\ DOMAIN prog.fn = Known \cup O /\ DOMAIN saved.fn = Known \cup o
          /\ \A e \in O : Primary(prog.fn, e) = map.requests[e]
      <3>1. /\ DOMAIN prog.fn = Known \cup O
            /\ \A e \in O : Primary(prog.fn, e) = Request(e)
        BY <2>1, BaseRenamed, Programs
      <3>2. DOMAIN saved.fn = Known \cup o BY <2>1, BaseRenamed, Programs
      <3> QED BY <2>2, <2>3, <3>1, <3>2
    <2>5. /\ DOMAIN tree = Known \cup T
          /\ \A e \in T : Primary(tree, e) = map.requests[e]
      <3>1. ASSUME NEW e \in T PROVE Primary(tree, e) = map.requests[e]
        <4>1. /\ e \in Entries /\ e \in Nat /\ e \in DOMAIN tree
              /\ map.requests[e] = Request(e)
          BY <2>1, <2>2, <2>3, PassAssumption DEF Entries
        <4>2. tree[e].name = NameOf(e).name /\ tree[e].src = NameOf(e).source
          BY <2>1 DEF CreatedFn
        <4>3. tree[e].src # "default" BY <4>1, <4>2, NameFacts
        <4>4. Shown(tree, e) = NameOf(e).name BY <4>1, <4>2, <4>3, ShownOwn
        <4> QED BY <4>1, <4>2, <4>4 DEF Primary, Request
      <3> QED BY <2>1, <3>1
    <2>6. /\ IsFiniteSet(O) /\ IsFiniteSet(o) /\ IsFiniteSet(T)
          /\ IsFiniteSet(O \ o) /\ IsFiniteSet(O \ T)
      <3>1. O \in SUBSET Fresh /\ o \in SUBSET Fresh /\ T \in SUBSET Fresh
            /\ O \ o \in SUBSET Fresh /\ O \ T \in SUBSET Fresh
        BY <2>1, <2>2, <2>3
      <3> QED BY <3>1, PassAssumption, FS_Subset
    <2> HIDE DEF O, o, T
    <2>7. /\ Exact(prog.fn) = Cardinality(O)
          /\ Size(prog.fn) = Cardinality(Known) + Cardinality(O)
          /\ Cardinality(O) \in Nat /\ Cardinality(Known) \in Nat
      BY <2>3, <2>4, <2>6, Counting
    <2>8. /\ Exact(tree) = Cardinality(T)
          /\ Size(tree) = Cardinality(Known) + Cardinality(T)
          /\ Cardinality(T) \in Nat
      <3>1. T \in SUBSET Creations /\ T \cap Known = {} BY <2>1, <2>3
      <3> QED BY <2>3, <2>5, <2>6, <3>1, Counting
    <2>9. /\ Cardinality(o) \in Nat /\ Cardinality(O \ o) \in Nat
          /\ Cardinality(O) = Cardinality(o) + Cardinality(O \ o)
          /\ Cardinality(T) <= Cardinality(o)
          /\ Cardinality(T) = Cardinality(o) <=> T = o
          /\ Cardinality(T) = 0 <=> T = {}
      <3>1. Cardinality(o) \in Nat /\ Cardinality(O \ o) \in Nat
        BY <2>6, FS_CardinalityType
      <3>2. Cardinality(O \ o) = Cardinality(O) - Cardinality(O \cap o)
        BY <2>6, FS_Difference
      <3>3. O \cap o = o BY <2>1
      <3>4. /\ Cardinality(T) <= Cardinality(o)
            /\ Cardinality(o) = Cardinality(T) => o = T
        BY <2>1, <2>6, FS_Subset
      <3>5. Cardinality(T) = 0 <=> T = {} BY <2>6, FS_EmptySet
      <3>6. Cardinality(O \ o) = Cardinality(O) - Cardinality(o)
        BY <3>2, <3>3
      <3>7. Cardinality(O) = Cardinality(o) + Cardinality(O \ o)
        <4> DEFINE nO == Cardinality(O)
                   no == Cardinality(o)
                   nd == Cardinality(O \ o)
        <4>1. nO \in Nat /\ no \in Nat /\ nd = nO - no BY <2>7, <3>1, <3>6
        <4> HIDE DEF nO, no, nd
        <4>2. nO = no + nd BY <4>1
        <4> QED BY <4>2 DEF nO, no, nd
      <3>8. Cardinality(T) = Cardinality(o) <=> T = o BY <3>4
      <3> QED BY <3>1, <3>4, <3>5, <3>7, <3>8
    <2>10. DOMAIN prog.fn \ DOMAIN tree = O \ T
      BY <2>3, <2>4, <2>5
    <2>11. /\ \A e \in O \ T : e \in Creations /\ Primary(prog.fn, e) = map.requests[e]
           /\ DOMAIN tree \subseteq DOMAIN prog.fn
      BY <2>1, <2>3, <2>4, <2>5
    <2>12. FitsAlone(tree, 0, 0) <=> T = {}
      BY <2>7, <2>8, <2>9 DEF FitsAlone
    <2>13. CASE T = {}
      <3>1. O \ T = O BY <2>13
      <3>2. summary.created + summary.reapplied = Cardinality(O) BY <2>1, <2>7, <2>9
      <3>3. FitsAfter(prog.fn, tree, summary.created + summary.reapplied, 0)
        <4> DEFINE n == summary.created + summary.reapplied
        <4>1. n = Cardinality(O) /\ n + 0 = n BY <2>7, <3>2
        <4>2. Cardinality(Known) + n + 0 = Cardinality(Known) + Cardinality(O)
          BY <2>7, <3>2
        <4>3. Cardinality(DOMAIN prog.fn \ DOMAIN tree) = n
          BY <2>10, <3>1, <4>1
        <4>4. \A e \in DOMAIN prog.fn \ DOMAIN tree :
                 e \in Creations /\ Primary(prog.fn, e) = map.requests[e]
          BY <2>10, <2>11
        <4> HIDE DEF n
        <4>5. FitsAfter(prog.fn, tree, n, 0)
          BY <2>7, <2>11, <4>1, <4>2, <4>3, <4>4, Zenon DEF FitsAfter
        <4> QED BY <4>5 DEF n
      <3>4. DOMAIN tree = Known BY <2>5, <2>13
      <3> QED BY <2>12, <2>13, <3>3, <3>4 DEF Accepted
    <2>14. CASE T # {}
      <3>1. FitsAlone(tree, summary.reapplied, 0) <=> T = o
        BY <2>1, <2>7, <2>8, <2>9 DEF FitsAlone
      <3>2. T = o => FitsAfter(prog.fn, tree, summary.created, summary.reapplied)
        BY <2>1, <2>7, <2>9, <2>10, <2>11 DEF FitsAfter
      <3>3. DOMAIN tree \in {Known, DOMAIN saved.fn} <=> T = o
        BY <2>1, <2>3, <2>4, <2>5, <2>14
      <3> QED BY <2>12, <2>14, <3>1, <3>2, <3>3 DEF Accepted
    <2> QED BY <2>13, <2>14
  <1> QED BY <1>1, Invariance, PTL

-----------------------------------------------------------------------------
(* The scripts refuse no map but one with a shared thunk.                  *)

\* The mirror of a thunk: its target when that is renamed, else its target's.
LEMMA MirrorStep ==
    ASSUME inv \in Inventories, NEW e \in Known
    PROVE  /\ inv[e].thunk \in Renamed => MirrorOf(e) = inv[e].thunk
           /\ inv[e].thunk \in Known \ Renamed =>
                MirrorOf(e) = MirrorOf(inv[e].thunk)
  <1> DEFINE kept == [k \in Known |-> IF k \in Renamed THEN 0 ELSE inv[k].thunk]
             M(f) == IF f \in Renamed THEN f ELSE 0
             t == inv[e].thunk
  <1>1. \A d : MirrorOf(d) = M(EndOf(kept, inv[d].thunk)) BY DEF MirrorOf
  <1>2. SUFFICES ASSUME t \in Known
                 PROVE  /\ t \in Renamed => MirrorOf(e) = t
                        /\ t \notin Renamed => MirrorOf(e) = MirrorOf(t)
    BY RenamedKnown
  <1>3. t \in Nat /\ inv[t].thunk \in Known \cup {0} /\ inv[t].thunk < t
    BY <1>2, InventoryFacts
  <1>4. /\ t \in DOMAIN kept
        /\ kept[t] = IF t \in Renamed THEN 0 ELSE inv[t].thunk
    BY <1>2
  <1>5. 0 \notin Renamed BY RenamedKnown, PassAssumption
  <1> HIDE DEF kept
  <1>6. EndOf(kept, t) = IF kept[t] \in 1 .. (t - 1)
                         THEN EndOf(kept, kept[t]) ELSE t
    BY <1>3, <1>4, EndOfDef
  <1>7. CASE t \in Renamed
    <2>1. EndOf(kept, t) = t BY <1>4, <1>6, <1>7
    <2> QED BY <1>1, <1>7, <2>1
  <1>8. CASE t \notin Renamed /\ inv[t].thunk = 0
    <2>1. EndOf(kept, t) = t BY <1>4, <1>6, <1>8
    <2>2. EndOf(kept, 0) = 0
      <3>1. EndOf(kept, 0) = IF 0 \in DOMAIN kept /\ kept[0] \in 1 .. (0 - 1)
                             THEN EndOf(kept, kept[0]) ELSE 0
        BY EndOfDef
      <3>2. 1 .. (0 - 1) = {} OBVIOUS
      <3> QED BY <3>1, <3>2
    <2> QED BY <1>1, <1>5, <1>8, <2>1, <2>2
  <1>9. CASE t \notin Renamed /\ inv[t].thunk # 0
    <2> DEFINE u == inv[t].thunk
    <2>1. u \in Known /\ u < t BY <1>3, <1>9
    <2> HIDE DEF u
    <2>2. u \in Nat /\ u # 0 BY <2>1, PassAssumption
    <2>3. u \in 1 .. (t - 1) BY <1>3, <2>1, <2>2
    <2>4. EndOf(kept, t) = EndOf(kept, u) BY <1>4, <1>6, <1>9, <2>3 DEF u
    <2> QED BY <1>1, <1>9, <2>4 DEF u
  <1> QED BY <1>7, <1>8, <1>9

\* Over all renames a function without a decision of its own shows its name
\* of pass 1, or, when it has none, its renamed target's.
LEMMA NamesDrift ==
    ASSUME inv \in Inventories, NEW p, ProgramOf(p, Renamed),
           NEW e \in Known, e \notin Renamed
    PROVE  \/ Shown(p.fn, e) = Original(e)[1]
           \/ /\ inv[e].src = "default" /\ MirrorOf(e) # 0
              /\ Shown(p.fn, e) = NameOf(MirrorOf(e)).name
  <1> DEFINE Kept(n) == Shown(p.fn, n) = Original(n)[1]
             Drifted(n) == /\ inv[n].src = "default" /\ MirrorOf(n) # 0
                           /\ Shown(p.fn, n) = NameOf(MirrorOf(n)).name
             Bad == {n \in Known \ Renamed : ~Kept(n) /\ ~Drifted(n)}
  <1> SUFFICES ASSUME Bad # {} PROVE FALSE OBVIOUS
  <1>1. Bad \subseteq Nat BY PassAssumption
  <1>2. PICK n \in Bad : \A m \in Bad : n <= m
    <2> HIDE DEF Bad
    <2> QED BY <1>1, LeastNat
  <1>3. n \in Known /\ n \notin Renamed /\ ~Kept(n) /\ ~Drifted(n) OBVIOUS
  <1> HIDE DEF Bad
  <1>4. /\ n \in Nat /\ n > 0
        /\ inv[n].thunk \in Known \cup {0} /\ inv[n].thunk < n
        /\ Pass1[n].src = inv[n].src /\ Pass1[n].thunk = inv[n].thunk
        /\ n \in DOMAIN Pass1
    BY <1>3, InventoryFacts DEF Pass1
  <1>5. n \in DOMAIN p.fn /\ p.fn[n] = Pass1[n]
    <2>1. Renamed \in SUBSET Renamed OBVIOUS
    <2> QED BY <1>3, <2>1, Programs
  <1>6. Original(n)[1] = Shown(Pass1, n) BY DEF Original, Primary
  <1>7. CASE inv[n].src # "default"
    <2>1. Shown(p.fn, n) = p.fn[n].name BY <1>4, <1>5, <1>7, ShownOwn
    <2>2. Shown(Pass1, n) = Pass1[n].name BY <1>4, <1>7, ShownOwn
    <2> QED BY <1>3, <1>5, <1>6, <2>1, <2>2
  <1>8. CASE inv[n].src = "default" /\ inv[n].thunk = 0
    <2>1. Shown(p.fn, n) = Default(n) BY <1>4, <1>5, <1>8, ShownDefault
    <2>2. Shown(Pass1, n) = Default(n) BY <1>4, <1>8, ShownDefault
    <2> QED BY <1>3, <1>6, <2>1, <2>2
  <1>9. CASE inv[n].src = "default" /\ inv[n].thunk # 0
    <2> DEFINE t == inv[n].thunk
    <2>1. t \in Known /\ t \in Nat /\ t < n /\ t \in 1 .. (n - 1)
      <3>1. t \in Known /\ t < n BY <1>4, <1>9
      <3> HIDE DEF t
      <3>2. t \in Nat /\ t # 0 BY <3>1, PassAssumption
      <3> QED BY <1>4, <3>1, <3>2
    <2>2. Shown(p.fn, n) = Shown(p.fn, t) BY <1>4, <1>5, <1>9, <2>1, ShownThunk
    <2>3. Shown(Pass1, n) = Shown(Pass1, t) BY <1>4, <1>9, <2>1, ShownThunk
    <2>4. Original(t)[1] = Shown(Pass1, t) BY DEF Original, Primary
    <2>5. CASE t \in Renamed
      <3>1. Shown(p.fn, t) = NameOf(t).name BY <2>5, Programs
      <3>2. MirrorOf(n) = t BY <1>3, <2>5, MirrorStep
      <3>3. t # 0 BY <1>9
      <3> QED BY <1>3, <1>9, <2>2, <3>1, <3>2, <3>3
    <2>6. CASE t \notin Renamed
      <3>1. MirrorOf(n) = MirrorOf(t) BY <1>3, <2>1, <2>6, MirrorStep
      <3>2. t \notin Bad BY <1>1, <1>2, <2>1
      <3>3. Kept(t) \/ Drifted(t) BY <2>1, <2>6, <3>2 DEF Bad
      <3> QED BY <1>3, <1>6, <1>9, <2>2, <2>3, <2>4, <3>1, <3>3
    <2> QED BY <2>5, <2>6
  <1> QED BY <1>7, <1>8, <1>9

\* Without shared thunks the postflight passes over all renames.
LEMMA FullRename ==
    ASSUME inv \in Inventories, map = SymbolMap, NEW p, ProgramOf(p, Renamed),
           \A e \in Known : ~SharedThunk(e)
    PROVE  ValidAfter(p) /\ \A e \in Known : Verified(p, e)
  <1>1. Renamed \in SUBSET Renamed /\ Renamed \subseteq Known BY RenamedKnown
  <1>2. \A e \in Known : Decision(e) = Planned(e) BY MapFacts
  <1>3. ASSUME NEW e \in Known, e \notin Renamed
        PROVE  /\ p.fn[e].src = inv[e].src
               /\ \/ Shown(p.fn, e) = Original(e)[1]
                  \/ /\ inv[e].src = "default" /\ MirrorOf(e) # 0
                     /\ inv[e].role = "none" \/ inv[e].role = "pal_owned"
                     /\ Shown(p.fn, e) = NameOf(MirrorOf(e)).name
    <2>1. p.fn[e] = Pass1[e] BY <1>1, <1>3, Programs
    <2>2. p.fn[e].src = inv[e].src BY <2>1, InventoryFacts
    <2>3. /\ inv[e].src = "default" => inv[e].role # "exc_owned"
          /\ inv[e].role \in Roles
      BY InventoryFacts
    <2>4. ~(inv[e].role = "exc_kept" /\ inv[e].src = "default" /\ MirrorOf(e) # 0)
      BY DEF SharedThunk
    <2> QED BY <1>3, <2>2, <2>3, <2>4, NamesDrift DEF Roles
  <1>4. ASSUME NEW e \in Renamed PROVE Primary(p.fn, e) = Request(e)
    BY <1>1, Programs DEF Primary, Request
  <1>5. ASSUME NEW e \in Known PROVE Verified(p, e)
    <2>1. CASE e \in Renamed
      <3>1. Decision(e).final = Request(e) BY <1>2, <2>1, PlannedFacts
      <3>2. /\ Shown(p.fn, e) = NameOf(e).name
            /\ p.fn[e].src = NameOf(e).source
        BY <1>1, <2>1, Programs
      <3> QED BY <3>1, <3>2 DEF Verified, Request
    <2>2. CASE e \notin Renamed
      <3>1. /\ Decision(e).action \in {"mirror", "preserve"}
            /\ Decision(e).final[2] = inv[e].src
            /\ Decision(e).action = "preserve" => Decision(e).final = Original(e)
            /\ Decision(e).action = "preserve" => Exception(e) \/ MirrorOf(e) = 0
            /\ Decision(e).action = "mirror" =>
                 Decision(e).final[1] = NameOf(MirrorOf(e)).name
        BY <1>2, <2>2, PlannedFacts
      <3>2. CASE Shown(p.fn, e) = Original(e)[1]
        BY <1>3, <2>2, <3>1, <3>2 DEF Verified
      <3>3. CASE Shown(p.fn, e) # Original(e)[1]
        <4>1. /\ MirrorOf(e) # 0 /\ ~Exception(e)
              /\ Shown(p.fn, e) = NameOf(MirrorOf(e)).name
          BY <1>3, <2>2, <3>3 DEF Exception
        <4>2. Decision(e).action = "mirror" BY <3>1, <4>1
        <4> QED BY <1>3, <2>2, <3>1, <4>1, <4>2 DEF Verified
      <3> QED BY <3>2, <3>3
    <2> QED BY <2>1, <2>2
  <1>6. p.reg = RowsOf(Renamed) BY DEF ProgramOf
  <1>7. /\ DOMAIN p.reg = {k \in Known : inv[k].role # "none"}
        /\ \A e \in DOMAIN p.reg :
             /\ e \in Renamed /\ Transition(e) =>
                  p.reg[e].disp = "pass2_owned" /\ p.reg[e].primary = Request(e)
             /\ ~(e \in Renamed /\ Transition(e)) =>
                  p.reg[e].disp = inv[e].role /\ p.reg[e].primary = Original(e)
    BY <1>6 DEF RowsOf
  <1>8. RegistriesHold(p)
    <2> SUFFICES ASSUME NEW e \in DOMAIN p.reg
                 PROVE  p.reg[e].primary = Primary(p.fn, e)
      BY DEF RegistriesHold
    <2>1. e \in Known /\ inv[e].role # "none" BY <1>7
    <2>2. CASE e \in Renamed
      <3>1. Transition(e) BY <2>1, <2>2, RenamedFacts, InventoryFacts DEF Roles
      <3> QED BY <1>4, <1>7, <2>2, <3>1
    <2>3. CASE e \notin Renamed
      <3>1. inv[e].src = "default" => inv[e].role # "pal_owned"
        BY <2>1, InventoryFacts
      <3>2. Shown(p.fn, e) = Original(e)[1] /\ p.fn[e].src = inv[e].src
        BY <1>3, <2>1, <2>3, <3>1
      <3>3. Original(e) = <<Original(e)[1], inv[e].src>>
        BY <2>1, PlannedFacts
      <3>4. Primary(p.fn, e) = Original(e) BY <3>2, <3>3 DEF Primary
      <3> QED BY <1>7, <2>3, <3>4
    <2> QED BY <2>2, <2>3
  <1>9. Transitioned(p) = Transitions
    <2>1. \A e \in Known : /\ e \in Renamed => (Decision(e).transition = Transition(e))
                           /\ e \notin Renamed => ~Decision(e).transition
      BY <1>2, PlannedFacts
    <2>2. \A e \in DOMAIN p.reg :
             inv[e].role = "exc_owned" =>
                (p.reg[e].disp = "pass2_owned" <=> e \in Renamed /\ Transition(e))
      BY <1>7
    <2>3. \A e \in Known : inv[e].role = "exc_owned" => e \in DOMAIN p.reg
      BY <1>7
    <2>4. \A e \in Known :
             inv[e].role = "exc_owned" =>
                (Decision(e).transition <=> e \in Renamed /\ Transition(e))
      BY <2>1
    <2>5. DOMAIN p.reg \subseteq Known BY <1>7
    <2> QED BY <2>2, <2>3, <2>4, <2>5 DEF Transitioned, Transitions
  <1>10. OwnershipHolds(p) BY <1>1, OwnershipOK
  <1> QED BY <1>5, <1>8, <1>9, <1>10 DEF ValidAfter

\* MapsApplyBarSharedThunks: every map the planner writes passes every check
\* of the scripts, over the imported project and over every saved one, unless
\* an exception entry without a name of its own is a thunk to a renamed one.
THEOREM MapsApply == Spec => []MapsApplyBarSharedThunks
  <1>1. IInv => MapsApplyBarSharedThunks
    <2> SUFFICES ASSUME IInv, \A e \in Known : ~SharedThunk(e) PROVE ~Refused
      BY DEF MapsApplyBarSharedThunks
    <2>1. /\ inv \in Inventories
          /\ pc # "plan" => map = SymbolMap
          /\ pc \in Active => Settled(prog)
          /\ pc \in Active \ {"renames"} => ProgramOf(prog, Base(prog))
          /\ pc = "renames" => ProgramOf(prog, Renamed \ queue)
          /\ pc = "export" => prog.prop = "map"
      BY Here DEF IInv, RunInv
    <2>2. ASSUME pc \in {"thumb", "symbols"}
          PROVE  ValidBefore(prog) /\ \A e \in Known : Accepts(prog, e)
      <3>1. /\ map = SymbolMap /\ ProgramOf(prog, Base(prog)) /\ Settled(prog)
        BY <2>1, <2>2 DEF Active
      <3> DEFINE p == prog
      <3>2. ProgramOf(p, Base(p)) /\ Settled(p) BY <3>1
      <3> HIDE DEF p
      <3>3. ValidBefore(p) BY <2>1, <3>1, <3>2, ValidBeforeOK
      <3>4. \A e \in Known : Accepts(p, e) BY <2>1, <3>1, <3>2, AcceptsOK
      <3> QED BY <3>3, <3>4 DEF p
    <2>3. ASSUME pc = "renames", queue = {}
          PROVE  ValidAfter(prog) /\ \A e \in Known : Verified(prog, e)
      <3>1. Renamed \ queue = Renamed BY <2>3
      <3>2. map = SymbolMap /\ ProgramOf(prog, Renamed) BY <2>1, <2>3, <3>1
      <3> QED BY <2>1, <3>2, FullRename
    <2>4. pc = "export" => prog.prop = "map" /\ ValidAfter(prog)
      BY <2>1 DEF Settled, Active
    <2> QED BY <2>2, <2>3, <2>4 DEF Refused
  <1> QED BY <1>1, Invariance, PTL
=============================================================================
