----------------------------- MODULE GlobalShapes -----------------------------
(***************************************************************************)
(* The shapes of recovered globals (src/src/global_shapes): every accepted *)
(* function is decoded, cut into blocks and tracked by a must-facts        *)
(* fixpoint over its registers; the facts at direct calls seed a second    *)
(* tracking of the callees; what the accesses show is aggregated per       *)
(* global.  Beside the analysis stands the processor that runs the same    *)
(* code, so that what the analysis claims can be compared with what the    *)
(* code does.                                                              *)
(*                                                                         *)
(* Instructions are one address long and of one instruction set; a value   *)
(* is a number up to Top; the width, kind and condition of an access       *)
(* follow from its address and are left out, as are provenance paths in    *)
(* the records and the counters.                                           *)
(***************************************************************************)
EXTENDS Integers, FiniteSets, FiniteSetsExt, SequencesExt

CONSTANTS
    Programs,   \* the programs analysed: code, and the functions found in it
    Recovered,  \* addresses of the recovered globals
    Top         \* the greatest value a register can hold

Regs == {0, 1, 4}       \* two argument registers, one the callee preserves
ArgRegs == 0..3
NoReg == 15

ASSUME RecoveredAssumption == Recovered \subseteq 1..Top /\ Top \in Nat

InsnOK(i) ==
    /\ i.op \in {"set", "add", "access", "kill", "branch", "call", "stop", "bad"}
    /\ i.cond \in BOOLEAN /\ i.dst \in Regs \cup {NoReg} /\ i.src \in Regs
    /\ i.imm \in Int /\ i.back \in Int /\ i.to \in Int
    /\ i.op \in {"set", "add"} => i.dst \in Regs
    /\ i.op = "set" => i.imm \in 0..Top

\* The ranges of a function lie in the image, apart from each other: the
\* producers' extents are merged where they touch (canonicalize_instruction_extents).
FunctionOK(f, size) ==
    /\ f.entry \in Int
    /\ \A r \in f.ranges : r[1] \in 1..size /\ r[2] \in 1..size
    /\ \A r, q \in f.ranges : r = q \/ r[2] + 1 < q[1] \/ q[2] + 1 < r[1]

ASSUME ProgramAssumption == \A g \in Programs :
    /\ Len(g.code) \in Nat /\ \A p \in 1..Len(g.code) : InsnOK(g.code[p])
    /\ Len(g.functions) \in Nat /\ DOMAIN g.functions = 1..Len(g.functions)
    /\ \A f \in DOMAIN g.functions : FunctionOK(g.functions[f], Len(g.code))

Exact == 0              \* the base of a fact that names no global
Cold == <<>>            \* no seed; entered by no tracked call

VARIABLES
    prog,       \* the program
    phase,      \* "pick", "track", "merge" or "done"
    pass,       \* 1: every function cold; 2: the seeded callees
    jobs,       \* functions, with their seeds, still to track
    job,        \* the one being tracked
    blocks,     \* its reachable blocks: first address -> last, next blocks
    in,         \* fact states at the block starts; {} before any edge spoke
    dirty,      \* blocks to visit (again)
    at,         \* where the current sweep over the blocks has come
    intra,      \* candidate observations of pass 1
    calls,      \* call facts of pass 1
    inter,      \* candidate observations of pass 2, with their hops
    records,    \* per global: observations and conflicts
    m           \* the processor: function, address, how it came in, registers

analysis == <<phase, pass, jobs, job, blocks, in, dirty, at, intra, calls, inter, records>>
vars == <<prog, analysis, m>>

Insn(p) == prog.code[p]
Function(f) == prog.functions[f]
Functions == DOMAIN prog.functions

(***************************************************************************)
(* Decoding and blocks.  A range is decoded up to the first bytes that are *)
(* no instruction.                                                         *)
(***************************************************************************)
Prefix(r) == {p \in r[1]..r[2] : \A q \in r[1]..p : Insn(q).op # "bad"}
Decoded(f) == UNION {Prefix(r) : r \in Function(f).ranges}
Fallthrough(f, p) ==
    {q \in {p + 1} : \E r \in Function(f).ranges : {p, q} \subseteq Prefix(r)}

Successors(f, p) ==
    LET i == Insn(p) IN
    CASE i.op = "branch" -> ({i.to} \cap Decoded(f)) \cup (IF i.cond THEN Fallthrough(f, p) ELSE {})
      [] i.op = "stop"   -> {}
      [] OTHER           -> Fallthrough(f, p)

Reachable(f) ==
    LET entry == {Function(f).entry} \cap Decoded(f)
        size  == Cardinality(Decoded(f))
        walk[n \in 0..size] ==
            IF n = 0 THEN entry
            ELSE LET seen == walk[n - 1]
                 IN  seen \cup UNION {Successors(f, p) : p \in seen}
    IN  walk[size]

Linear(p) == Insn(p).op \notin {"branch", "call", "stop"}

Boundaries(f) ==
    {Function(f).entry} \cup {Insn(p).to : p \in {q \in Decoded(f) : Insn(q).op = "branch"}}

\* A block goes on while its instructions are linear and the next one is
\* reachable and no boundary.
Continuing(f, pcs) ==
    LET boundaries == Boundaries(f)
    IN  {p \in pcs : Linear(p) /\ Fallthrough(f, p) \cap (pcs \ boundaries) # {}}

Blocks(f) ==
    LET pcs     == Reachable(f)
        joined  == Continuing(f, pcs)
        starts  == {p \in pcs : p - 1 \notin joined}
        last(s) == Min({p \in pcs \ joined : p >= s})
    IN  [s \in starts |-> [last |-> last(s), next |-> Successors(f, last(s))]]

(***************************************************************************)
(* Facts.  A state is a function from the registers with a known value to  *)
(* facts; an exact value is displaced from no global.  An operation that   *)
(* may have no result returns a set with at most one element.              *)
(***************************************************************************)
Numeric(fact) == fact.base + fact.disp
SamePayload(a, b) == a.base = b.base /\ a.disp = b.disp

Anchor(fact) ==
    IF fact.base = Exact /\ fact.disp \in Recovered
    THEN [fact EXCEPT !.base = fact.disp, !.disp = 0] ELSE fact

Displaced(s, r, by) ==
    {Anchor([s[q] EXCEPT !.disp = @ + by]) :
        q \in {x \in {r} \cap DOMAIN s : Numeric(s[x]) + by \in 0..Top}}

Evaluated(i, s) ==
    IF i.op = "set" THEN {Anchor([base |-> Exact, disp |-> i.imm, path |-> <<>>])}
    ELSE Displaced(s, i.src, i.imm)

Kill(s, r) == [x \in DOMAIN s \ {r} |-> s[x]]
Insert(s, r, fact) == [x \in DOMAIN s \cup {r} |-> IF x = r THEN fact ELSE s[x]]

\* A conditional write leaves a fact only if it would write the same one.
Write(s, r, computed, cond, p) ==
    IF cond
    THEN IF \E fact \in computed : r \in DOMAIN s /\ SamePayload(s[r], fact) THEN s ELSE Kill(s, r)
    ELSE IF computed = {} THEN Kill(s, r)
    ELSE Insert(s, r, LET fact == CHOOSE x \in computed : TRUE
                      IN  [fact EXCEPT !.path = Append(@, p)])

Apply(s, p) ==
    LET i == Insn(p) IN
    CASE i.op \in {"set", "add"} -> Write(s, i.dst, Evaluated(i, s), i.cond, p)
      [] i.op = "access" ->
            Kill(IF i.back = 0 THEN s ELSE Write(s, i.src, Displaced(s, i.src, i.back), i.cond, p), i.dst)
      [] i.op = "kill" -> Kill(s, i.dst)
      [] OTHER -> s

\* The facts after the instructions first..last.
Through(s, first, last) ==
    LET after[k \in (first - 1)..last] == IF k < first THEN s ELSE Apply(after[k - 1], k)
    IN  after[last]

\* The addresses of right that are not there yet, one after another.
Merge(left, right) ==
    LET merged[k \in 0..Len(right)] ==
            IF k = 0 THEN left
            ELSE IF \E l \in DOMAIN merged[k - 1] : merged[k - 1][l] = right[k]
                 THEN merged[k - 1] ELSE Append(merged[k - 1], right[k])
    IN  merged[Len(right)]

\* Forgets that a fact has to be held on every edge.
MutJoinInto(state, out) ==
    {IF state = {} THEN out
     ELSE LET s == CHOOSE x \in state : TRUE
          IN  [r \in DOMAIN s |-> IF r \in DOMAIN out THEN [s[r] EXCEPT !.path = Merge(@, out[r].path)] ELSE s[r]]}

\* The join at a block start: a register keeps its fact only while every
\* edge so far agrees on the payload.
JoinInto(state, out) ==
    {IF state = {} THEN out
     ELSE LET s    == CHOOSE x \in state : TRUE
              kept == {r \in DOMAIN s \cap DOMAIN out : SamePayload(s[r], out[r])}
          IN  [r \in kept |-> [s[r] EXCEPT !.path = Merge(@, out[r].path)]]}

(***************************************************************************)
(* Tracking one function.                                                  *)
(***************************************************************************)
SeedState(seed) == [r \in DOMAIN seed |-> [base |-> seed[r], disp |-> 0, path |-> <<>>]]

Begin ==
    /\ phase = "pick" /\ jobs # {}
    /\ job' = CHOOSE j \in jobs : TRUE
    /\ jobs' = jobs \ {job'}
    /\ blocks' = Blocks(job'.fn)
    /\ in' = [s \in DOMAIN blocks' |->
                IF s = Function(job'.fn).entry THEN {SeedState(job'.seed)} ELSE {}]
    /\ dirty' = DOMAIN blocks'
    /\ at' = 0 /\ phase' = "track"
    /\ UNCHANGED <<prog, pass, intra, calls, inter, records, m>>

\* A block no edge has spoken to knows nothing.
StateAt(s) == IF in[s] = {} THEN Cold ELSE CHOOSE x \in in[s] : TRUE

\* Blocks no edge has spoken to are passed over; they become dirty again
\* with their first join.
Waiting == {s \in dirty : in[s] # {}}

\* What one block's facts do to the blocks after it, and which of them have
\* to be visited again for it.
Joined(b, out) ==
    [s \in DOMAIN in |-> IF s \in blocks[b].next THEN JoinInto(in[s], out) ELSE in[s]]
MutDisturbed(b, joined) == blocks[b].next
Disturbed(b, joined) == {s \in blocks[b].next : joined[s] # in[s]}

Visit ==
    /\ phase = "track" /\ Waiting # {}
    /\ LET ahead == {s \in Waiting : s >= at}
           b     == Min(IF ahead # {} THEN ahead ELSE Waiting)
           out   == Through(StateAt(b), b, blocks[b].last)
       IN  /\ in' = Joined(b, out)
           /\ dirty' = (dirty \ {b}) \cup Disturbed(b, in')
           /\ at' = b + 1
    /\ UNCHANGED <<prog, phase, pass, jobs, job, blocks, intra, calls, inter, records, m>>

\* The fact state before each tracked instruction, at the fixpoint.
Body == UNION {s..blocks[s].last : s \in DOMAIN blocks}
FactsAt(p) ==
    LET s == Max({x \in DOMAIN blocks : x <= p})
    IN  Through(StateAt(s), s, p - 1)

\* An access shows an offset of the global its address is displaced from.
Candidates ==
    {[fn |-> job.fn, pc |-> c[1], target |-> c[2].base, offset |-> c[2].disp] :
        c \in {x \in UNION {{p} \X Displaced(FactsAt(p), Insn(p).src, Insn(p).imm) :
                              p \in {q \in Body : Insn(q).op = "access"}} :
                  x[2].base # Exact /\ x[2].disp >= 0}}

Seed(s) ==
    LET held == {r \in ArgRegs \cap DOMAIN s : s[r].base # Exact /\ s[r].disp = 0}
    IN  [r \in held |-> s[r].base]

CallFacts ==
    {c \in {[fn |-> job.fn, pc |-> p, to |-> Insn(p).to, seed |-> Seed(FactsAt(p))] :
              p \in {q \in Body : Insn(q).op = "call"}} : DOMAIN c.seed # {}}

(***************************************************************************)
(* The second pass: which function a call enters, and which calls seeded a *)
(* job with an address.                                                    *)
(***************************************************************************)
Callee(to) ==
    LET matches == {f \in Functions : Function(f).entry = to}
    IN  IF Cardinality(matches) = 1 THEN matches ELSE {}

Groups == UNION {{[fn |-> f, seed |-> c.seed] : f \in Callee(c.to)} : c \in calls}

\* A hop names its caller by entry and name.
Hops(j, address) ==
    UNION {{[caller |-> c.fn, pc |-> c.pc, reg |-> r] :
              r \in {x \in DOMAIN c.seed : c.seed[x] = address}} :
           c \in {x \in calls : Callee(x.to) = {j.fn} /\ x.seed = j.seed}}

\* A replay's own call facts are discarded, and so is what it shows of
\* globals it was not seeded with.
Seeded ==
    {[fn |-> c.fn, pc |-> c.pc, target |-> c.target, offset |-> c.offset, via |-> Hops(job, c.target)] :
        c \in {x \in Candidates : Hops(job, x.target) # {}}}

Harvest ==
    /\ phase = "track" /\ Waiting = {}
    /\ IF pass = 1
       THEN /\ intra' = intra \cup Candidates
            /\ calls' = calls \cup CallFacts
            /\ UNCHANGED inter
       ELSE /\ inter' = inter \cup Seeded
            /\ UNCHANGED <<intra, calls>>
    /\ phase' = "pick"
    /\ UNCHANGED <<prog, pass, jobs, job, blocks, in, dirty, at, records, m>>

Group ==
    /\ phase = "pick" /\ jobs = {} /\ pass = 1
    /\ pass' = 2 /\ jobs' = Groups
    /\ UNCHANGED <<prog, phase, job, blocks, in, dirty, at, intra, calls, inter, records, m>>

(***************************************************************************)
(* Aggregation.  Functions may overlap: at one address they agree on the   *)
(* target or are in conflict.                                              *)
(***************************************************************************)
Targets(p) == {c.target : c \in {x \in intra : x.pc = p}}

Agreed(g) ==
    {[pc |-> c.pc, offset |-> c.offset, via |-> {},
      fns |-> {x.fn : x \in {y \in intra : y.pc = c.pc /\ y.target = g /\ y.offset = c.offset}}] :
        c \in {x \in intra : x.target = g /\ Targets(x.pc) = {g}}}

Conflicts(g) == {c.pc : c \in {x \in intra : x.target = g /\ Targets(x.pc) # {g}}}

Aggregate ==
    /\ phase = "pick" /\ jobs = {} /\ pass = 2
    /\ records' = [g \in Recovered |-> [obs |-> Agreed(g), conflicts |-> Conflicts(g)]]
    /\ phase' = "merge"
    /\ UNCHANGED <<prog, pass, jobs, job, blocks, in, dirty, at, intra, calls, inter, m>>

\* Where a function's own evidence already agreed, evidence from a call
\* joins it or is dropped; elsewhere it is new.
MutKept(g) == {c \in inter : c.target = g}
Kept(g) ==
    {c \in inter : c.target = g /\
        LET agreed == {o \in records[g].obs : o.pc = c.pc}
        IN  agreed = {} \/ \E o \in agreed : o.offset = c.offset}

Merged(g) ==
    LET keys == {<<o.pc, o.offset>> : o \in records[g].obs} \cup {<<c.pc, c.offset>> : c \in Kept(g)}
        obs(k)  == {o \in records[g].obs : <<o.pc, o.offset>> = k}
        from(k) == {c \in Kept(g) : <<c.pc, c.offset>> = k}
    IN  {[pc |-> k[1], offset |-> k[2],
          via |-> UNION {c.via : c \in from(k)},
          fns |-> UNION {o.fns : o \in obs(k)} \cup {c.fn : c \in from(k)}] : k \in keys}

MergeInterprocedural ==
    /\ phase = "merge"
    /\ records' = [g \in Recovered |-> [records[g] EXCEPT !.obs = Merged(g)]]
    /\ phase' = "done"
    /\ UNCHANGED <<prog, pass, jobs, job, blocks, in, dirty, at, intra, calls, inter, m>>

Status(g) ==
    IF records[g].conflicts # {} THEN "conflicting"
    ELSE IF records[g].obs = {} THEN "no_evidence" ELSE "inferred"

Analyze == Begin \/ Visit \/ Harvest \/ Group \/ Aggregate \/ MergeInterprocedural

(***************************************************************************)
(* The processor.  It starts at the entry of some function with nothing    *)
(* known in its registers and follows the direct flow of that function; a  *)
(* direct call is stepped over or, once, entered.  A callee may leave      *)
(* anything in the registers it need not preserve, and whatever is loaded  *)
(* from memory is unknown too: neither value equals any number.            *)
(***************************************************************************)
Unknown == -1
Returned == -2

Idle == [fn |-> 0, pc |-> 0, via |-> Cold, regs |-> [r \in Regs |-> Unknown]]

Start ==
    /\ phase = "done" /\ m.fn = 0
    /\ \E f \in Functions : m' = [m EXCEPT !.fn = f, !.pc = Function(f).entry]

Sum(v, n) == IF v < 0 THEN v ELSE (v + n) % (Top + 1)
Set(regs, r, v) == [x \in Regs |-> IF x = r THEN v ELSE regs[x]]

Executed(i, regs) ==
    CASE i.op = "set"    -> Set(regs, i.dst, i.imm)
      [] i.op = "add"    -> Set(regs, i.dst, Sum(regs[i.src], i.imm))
      [] i.op = "access" -> Set(Set(regs, i.src, Sum(regs[i.src], i.back)), i.dst, Unknown)
      [] i.op = "kill"   -> Set(regs, i.dst, Unknown)
      [] i.op = "call"   -> [r \in Regs |-> IF r \in ArgRegs THEN Returned ELSE regs[r]]
      [] OTHER           -> regs

Running == phase = "done" /\ m.fn # 0 /\ m.pc \in Decoded(m.fn)

Step ==
    /\ Running
    /\ LET i == Insn(m.pc) IN
       /\ i.op # "stop"
       /\ \E holds \in IF i.cond THEN BOOLEAN ELSE {TRUE} :
            m' = [m EXCEPT !.regs = IF holds THEN Executed(i, @) ELSE @,
                           !.pc   = IF holds /\ i.op = "branch" THEN i.to ELSE @ + 1]

Enter ==
    /\ Running
    /\ Insn(m.pc).op = "call" /\ m.via = Cold
    /\ \E f \in Functions :
         /\ Function(f).entry = Insn(m.pc).to
         /\ m' = [m EXCEPT !.fn = f, !.pc = Function(f).entry,
                           !.via = <<m.fn, m.pc>>]

Execute == (Start \/ Step \/ Enter) /\ UNCHANGED <<prog, analysis>>

Init ==
    /\ prog \in Programs
    /\ phase = "pick" /\ pass = 1
    /\ jobs = {[fn |-> f, seed |-> Cold] : f \in Functions}
    /\ job = [fn |-> 0, seed |-> Cold]
    /\ blocks = Cold /\ in = Cold /\ dirty = {} /\ at = 0
    /\ intra = {} /\ calls = {} /\ inter = {}
    /\ records = [g \in Recovered |-> [obs |-> {}, conflicts |-> {}]]
    /\ m = Idle

Next == Analyze \/ Execute

Spec == Init /\ [][Next]_vars

(***************************************************************************)
(* Properties.                                                             *)
(***************************************************************************)
\* What the records say of the access the processor is about to make: the
\* function's own evidence always, a call's when it came in by that call.
Claims ==
    IF ~Running \/ Insn(m.pc).op # "access" THEN {}
    ELSE UNION {{g + o.offset : o \in {x \in records[g].obs :
            /\ x.pc = m.pc /\ m.fn \in x.fns
            /\ \/ \E c \in intra : /\ c.fn = m.fn /\ c.pc = m.pc
                                   /\ c.target = g /\ c.offset = x.offset
               \/ \E h \in x.via : <<h.caller, h.pc>> = m.via}} : g \in Recovered}

Accessed == Sum(m.regs[Insn(m.pc).src], Insn(m.pc).imm)

TypeOK ==
    /\ phase \in {"pick", "track", "merge", "done"} /\ pass \in 1..2
    /\ dirty \subseteq DOMAIN blocks /\ DOMAIN in = DOMAIN blocks
    /\ \A s \in DOMAIN in : \A state \in in[s] : \A r \in DOMAIN state :
         r \in Regs /\ state[r].base \in Recovered \cup {Exact} /\ Numeric(state[r]) \in 0..Top
    /\ DOMAIN records = Recovered
    /\ m.fn \in Functions \cup {0} /\ m.regs \in [Regs -> {Unknown, Returned} \cup 0..Top]

\* The observations in global_shapes.json are true of the code: whenever the
\* processor, in a function an observation names and by a call its "via"
\* names, makes the access, it accesses that offset of that global. Values
\* that a callee left in a register it need not preserve are excepted here.
ObservationsTrue == TypeOK /\ \A a \in Claims : Accessed \in {a, Returned}

\* README: evidence from calls "never demotes an inferred global and never
\* produces conflicting". What a function's own evidence agreed on stays, and
\* at its addresses nothing else is said of that global.
SeedsOnlyAdd ==
    [][phase = "merge" =>
        \A g \in Recovered :
            /\ Status(g) = "inferred" => Status(g)' = "inferred"
            /\ Status(g)' = "conflicting" => Status(g) = "conflicting"
            /\ \A o \in records[g].obs : \E n \in records'[g].obs :
                 n.pc = o.pc /\ n.offset = o.offset /\ o.fns \subseteq n.fns
            /\ \A n \in records'[g].obs :
                 (\E o \in records[g].obs : o.pc = n.pc)
                    => \E o \in records[g].obs : o.pc = n.pc /\ o.offset = n.offset]_vars

\* "Facts only die and provenance only grows", so the worklist runs dry: a
\* visit that changes no state leaves less to visit, and one that does takes
\* facts from a state or adds new addresses to their paths.
Extends(new, old) ==
    /\ DOMAIN new \subseteq DOMAIN old
    /\ \A r \in DOMAIN new :
         /\ SamePayload(new[r], old[r])
         /\ Len(old[r].path) <= Len(new[r].path)
         /\ \A k \in 1..Len(old[r].path) : new[r].path[k] = old[r].path[k]
         /\ \A k \in Len(old[r].path) + 1..Len(new[r].path) :
              \A l \in 1..k - 1 : new[r].path[k] # new[r].path[l]

TrackingConverges ==
    [][phase = "track" /\ phase' = "track" =>
        \/ in' = in /\ dirty' \subseteq dirty /\ dirty' # dirty
        \/ in' # in /\ \A s \in DOMAIN in : \A old \in in[s] : \E new \in in'[s] : Extends(new, old)]_vars
====
