---- MODULE ThumbRegion ----
(***************************************************************************)
(* The parser of one region's analyzer output (process_region_inner of     *)
(* src/src/thumb_analysis/stream.rs).  The capture is read as a stream,    *)
(* twice: an inventory of functions, then disassembled bodies, which are   *)
(* given to the functions by their address and, in the second reading, by  *)
(* their position; each function is written to the spill as soon as it has *)
(* its body, with the ranges its instructions cover if those are beyond    *)
(* doubt.  ThumbCoordinator's Parse is any outcome of this module, or an   *)
(* error of the file system, which ends it as any other failure does.      *)
(*                                                                         *)
(* A value of the stream is an object or an array of elements; what lies   *)
(* between values is skipped by the scanner and left out.  An element is   *)
(* a function (any object without ops), a body (its ops are an array), a   *)
(* reference, or none of them; an instruction has an address, a length,    *)
(* and bytes that are the image's or not.                                  *)
(***************************************************************************)
EXTENDS Integers, FiniteSets, FiniteSetsExt, SequencesExt

CONSTANTS
    Captures,       \* [producer, values]
    Load, ImageEnd, \* the image lies at Load..ImageEnd-1
    AddressEnd,     \* 2^32
    MaxFunctions, MaxRanges, MaxRangesEach, MaxBytes,   \* limits of execution_ranges
    MaxXrefs        \* RIZIN_SELECTED_XREF_CAP

ASSUME RegionAssumption ==
    /\ {Load, ImageEnd, AddressEnd} \subseteq Nat
    /\ Load < ImageEnd /\ ImageEnd < AddressEnd
    /\ {MaxFunctions, MaxRanges, MaxRangesEach, MaxBytes, MaxXrefs} \subseteq Nat \ {0}

Absent == -1        \* a field that is missing or no number
NoBody == [is |-> "none"]

\* What the values of a stream are made of.
Number == Nat \cup {Absent}
AnOp == [at : Number, len : Nat, same : BOOLEAN]
AFunction == [is : {"function"}, entry : Number, end : Number, size : Number]
ABody == [is : {"body"}, addr : Number, ops : Seq(AnOp)]
AReference == [is : {"xref"}, from : Number, to : Number]
AnElement == AFunction \cup ABody \cup AReference \cup [is : {"odd"}]

ASSUME CapturesAssumption ==
    \A c \in Captures :
        /\ c.producer \in {"radare2", "rizin"}
        /\ c.values \in Seq([kind : {"object", "array"}, elems : Seq(AnElement)])
        /\ \A k \in DOMAIN c.values : c.values[k].kind = "object" => Len(c.values[k].elems) = 1

-----------------------------------------------------------------------------
(* Sequences.                                                              *)

\* The elements of one kind.
OfKind(elems, kind) ==
    LET some[n \in 0..Len(elems)] ==
            IF n = 0 THEN <<>>
            ELSE IF elems[n].is = kind THEN Append(some[n - 1], elems[n]) ELSE some[n - 1]
    IN  some[Len(elems)]

\* The elements of values, one after another.
Flattened(values) ==
    LET flat[n \in 0..Len(values)] == IF n = 0 THEN <<>> ELSE flat[n - 1] \o values[n].elems
    IN  flat[Len(values)]

Total(numbers) ==
    LET sum[n \in 0..Len(numbers)] == IF n = 0 THEN 0 ELSE sum[n - 1] + numbers[n]
    IN  sum[Len(numbers)]

\* Sorted by pairs of numbers, one for each element.
Before(keys, j, k) ==
    \/ keys[j][1] < keys[k][1]
    \/ keys[j][1] = keys[k][1] /\ keys[j][2] < keys[k][2]
    \/ keys[j] = keys[k] /\ j < k

Place(keys, k) == Cardinality({j \in DOMAIN keys : Before(keys, j, k)}) + 1
SortedBy(keys, s) == [n \in DOMAIN s |-> s[CHOOSE k \in DOMAIN s : Place(keys, k) = n]]
-----------------------------------------------------------------------------

VARIABLES
    capture,
    fns,        \* the inventory
    phase, pos,    \* the pass, and where in the stream or the inventory it is
    paired,     \* functions that have a body
    used,       \* positions of bodies that have a function
    spill,      \* the slots written, in the order of writing
    charged,    \* ExecutionBudget: ranges and bytes
    outcome      \* "none", "ok" or "failed"

regionVars == <<capture, fns, phase, pos, paired, used, spill, charged, outcome>>

(***************************************************************************)
(* The stream.                                                             *)
(***************************************************************************)
Values == capture.values
Rizin == capture.producer = "rizin"

AllFunctions(elems) == \A k \in DOMAIN elems : elems[k].is = "function"
Inventory(v) ==
    v.kind = "array" /\ Len(v.elems) \in 1..MaxFunctions /\ AllFunctions(v.elems)
TooMany(v) ==
    v.kind = "array" /\ Len(v.elems) > MaxFunctions /\ AllFunctions(SubSeq(v.elems, 1, MaxFunctions))

\* Where the inventory is, or where the search for it ends; 0 is nowhere.
InventoryAt ==
    LET found == {k \in DOMAIN Values : Inventory(Values[k]) \/ TooMany(Values[k])}
    IN  IF found = {} THEN 0 ELSE Min(found)

\* The selected references of rizin's last value.
Xrefs == IF Rizin THEN OfKind(Last(Values).elems, "xref") ELSE <<>>

\* rizin: the inventory comes first, a body for each function, the list of
\* references, and nothing more.
RizinShape ==
    LET n == Len(Values[1].elems)
    IN  /\ Values # <<>> /\ Inventory(Values[1])
        /\ Len(Values) = n + 2
        /\ \A k \in 2..n + 1 : Values[k].kind = "object" /\ Values[k].elems[1].is = "body"
        /\ Values[n + 2].kind = "array"
        /\ Len(Xrefs) <= MaxXrefs
        /\ \A x \in Range(Xrefs) : x.from \in 0..AddressEnd - 1 /\ x.to # Absent

\* What follows the inventory: for rizin the bodies, else all there is.
Following ==
    SubSeq(Values, InventoryAt + 1, IF Rizin THEN Len(Values) - 1 ELSE Len(Values))

Bodies == OfKind(Flattened(Following), "body")

BodyEntry(b) ==
    IF b.addr # Absent THEN b.addr ELSE IF b.ops # <<>> THEN b.ops[1].at ELSE Absent

(***************************************************************************)
(* Which ranges the instructions of a function cover.                      *)
(***************************************************************************)
ValidOp(op) == op.at # Absent /\ op.len \in {2, 4} /\ op.at + op.len < AddressEnd
InImage(op) == op.at >= Load /\ op.at + op.len <= ImageEnd
Aligned(x) == x.start % 2 = 0 /\ (x.end - x.start) % 2 = 0

Sorted(ops) ==
    SortedBy([k \in DOMAIN ops |-> <<ops[k].at, ops[k].at + ops[k].len>>],
             [k \in DOMAIN ops |-> [start |-> ops[k].at, end |-> ops[k].at + ops[k].len]])

\* How far the first of them reach; each is compared with the one before it
\* that reaches farthest.
Farthest(xs) ==
    LET far[n \in 0..Len(xs)] ==
            IF n = 0 THEN 0 ELSE IF xs[n].end > far[n - 1] THEN xs[n].end ELSE far[n - 1]
    IN  far

Overlap(xs) == \E k \in DOMAIN xs : xs[k].start < Farthest(xs)[k - 1]

\* One range more: it is a part of the last one if it begins where that ends.
Join(left, x) ==
    IF left # <<>> /\ Last(left).end = x.start
    THEN [left EXCEPT ![Len(left)].end = x.end] ELSE Append(left, x)

Joined(xs) ==
    LET joined[n \in 0..Len(xs)] == IF n = 0 THEN <<>> ELSE Join(joined[n - 1], xs[n])
    IN  joined[Len(xs)]

\* The ranges of an accepted function; <<>> when it is quarantined.
Projection(f, body) ==
    IF body = NoBody \/ \E k \in DOMAIN body.ops : ~ValidOp(body.ops[k]) THEN <<>>
    ELSE LET xs     == Sorted(body.ops)
             ranges == Joined(xs)
         IN  IF /\ \A k \in DOMAIN body.ops : InImage(body.ops[k]) /\ body.ops[k].same
                /\ \A k \in DOMAIN xs : Aligned(xs[k])
                /\ ~Overlap(xs)
                /\ \E k \in DOMAIN ranges : ranges[k].start = f.entry
             THEN ranges ELSE <<>>

(***************************************************************************)
(* Normalizing a function: a record that cannot be right fails the region. *)
(***************************************************************************)
Sound(f) ==
    /\ f.entry \in Load..ImageEnd - 1
    /\ f.end > f.entry /\ f.end <= ImageEnd
    /\ f.size \in 1..ImageEnd - Load

Overflows(f) == f.entry >= AddressEnd

Bytes(ranges) == Total([k \in DOMAIN ranges |-> ranges[k].end - ranges[k].start])

References(ranges) ==
    {x.to : x \in {y \in Range(Xrefs) :
                   \E k \in DOMAIN ranges : y.from \in ranges[k].start..ranges[k].end - 1}}

\* A partial spill does not survive.
Fail == outcome' = "failed" /\ phase' = "done" /\ spill' = <<>>

\* One more slot of the spill, or the end of it all.
NormalizeAndSpill(i, body) ==
    LET ranges == Projection(fns[i], body)
        total  == [ranges |-> charged.ranges + Len(ranges), bytes |-> charged.bytes + Bytes(ranges)]
    IN  IF /\ Sound(fns[i])
           /\ Len(ranges) <= MaxRangesEach /\ total.ranges <= MaxRanges /\ total.bytes <= MaxBytes
           /\ \A k \in DOMAIN ranges : ranges[k].end <= fns[i].end
        THEN /\ spill' = Append(spill, [fn |-> i, body |-> body, ranges |-> ranges,
                                        refs |-> References(ranges)])
             /\ charged' = total
             /\ UNCHANGED <<outcome, phase>>
        ELSE Fail /\ UNCHANGED charged

(***************************************************************************)
(* The passes.                                                             *)
(***************************************************************************)
ScanInventory ==
    /\ phase = "inventory"
    /\ IF \/ Rizin /\ ~RizinShape
          \/ InventoryAt = 0 \/ TooMany(Values[InventoryAt])
          \/ \E k \in DOMAIN Values[InventoryAt].elems : Values[InventoryAt].elems[k].entry = Absent
       THEN Fail /\ UNCHANGED fns
       ELSE fns' = Values[InventoryAt].elems /\ phase' = "match" /\ UNCHANGED <<spill, outcome>>
    /\ UNCHANGED <<capture, pos, paired, used, charged>>

\* The function at its own address takes a body; one that overflows is kept
\* for the verdict and not written.
Pair(i) ==
    /\ paired' = paired \cup {i} /\ used' = used \cup {pos}
    /\ IF Overflows(fns[i]) THEN UNCHANGED <<spill, charged, outcome, phase>>
       ELSE NormalizeAndSpill(i, Bodies[pos])

Pass == UNCHANGED <<paired, used, spill, charged, outcome, phase>>

\* B1: the first function of the body's address that has none.
Match ==
    /\ phase = "match" /\ pos <= Len(Bodies)
    /\ LET entry == BodyEntry(Bodies[pos])
           free  == {i \in DOMAIN fns \ paired : fns[i].entry = entry}
       IN  IF entry = Absent \/ free = {} THEN Pass ELSE Pair(Min(free))
    /\ pos' = pos + 1
    /\ UNCHANGED <<capture, fns>>

MutMayTake(i, b) == TRUE

\* A body goes to no function that is not at the body's address, if it has one.
MayTake(i, b) == BodyEntry(b) \in {Absent, fns[i].entry}

\* B2: the capture is read again; a body that is left may go to the function
\* at its own position.
Fallback ==
    /\ phase = "fallback" /\ pos <= Len(Bodies)
    /\ IF pos \notin used /\ pos \in DOMAIN fns \ paired /\ MayTake(pos, Bodies[pos])
       THEN Pair(pos) ELSE Pass
    /\ pos' = pos + 1
    /\ UNCHANGED <<capture, fns>>

Reread ==
    /\ phase = "match" /\ pos > Len(Bodies)
    /\ phase' = "fallback" /\ pos' = 1
    /\ UNCHANGED <<capture, fns, paired, used, spill, charged, outcome>>

\* Bodies nobody took, no body for anybody, addresses beyond 32 bits.
Verdict ==
    /\ phase = "fallback" /\ pos > Len(Bodies)
    /\ IF used # DOMAIN Bodies \/ paired = {} \/ \E i \in DOMAIN fns : Overflows(fns[i])
       THEN Fail /\ UNCHANGED pos
       ELSE phase' = "rest" /\ pos' = 1 /\ UNCHANGED <<spill, outcome>>
    /\ UNCHANGED <<capture, fns, paired, used, charged>>

\* C: the functions without a body.
Rest ==
    /\ phase = "rest" /\ pos <= Len(fns)
    /\ IF pos \in paired THEN UNCHANGED <<spill, charged, outcome, phase>>
       ELSE NormalizeAndSpill(pos, NoBody)
    /\ pos' = pos + 1
    /\ UNCHANGED <<capture, fns, paired, used>>

\* The counts conserve (accepted and substantial are at most raw), as every
\* function is written once.
Finish ==
    /\ phase = "rest" /\ pos > Len(fns)
    /\ phase' = "done" /\ outcome' = "ok"
    /\ spill' = SortedBy([k \in DOMAIN spill |-> <<spill[k].fn, 0>>], spill)
    /\ UNCHANGED <<capture, fns, pos, paired, used, charged>>

RegionInit ==
    /\ capture \in Captures
    /\ fns = <<>> /\ phase = "inventory" /\ pos = 1
    /\ paired = {} /\ used = {} /\ spill = <<>>
    /\ charged = [ranges |-> 0, bytes |-> 0] /\ outcome = "none"

RegionNext == ScanInventory \/ Match \/ Reread \/ Fallback \/ Verdict \/ Rest \/ Finish

RegionSpec == RegionInit /\ [][RegionNext]_regionVars

(***************************************************************************)
(* The reference: the whole document at once, as the tests' oracle         *)
(* parse_radare2_thumb_output pairs it, and ranges as sets of addresses.   *)
(***************************************************************************)
RefByEntry[n \in 0..Len(fns)] ==
    IF n = 0 THEN <<>>
    ELSE LET earlier == RefByEntry[n - 1]
             own == {k \in DOMAIN Bodies \ Range(earlier) : BodyEntry(Bodies[k]) = fns[n].entry}
         IN  Append(earlier, IF own = {} THEN 0 ELSE Min(own))

RefPairs ==
    LET byEntry == RefByEntry[Len(fns)]
    IN  [i \in DOMAIN fns |->
            IF byEntry[i] = 0 /\ i \in DOMAIN Bodies \ Range(byEntry)
                              /\ BodyEntry(Bodies[i]) \in {Absent, fns[i].entry}
            THEN i ELSE byEntry[i]]

Extent(op) == op.at..op.at + op.len - 1
Covered(body) == UNION {Extent(op) : op \in Range(body.ops)}

RefAccepted(f, body) ==
    /\ body # NoBody
    /\ \A op \in Range(body.ops) : ValidOp(op) /\ InImage(op) /\ op.same /\ op.at % 2 = 0
    /\ \A j, k \in DOMAIN body.ops : j # k => Extent(body.ops[j]) \cap Extent(body.ops[k]) = {}
    /\ f.entry \in Covered(body) /\ f.entry - 1 \notin Covered(body)

\* An accepted function's ranges are its instructions' addresses in order,
\* none touching the next.
RefRanges(body, ranges) ==
    /\ UNION {x.start..x.end - 1 : x \in Range(ranges)} = Covered(body)
    /\ \A k \in DOMAIN ranges : ranges[k].start < ranges[k].end
    /\ \A k \in 2..Len(ranges) : ranges[k - 1].end < ranges[k].start

RefBody(i) == IF RefPairs[i] = 0 THEN NoBody ELSE Bodies[RefPairs[i]]
RefBytes(i) == IF RefAccepted(fns[i], RefBody(i)) THEN Cardinality(Covered(RefBody(i))) ELSE 0
RefCount(i) ==
    IF RefAccepted(fns[i], RefBody(i))
    THEN Cardinality({a \in Covered(RefBody(i)) : a - 1 \notin Covered(RefBody(i))}) ELSE 0

RefOk ==
    /\ fns # <<>>
    /\ {RefPairs[i] : i \in DOMAIN fns} \ {0} = DOMAIN Bodies
    /\ Bodies # <<>>
    /\ \A i \in DOMAIN fns :
        /\ Sound(fns[i]) /\ RefCount(i) <= MaxRangesEach
        /\ RefBytes(i) > 0 => \A a \in Covered(RefBody(i)) : a < fns[i].end
    /\ Total([i \in DOMAIN fns |-> RefCount(i)]) <= MaxRanges
    /\ Total([i \in DOMAIN fns |-> RefBytes(i)]) <= MaxBytes

(***************************************************************************)
(* Properties.                                                             *)
(***************************************************************************)
RegionTypeOK ==
    /\ phase \in {"inventory", "match", "fallback", "rest", "done"}
    /\ outcome \in {"none", "ok", "failed"} /\ (phase = "done" <=> outcome # "none")
    /\ paired \subseteq DOMAIN fns /\ used \subseteq DOMAIN Bodies
    /\ Cardinality(paired) = Cardinality(used)
    /\ outcome = "failed" => spill = <<>>
    /\ charged.ranges \in 0..MaxRanges /\ charged.bytes \in 0..MaxBytes

\* Reading the capture twice in a stream comes to what reading it whole would
\* ("equivalent to the legacy fn-outer scan"): it succeeds on the same
\* captures, and the spill then holds every function once, in order, with the
\* same body, with ranges exactly when its instructions are the image's, do
\* not overlap and begin at its entry, with just those addresses and the references
\* made from them.
SpillMatchesReference ==
    /\ RegionTypeOK
    /\ phase = "done" /\ fns # <<>> =>
        /\ (outcome = "ok") <=> RefOk
        /\ outcome = "ok" =>
            /\ [k \in DOMAIN spill |-> spill[k].fn] = [k \in DOMAIN fns |-> k]
            /\ \A i \in DOMAIN fns :
                /\ spill[i].body = RefBody(i)
                /\ IF RefAccepted(fns[i], RefBody(i))
                   THEN /\ RefRanges(RefBody(i), spill[i].ranges)
                        /\ spill[i].refs = {x.to : x \in {y \in Range(Xrefs) : y.from \in Covered(RefBody(i))}}
                   ELSE spill[i].ranges = <<>> /\ spill[i].refs = {}
====
