------------------------------ MODULE RichText ------------------------------
(***************************************************************************)
(* richtext.Document (richtext/richtext.go, semantic.go, editor.go,        *)
(* tombstone.go): a private text.RGA and, per position and attribute key,  *)
(* a last-writer-wins mark.  Every operation is one critical section.      *)
(*                                                                         *)
(* A state is [text, marks] with a state of RGAState whose nodes carry a   *)
(* rune, and marks [at, key, tag, val]; None is a removed attribute.  A    *)
(* delta is [nodes, tombs, marks]: the targets and changes of its format   *)
(* operations are multiplied out.                                          *)
(***************************************************************************)
EXTENDS Forest

CONSTANTS Physical, MinRun, MaxNodes, MaxTombs, MaxPending, MaxPendingBytes,
          MaxMarks          \* Options.MaxMarkEntries

T == INSTANCE RGAState

Newline == "newline"
Block == "block"      \* the key of AttributeBlock
None == "none"

New == [text |-> T!Fresh(ZeroStamp), marks |-> {}]
Nothing == [nodes |-> {}, tombs |-> {}, marks |-> {}]
TextOf(d) == [nodes |-> d.nodes, tombs |-> d.tombs]

Shown(s) == T!Visible(s.text)
RuneIn(text, id) == (CHOOSE n \in text.nodes : n.id = id).rune
Runes(s) == LET shown == Shown(s) IN [i \in DOMAIN shown |-> RuneIn(s.text, shown[i])]

\* The marks that a format operation writes.
Marked(tag, targets, changes) ==
    {[at |-> p, key |-> c[1], tag |-> tag, val |-> c[2]] : p \in targets, c \in changes}

----------------------------------------------------------------------------
\* preflightOperationsLocked, preflightMarksLocked.
MarksConflict(s, ms) ==
    \E m \in s.marks, n \in ms : m.at = n.at /\ m.key = n.key /\ m.tag = n.tag /\ m # n
MarksFit(s, ms) ==
    /\ Cardinality(ms) <= MaxMarks
    /\ ~MarksConflict(s, ms)
    /\ Cardinality({<<m.at, m.key>> : m \in s.marks \cup ms}) <= MaxMarks

\* applyOperationsLocked, applyMarksLocked: the greater tag wins.
ApplyMarks(s, ms) ==
    [s EXCEPT !.marks = {m \in @ \cup ms : \A n \in @ \cup ms :
                           n.at = m.at /\ n.key = m.key => TagLeq(n.tag, m.tag)}]

\* The text first; then WitnessTag of the greatest tag of the marks, whose
\* error leaves the text applied and returns no delta; then the marks.
Outcomes(s, d) ==
    LET Clocks(t) == WitnessFrom(t.clock, {m.tag : m \in d.marks}, Physical)
        Finished(t) == IF Clocks(t) = {}
                       THEN {[state |-> [s EXCEPT !.text = t], bodies |-> {}]}
                       ELSE {[state |-> ApplyMarks([s EXCEPT !.text = [t EXCEPT !.clock = c]], d.marks),
                              bodies |-> {d}] : c \in Clocks(t)}
    IN  UNION {Finished(t) : t \in T!ApplyDelta(s.text, TextOf(d))}
Join(s, d) == {o.state : o \in Outcomes(s, d)}

\* ApplyDelta.  Marks may arrive before the text they format.
Accepts(s, d) == MarksFit(s, d.marks) /\ T!Accepts(s.text, TextOf(d))
ApplyDelta(s, d) == IF Accepts(s, d) THEN Join(s, d) ELSE {s}

\* Merge, like a snapshot, takes complete states only.
Saveable(s) == s.text.pending = {}
StateDelta(s) == [nodes |-> s.text.nodes, tombs |-> s.text.tombs, marks |-> s.marks]

----------------------------------------------------------------------------
\* A call that advanced the clock and failed, and one that succeeded.
Failed(s) == {[state |-> s, bodies |-> {}]}
Applied(s, d) ==
    IF Accepts(s, d)
    THEN {[state |-> t, bodies |-> {d}] : t \in {ApplyMarks([s EXCEPT !.text = u], d.marks)
                                                   : u \in T!ApplyDelta(s.text, TextOf(d))}}
    ELSE Failed(s)

\* The clocks and tags of n calls of Now in a row.
Ticks(c, r, n) ==
    LET step(runs, i) ==
          UNION {{[clock |-> d, tags |-> Append(x.tags, TagAt(d, r))]
                    : d \in NowFrom(x.clock, Physical)} : x \in runs}
    IN  FoldLeft(step, {[clock |-> c, tags |-> <<>>]}, [i \in 1..n |-> i])

\* InsertWithAttributesWithLimits, InsertEmbed, InsertWithBlockFormat: one rune
\* and, when there are attributes, one format operation on it.
Insert(s, r, offset, rune, changes) ==
    UNION {LET id == x.tags[1]
               node == [id |-> id, parent |-> T!Predecessor(s.text, offset), rune |-> rune]
           IN  Applied([s EXCEPT !.text.clock = x.clock],
                       [nodes |-> {node}, tombs |-> {},
                        marks |-> Marked(x.tags[Len(x.tags)], {id}, changes)])
             : x \in Ticks(s.text.clock, r, IF changes = {} THEN 1 ELSE 2)}

\* DeleteWithLimits of the runes from + 1 .. to.
Delete(s, from, to) ==
    Applied(s, [Nothing EXCEPT !.tombs = {Shown(s)[i] : i \in (from + 1)..to}])

\* formatPositionsLocked.
FormatPositions(s, r, targets, changes) ==
    IF targets = {} THEN {[state |-> s, bodies |-> {Nothing}]}
    ELSE UNION {Applied([s EXCEPT !.text.clock = x.clock],
                        [Nothing EXCEPT !.marks = Marked(x.tags[1], targets, changes)])
                  : x \in Ticks(s.text.clock, r, 1)}

\* FormatWithLimits, SetBold, SetItalic.
Format(s, r, from, to, changes) ==
    FormatPositions(s, r, {Shown(s)[i] : i \in (from + 1)..to}, changes)

\* paragraphBounds: from the start of the first touched paragraph to behind the
\* newline of the last.
ParagraphBounds(runes, from, to) ==
    LET collapsed == from = to
        first == IF collapsed /\ from = Len(runes) /\ from > 0 THEN from - 1 ELSE from
        start == CHOOSE i \in 0..first : (i = 0 \/ runes[i] = Newline)
                   /\ \A j \in (i + 1)..first : runes[j] # Newline
        end == CHOOSE i \in to..Len(runes) : (i = Len(runes) \/ runes[i + 1] = Newline)
                 /\ \A j \in (to + 1)..i : runes[j] # Newline
    IN  IF ~collapsed /\ runes[to] = Newline THEN <<start, to>>
        ELSE <<start, IF end < Len(runes) THEN end + 1 ELSE end>>

\* formatBlocksLocked: FormatBlocks and, with None, ClearBlocks.
FormatBlocks(s, r, from, to, val) ==
    LET b == ParagraphBounds(Runes(s), from, to) IN
    IF Shown(s) = <<>> THEN {[state |-> s, bodies |-> {Nothing}]}
    ELSE FormatPositions(s, r, {Shown(s)[i] : i \in (b[1] + 1)..b[2]}, {<<Block, val>>})

\* FormatAnchoredWithLimits and formatBlocksAnchored resolve a selection that
\* was captured earlier, in the critical section that formats it.
Selected(s, range) ==
    IF \E a \in ToSet(range) : T!Gone(s.text, a) THEN {}
    ELSE {<<T!Resolve(s.text, range[1]), T!Resolve(s.text, range[2])>>}

FormatAnchored(s, r, range, changes) ==
    UNION {IF b[1] > b[2] THEN {} ELSE Format(s, r, b[1], b[2], changes) : b \in Selected(s, range)}
FormatBlocksAnchored(s, r, range, val) ==
    UNION {IF b[1] > b[2] THEN {} ELSE FormatBlocks(s, r, b[1], b[2], val) : b \in Selected(s, range)}

----------------------------------------------------------------------------
\* ApplyEditorDeltaWithLimits, on a clone of the text with the clock it has.
\* The operations are <<"retain", count, changes>>, <<"delete", count, {}>> and
\* <<"insert", rune, changes>>.
EditorClone(s) ==
    IF s.text.pending # {} THEN {}
    ELSE {[text |-> [s.text EXCEPT !.clock = c], delta |-> Nothing, offset |-> 0, plans |-> <<>>]
            : c \in WitnessFrom(s.text.clock, T!TagsOf(StateDelta(s)), Physical)}

Planned(w, targets, changes) ==
    IF changes = {} THEN w.plans ELSE Append(w.plans, <<targets, changes>>)

\* applyEditorOperations, one operation; nothing when it fails.
EditorStep(w, r, op) ==
    LET shown == T!Visible(w.text)
        range == {shown[i] : i \in (w.offset + 1)..(w.offset + op[2])}
        Grown(c) ==
          LET n == [id |-> TagAt(c, r), parent |-> T!Predecessor(w.text, w.offset), rune |-> op[2]]
              d == [nodes |-> {n}, tombs |-> {}]
              t == [w.text EXCEPT !.clock = c]
          IN  IF ~T!Accepts(t, d) THEN {}
              ELSE {[text |-> u, delta |-> [w.delta EXCEPT !.nodes = @ \cup {n}],
                     offset |-> w.offset + 1, plans |-> Planned(w, {n.id}, op[3])]
                      : u \in T!ApplyDelta(t, d)}
    IN  IF op[1] = "insert" THEN UNION {Grown(c) : c \in NowFrom(w.text.clock, Physical)}
        ELSE IF w.offset + op[2] > Len(shown) THEN {}
        ELSE IF op[1] = "retain"
        THEN {[w EXCEPT !.offset = @ + op[2], !.plans = Planned(w, range, op[3])]}
        ELSE IF ~T!Accepts(w.text, [nodes |-> {}, tombs |-> range]) THEN {}
        ELSE {[w EXCEPT !.text = u, !.delta.tombs = @ \cup range]
                : u \in T!ApplyDelta(w.text, [nodes |-> {}, tombs |-> range])}

\* expandEditorBlockPlans for one plan: a block format covers the paragraphs.
ExpandPlan(w, plan) ==
    LET shown == T!Visible(w.text)
        runes == [i \in DOMAIN shown |-> RuneIn(w.text, shown[i])]
        inline == {c \in plan[2] : c[1] # Block}
        Touched(i) == LET b == ParagraphBounds(runes, i - 1, i) IN (b[1] + 1)..b[2]
        wide == {shown[j] : j \in UNION {Touched(i) : i \in {k \in DOMAIN shown : shown[k] \in plan[1]}}}
    IN  IF shown = <<>> THEN <<>>
        ELSE (IF inline = {} THEN <<>> ELSE <<<<plan[1], inline>>>>)
          \o (IF inline = plan[2] \/ wide = {} THEN <<>> ELSE <<<<wide, plan[2] \ inline>>>>)

\* The whole transaction; nothing changes when a part before the join fails.
EditorDelta(s, r, ops) ==
    LET step(ws, op) == UNION {EditorStep(w, r, op) : w \in ws}
        Plans(w) == FlattenSeq([i \in DOMAIN w.plans |-> ExpandPlan(w, w.plans[i])])
        Delta(w, x) == [w.delta EXCEPT !.marks =
            UNION {Marked(x.tags[i], Plans(w)[i][1], Plans(w)[i][2]) : i \in DOMAIN x.tags}]
        deltas == UNION {{Delta(w, x) : x \in Ticks(w.text.clock, r, Len(Plans(w)))}
                           : w \in FoldLeft(step, EditorClone(s), ops)}
    IN  UNION {Outcomes(s, d) : d \in {e \in deltas : Accepts(s, e)}}

----------------------------------------------------------------------------
\* TombstoneTags, CompactTombstones, CompactEligibleTombstones.
TombstoneTags(s) == s.text.tombs \cup {m.tag : m \in {x \in s.marks : x.val = None}}

Compactable(s, tags) == s.text.pending = {} /\ T!Compactable(s.text, tags)

\* compactMarksLocked: marks leave with their position, removals by their tag.
Compacted(s, leaves, tags) ==
    [text |-> T!RemoveLeaves(s.text, leaves),
     marks |-> {m \in s.marks : m.at \notin leaves /\ ~(m.val = None /\ m.tag \in tags)}]

\* NewFromSnapshotWithOptions.
Restored(s) ==
    LET text == {T!BuildSequence(c, s.text.nodes, s.text.tombs)
                   : c \in WitnessFrom(s.text.clock, T!TagsOf(StateDelta(s)), Physical)}
    IN  UNION {{[s EXCEPT !.text = [t EXCEPT !.clock = c]]
                  : c \in WitnessFrom(t.clock, {m.tag : m \in s.marks}, Physical)} : t \in text}

----------------------------------------------------------------------------
\* The attributes of a position.
Attributes(s, p) == {<<m.key, m.val>> : m \in {x \in s.marks : x.at = p /\ x.val # None}}
\* What the characters, deletions and marks a replica heard of amount to.
Shows(s, d) ==
    LET up == {n \in d.nodes : \E m \in Lineage(d.nodes, n.id) : m.parent = Root} IN
    /\ IsWalk(d.nodes, Ids(up) \ d.tombs, Shown(s))
    /\ \A p \in ToSet(Shown(s)) :
         Attributes(s, p) = {<<m.key, m.val>> : m \in {x \in d.marks :
            /\ x.at = p /\ x.val # None
            /\ \A y \in d.marks : y.at = p /\ y.key = x.key => ~TagLess(x.tag, y.tag)}}
=============================================================================
