-------------------------------- MODULE Grid --------------------------------
(***************************************************************************)
(* The data of a pane's screen, as pure operators: the daemon's scrollback *)
(* mirror and diff engine (kmux-vt-core/src/diff_engine), the client's     *)
(* grid and scrollback buffer (kmux-client/src/grid/content.rs,            *)
(* scrollback.rs), its view (view.rs) and the mapping of a scrolled,       *)
(* wrapped viewport to lines and back (grid/mod.rs).  Screen.tla is the    *)
(* system that uses them.                                                  *)
(*                                                                         *)
(* A cell is a number, 0 the default cell; a line is a sequence of cells;  *)
(* the cursor and the terminal modes travel together and are one value.    *)
(* Positions count from 0 as they do in the code; the cell of row r and    *)
(* column c of a grid is cells[r * cols + c + 1].                          *)
(***************************************************************************)
EXTENDS Integers, Sequences, FiniteSets

CONSTANTS MirrorCap,     \* MIRROR_CAPACITY: lines the daemon's mirror holds
          ClientCap,     \* MAX_SCROLLBACK_LINES: lines a client holds
          TailLines,     \* SNAPSHOT_TAIL_LINES: lines a snapshot carries
          FetchChunk     \* FETCH_HISTORY_CHUNK: lines one fetch asks for

ASSUME GridAssumption ==
    /\ {MirrorCap, ClientCap, TailLines, FetchChunk} \subseteq Nat \ {0}

Blank == 0
NoTotal == -1

Least(a, b) == IF a < b THEN a ELSE b
Most(a, b) == IF a > b THEN a ELSE b
Blanks(n) == [i \in 1..n |-> Blank]

-----------------------------------------------------------------------------
(* Scrollback: a run of lines, the first of absolute index base *)

EmptyBack == [base |-> 0, lines |-> <<>>]

\* The number of lines ever appended, evicted ones included.
Total(b) == b.base + Len(b.lines)

\* Lines pushed one by one onto a ring of `cap`, the oldest falling off.
Pushed(b, cap, new) ==
    LET all == b.lines \o new
        over == Most(0, Len(all) - cap)
    IN  [base |-> b.base + over, lines |-> SubSeq(all, over + 1, Len(all))]

MirrorAppend(b, new) == Pushed(b, MirrorCap, new)

MirrorReset(b) == [base |-> Total(b), lines |-> <<>>]

\* Fault: the answer is labelled with the index asked for, evicted or not.
MirrorRange_Asked(b, start, count) ==
    IF start >= Total(b) \/ count = 0
    THEN [first |-> start, lines |-> <<>>]
    ELSE LET from == Most(start, b.base) - b.base
             end == Least(from + count, Len(b.lines))
         IN  [first |-> start, lines |-> SubSeq(b.lines, from + 1, end)]

MirrorRange(b, start, count) ==
    IF start >= Total(b) \/ count = 0
    THEN [first |-> Most(start, b.base), lines |-> <<>>]
    ELSE LET from == Most(start, b.base) - b.base
             end == Least(from + count, Len(b.lines))
         IN  [first |-> from + b.base, lines |-> SubSeq(b.lines, from + 1, end)]

MirrorTail(b) ==
    SubSeq(b.lines, Len(b.lines) - Least(TailLines, Len(b.lines)) + 1, Len(b.lines))

\* The client's buffer: append_with_index refuses a gap and an overlap.
Contiguous(b, first) == first = Total(b)

AppendWithIndex(b, first, new) ==
    IF Contiguous(b, first) THEN Pushed(b, ClientCap, new) ELSE b

SeedTail(b, total, tail) ==
    CASE tail = <<>> /\ total <= Total(b) -> b
      [] total <= b.base -> b
      [] OTHER -> Pushed([base |-> Most(0, total - Len(tail)), lines |-> <<>>],
                         ClientCap, tail)

ResetTo(total) == [base |-> total, lines |-> <<>>]

EvictBefore(b, base) ==
    IF b.base >= base THEN b
    ELSE [base |-> base,
          lines |-> SubSeq(b.lines, Least(base - b.base, Len(b.lines)) + 1, Len(b.lines))]

-----------------------------------------------------------------------------
(* Cell diffs *)

\* The runs of adjacent changed cells of a row, each by its first column.
RunStarts(prev, cur, cols, r) ==
    {c \in 0..(cols - 1) :
        /\ prev[r * cols + c + 1] # cur[r * cols + c + 1]
        /\ c = 0 \/ prev[r * cols + c] = cur[r * cols + c]}

RunEnd(prev, cur, cols, r, c) ==
    CHOOSE e \in (c + 1)..cols :
        /\ \A i \in c..(e - 1) : prev[r * cols + i + 1] # cur[r * cols + i + 1]
        /\ e = cols \/ prev[r * cols + e + 1] = cur[r * cols + e + 1]

\* A run of one changed cell is a Cell, a longer one a Row; both are a write.
CellRuns(prev, cur, rows, cols) ==
    {[op |-> "write", row |-> p[1], col |-> p[2],
      cells |-> SubSeq(cur, p[1] * cols + p[2] + 1,
                       p[1] * cols + RunEnd(prev, cur, cols, p[1], p[2]))] :
        p \in {q \in (0..(rows - 1)) \X (0..(cols - 1)) :
                    q[2] \in RunStarts(prev, cur, cols, q[1])}}

Changed(prev, cur) == {i \in 1..Len(cur) : prev[i] # cur[i]}

\* The whole screen is blank now, and more than half of it changed.
ScreenCleared(prev, cur) ==
    /\ cur = Blanks(Len(cur))
    /\ Cardinality(Changed(prev, cur)) > Len(cur) \div 2

DiffOps(prev, cur, rows, cols) ==
    IF ScreenCleared(prev, cur)
    THEN {[op |-> "clear", row |-> 0, col |-> 0, cells |-> <<>>]}
    ELSE CellRuns(prev, cur, rows, cols)

Clears(ops) == \E o \in ops : o.op = "clear"

\* The writes that land on cell i of a grid `cols` wide; one that falls
\* outside the grid is dropped.
Landing(ops, cols, i) ==
    {o \in ops : o.op = "write"
        /\ i - (o.row * cols + o.col) \in 1..Len(o.cells)}

Written(cells, cols, ops) ==
    [i \in 1..Len(cells) |->
        IF Clears(ops) THEN Blank
        ELSE LET on == Landing(ops, cols, i)
             IN  IF on = {} THEN cells[i]
                 ELSE LET o == CHOOSE o \in on : TRUE
                      IN  o.cells[i - (o.row * cols + o.col)]]

RowsWritten(ops) == {o.row : o \in {o \in ops : o.op = "write"}}

-----------------------------------------------------------------------------
(* DiffEngine: what the daemon last sent, and its scrollback mirror *)

NewEngine(rows, cols) ==
    [rows |-> rows, cols |-> cols, prev |-> Blanks(rows * cols), cur |-> Blank,
     hist |-> 0, saved |-> NoTotal, mirror |-> EmptyBack]

HistoryStep(e, lines, alt) ==
    LET n == Len(lines)
    IN  CASE alt ->
               [lines |-> <<>>, wiped |-> FALSE,
                saved |-> IF e.saved = NoTotal THEN e.hist ELSE e.saved]
          [] ~alt /\ e.saved # NoTotal ->
               [lines |-> SubSeq(lines, e.saved + 1, n), wiped |-> FALSE, saved |-> NoTotal]
          [] ~alt /\ e.saved = NoTotal /\ n > e.hist ->
               [lines |-> SubSeq(lines, e.hist + 1, n), wiped |-> FALSE, saved |-> NoTotal]
          [] ~alt /\ e.saved = NoTotal /\ n < e.hist ->
               [lines |-> lines, wiped |-> TRUE, saved |-> NoTotal]
          [] OTHER ->
               [lines |-> <<>>, wiped |-> FALSE, saved |-> NoTotal]

\* compute_diff against backend v: the engine after it, and what it found.
ComputeDiff(e, v) ==
    LET ops == DiffOps(e.prev, v.cells, e.rows, e.cols)
        h == HistoryStep(e, v.hist, v.alt)
        base == IF h.wiped THEN MirrorReset(e.mirror) ELSE e.mirror
        mirror == MirrorAppend(base, h.lines)
    IN  [eng |-> [e EXCEPT !.prev = v.cells, !.cur = v.cur, !.saved = h.saved,
                           !.hist = IF v.alt THEN 0 ELSE Len(v.hist), !.mirror = mirror],
         kind |-> CASE ops # {} \/ h.lines # <<>> \/ h.wiped -> "cells"
                    [] ops = {} /\ h.lines = <<>> /\ ~h.wiped /\ v.cur # e.cur -> "cursor"
                    [] OTHER -> "none",
         diff |-> [ops |-> ops, cur |-> v.cur, total |-> Total(mirror),
                   reset |-> IF h.wiped THEN base.base ELSE NoTotal],
         lines |-> h.lines]

Snapshot(e, v) ==
    [rows |-> e.rows, cols |-> e.cols, cells |-> v.cells, cur |-> v.cur,
     total |-> Total(e.mirror), base |-> e.mirror.base, tail |-> MirrorTail(e.mirror)]

\* Resize: lines the backend holds beyond the last diff are mirrored first,
\* then the comparison starts over from what the resized backend (`after`)
\* holds.
ResizeEngine(e, before, after, rows, cols) ==
    LET drained == IF before.alt THEN <<>>
                   ELSE SubSeq(before.hist, e.hist + 1, Len(before.hist))
    IN  [NewEngine(rows, cols) EXCEPT
            !.mirror = MirrorAppend(e.mirror, drained),
            !.hist = IF after.alt THEN 0 ELSE Len(after.hist)]

\* What a digest certifies: everything but the scrollback lines.
LiveDigest(s) == [s EXCEPT !.tail = <<>>]

-----------------------------------------------------------------------------
(* GridContent: the client's copy of a pane; every update returns the new
   content and what the view must do about it *)

NewContent(rows, cols) ==
    [rows |-> rows, cols |-> cols, cells |-> Blanks(rows * cols), cur |-> Blank,
     gen |-> 0, stamps |-> [r \in 1..rows |-> 0], back |-> EmptyBack, want |-> NoTotal]

NoEffect == [reset |-> FALSE, fix |-> "none", evicted |-> 0, net |-> 0]
ResetView == [NoEffect EXCEPT !.reset = TRUE]

\* The gap is over once the buffer has caught up.
GapCleared(c) ==
    IF c.want # NoTotal /\ c.want <= Total(c.back) THEN [c EXCEPT !.want = NoTotal] ELSE c

HasGap(c) == c.want > Total(c.back)

StampAll(c) == [c EXCEPT !.gen = @ + 1, !.stamps = [r \in 1..c.rows |-> c.gen + 1]]

\* Lines the daemon no longer has are dropped, then the tail is taken over.
SeededBack(b, s) ==
    LET held == EvictBefore(b, s.base)
    IN  IF s.tail # <<>> \/ held.lines = <<>> THEN SeedTail(held, s.total, s.tail) ELSE held

\* Fault: the rows of a snapshot keep their old stamps.
ApplySnapshot_Unstamped(c, s) ==
    [content |-> [GapCleared([c EXCEPT !.rows = s.rows, !.cols = s.cols, !.cells = s.cells,
                               !.cur = s.cur, !.back = SeededBack(c.back, s)])
                    EXCEPT !.stamps = [r \in 1..s.rows |->
                                         IF r <= c.rows THEN c.stamps[r] ELSE c.gen]],
     effect |-> ResetView]

ApplySnapshot(c, s) ==
    [content |-> StampAll(GapCleared(
        [c EXCEPT !.rows = s.rows, !.cols = s.cols, !.cells = s.cells, !.cur = s.cur,
                  !.back = SeededBack(c.back, s)])),
     effect |-> ResetView]

BackAfter(b, d) == IF d.reset # NoTotal THEN ResetTo(d.reset) ELSE b

ApplyDiff(c, d) ==
    LET wiped == d.reset # NoTotal
        back == BackAfter(c.back, d)
        gen == IF d.ops # {} \/ wiped THEN c.gen + 1 ELSE c.gen
    IN  [content |->
            [c EXCEPT !.cells = Written(c.cells, c.cols, d.ops),
                      !.cur = d.cur, !.gen = gen, !.back = back,
                      !.stamps = [r \in 1..Len(c.stamps) |->
                          IF Clears(d.ops) \/ r - 1 \in RowsWritten(d.ops)
                          THEN gen ELSE c.stamps[r]],
                      !.want = CASE d.total > Total(back) -> d.total
                                 [] d.total <= Total(back) /\ wiped -> NoTotal
                                 [] OTHER -> @],
         effect |-> IF wiped THEN ResetView ELSE NoEffect]

ApplyCursor(c, cur) == [content |-> [c EXCEPT !.cur = cur], effect |-> NoEffect]

\* An append that does not join on empties the buffer.
ApplyAppend(c, first, lines) ==
    LET joins == Contiguous(c.back, first)
        back == IF joins THEN AppendWithIndex(c.back, first, lines) ELSE EmptyBack
        evicted == Len(c.back.lines) + Len(lines) - Len(back.lines)
    IN  IF lines = <<>> THEN [content |-> c, effect |-> NoEffect]
        ELSE [content |-> GapCleared([c EXCEPT !.back = back, !.gen = @ + 1]),
              effect |-> IF joins
                         THEN [NoEffect EXCEPT !.fix = "shifted", !.evicted = evicted,
                                               !.net = Len(lines) - evicted]
                         ELSE [NoEffect EXCEPT !.fix = "cleared"]]

\* Only the part of a reply that continues the buffer is taken.
ApplyHistory(c, first, lines) ==
    LET have == Total(c.back)
        new == IF first <= have /\ first + Len(lines) > have
               THEN SubSeq(lines, have - first + 1, Len(lines)) ELSE <<>>
    IN  [content |-> IF lines = <<>> THEN c
                     ELSE GapCleared([c EXCEPT !.back = AppendWithIndex(@, have, new),
                                               !.gen = IF new = <<>> THEN @ ELSE @ + 1]),
         effect |-> NoEffect]

ClearContent(c) ==
    [content |-> StampAll([c EXCEPT !.cells = Blanks(Len(c.cells)), !.cur = Blank,
                                    !.back = EmptyBack, !.want = NoTotal]),
     effect |-> ResetView]

ResizeContent(c, rows, cols) ==
    [content |-> StampAll([c EXCEPT !.rows = rows, !.cols = cols,
                                    !.cells = Blanks(rows * cols)]),
     effect |-> ResetView]

ToSnapshot(c) ==
    [rows |-> c.rows, cols |-> c.cols, cells |-> c.cells, cur |-> c.cur,
     total |-> Total(c.back), base |-> c.back.base, tail |-> c.back.lines]

-----------------------------------------------------------------------------
(* GridView: where the user has scrolled and what they have selected.  A
   position is [row, col], its row counted from the oldest held line. *)

NoSelection == [anchor |-> [row |-> 0, col |-> 0], end |-> [row |-> 0, col |-> 0]]
NewView == [offset |-> 0, sel |-> NoSelection]

ShiftedPos(p, eff) == [p EXCEPT !.row = Most(0, @ - eff.evicted) + eff.net]

ShiftedSelection(sel, eff) ==
    IF sel = NoSelection \/ (eff.evicted > 0 /\ sel.anchor.row < eff.evicted)
    THEN NoSelection
    ELSE [anchor |-> ShiftedPos(sel.anchor, eff), end |-> ShiftedPos(sel.end, eff)]

\* Fault: the selection stays at its index.
ApplyEffect_Unshifted(view, eff) ==
    CASE eff.reset -> NewView
      [] ~eff.reset /\ eff.fix = "cleared" -> [view EXCEPT !.sel = NoSelection]
      [] OTHER -> view

ApplyEffect(view, eff) ==
    CASE eff.reset -> NewView
      [] ~eff.reset /\ eff.fix = "cleared" -> [view EXCEPT !.sel = NoSelection]
      [] ~eff.reset /\ eff.fix = "shifted" -> [view EXCEPT !.sel = ShiftedSelection(@, eff)]
      [] OTHER -> view

-----------------------------------------------------------------------------
(* A scrolled viewport: a line wider than it is wrapped over several rows *)

\* Trailing blanks do not count.
EffectiveLen(line) ==
    LET used == {i \in 1..Len(line) : line[i] # Blank}
    IN  IF used = {} THEN 0 ELSE CHOOSE i \in used : \A j \in used : j <= i

DisplayRows(line, cols) ==
    IF EffectiveLen(line) = 0 THEN 1 ELSE (EffectiveLen(line) + cols - 1) \div cols

\* The display rows of the lines from the i-th to the newest.
RowsFrom(lines, cols) ==
    LET from[i \in 1..(Len(lines) + 1)] ==
            IF i > Len(lines) THEN 0 ELSE DisplayRows(lines[i], cols) + from[i + 1]
    IN  from

TotalDisplayRows(lines, cols) == RowsFrom(lines, cols)[1]

\* The line and column shown `rev` display rows above the live screen.
DisplayRowAt(lines, cols, rev) ==
    LET from == RowsFrom(lines, cols)
        i == CHOOSE i \in 1..Len(lines) : from[i + 1] <= rev /\ rev < from[i]
    IN  IF rev >= from[1] THEN [found |-> FALSE, line |-> 0, col |-> 0]
        ELSE [found |-> TRUE, line |-> i - 1, col |-> (from[i] - 1 - rev) * cols]

\* scroll_up, capped at what there is, and scroll_down.
ScrolledUp(view, n, c) ==
    [view EXCEPT !.offset = Least(@ + n, TotalDisplayRows(c.back.lines, c.cols))]

ScrolledDown(view, n) == [view EXCEPT !.offset = Most(0, @ - n)]

\* The absolute row a visible row shows, and the column it starts at.
RowBase(c, view, vr) ==
    LET at == DisplayRowAt(c.back.lines, c.cols, view.offset - 1 - vr)
    IN  IF vr < view.offset /\ at.found THEN [row |-> at.line, col |-> at.col]
        ELSE [row |-> Len(c.back.lines) + Most(0, vr - view.offset), col |-> 0]

VisibleToAbs(c, view, vr, vc) ==
    LET b == RowBase(c, view, Least(vr, c.rows - 1))
    IN  [row |-> b.row, col |-> b.col + Least(vc, c.cols - 1)]

\* What the renderer shows at a visible row and column.
DisplayedCell(c, view, vr, vc) ==
    LET at == DisplayRowAt(c.back.lines, c.cols, view.offset - 1 - vr)
        line == c.back.lines[at.line + 1]
    IN  CASE vr < view.offset /\ at.found ->
               IF at.col + vc < Len(line) THEN line[at.col + vc + 1] ELSE Blank
          [] vr < view.offset /\ ~at.found -> Blank
          [] vr >= view.offset -> c.cells[(vr - view.offset) * c.cols + vc + 1]

CellAt(c, p) ==
    LET n == Len(c.back.lines)
        line == c.back.lines[p.row + 1]
    IN  CASE p.row < n -> IF p.col < Len(line) THEN line[p.col + 1] ELSE Blank
          [] p.row >= n -> IF p.row - n < c.rows /\ p.col < c.cols
                           THEN c.cells[(p.row - n) * c.cols + p.col + 1] ELSE Blank

Before(p, q) == p.row < q.row \/ (p.row = q.row /\ p.col <= q.col)
SelStart(sel) == IF Before(sel.anchor, sel.end) THEN sel.anchor ELSE sel.end
SelEnd(sel) == IF Before(sel.anchor, sel.end) THEN sel.end ELSE sel.anchor

\* The columns of a visible row that a selection covers.
\* Fault: the first row of a selection is not told from the others.
SpanAt_Whole(c, view, vr) ==
    LET b == RowBase(c, view, vr)
        s == SelStart(view.sel)
        e == SelEnd(view.sel)
        lo == b.col
        hi == IF b.row = e.row THEN Least(e.col, b.col + c.cols - 1) ELSE b.col + c.cols - 1
    IN  IF s = e \/ b.row < s.row \/ b.row > e.row THEN {}
        ELSE (lo - b.col)..(hi - b.col)

SpanAt(c, view, vr) ==
    LET b == RowBase(c, view, vr)
        s == SelStart(view.sel)
        e == SelEnd(view.sel)
        lo == IF b.row = s.row THEN Most(s.col, b.col) ELSE b.col
        hi == IF b.row = e.row THEN Least(e.col, b.col + c.cols - 1) ELSE b.col + c.cols - 1
    IN  IF s = e \/ b.row < s.row \/ b.row > e.row THEN {}
        ELSE (lo - b.col)..(hi - b.col)

\* Trailing blanks of a copied line are dropped.
Trimmed(line) == SubSeq(line, 1, EffectiveLen(line))

\* The last column there is to read on a row: a line may be wider than the
\* viewport.
LineEnd(c, row) ==
    IF row < Len(c.back.lines) THEN Most(0, EffectiveLen(c.back.lines[row + 1]) - 1)
    ELSE c.cols - 1

\* The cells of each line a selection copies.
SelectedText(c, sel) ==
    LET s == SelStart(sel)
        e == SelEnd(sel)
        first(r) == IF r = s.row THEN s.col ELSE 0
        last(r) == IF r = e.row THEN e.col ELSE LineEnd(c, r)
    IN  IF s = e THEN <<>>
        ELSE [k \in 1..(e.row - s.row + 1) |->
                LET r == s.row + k - 1
                IN  Trimmed([j \in 1..Most(0, last(r) - first(r) + 1) |->
                                CellAt(c, [row |-> r, col |-> first(r) + j - 1])])]

\* A double click takes the run of word cells around the one clicked on.
WordAt(c, p, Word(_)) ==
    LET max == LineEnd(c, p.row)
        run(lo, hi) == \A k \in lo..hi : Word(CellAt(c, [p EXCEPT !.col = k]))
        lo == CHOOSE k \in 0..p.col : run(k, p.col)
                    /\ (k = 0 \/ ~Word(CellAt(c, [p EXCEPT !.col = k - 1])))
        hi == CHOOSE k \in p.col..Most(p.col, max) : run(p.col, k)
                    /\ (k >= max \/ ~Word(CellAt(c, [p EXCEPT !.col = k + 1])))
    IN  IF Word(CellAt(c, p)) THEN [anchor |-> [p EXCEPT !.col = lo], end |-> [p EXCEPT !.col = hi]]
        ELSE [anchor |-> p, end |-> p]

=============================================================================
