----------------------------- MODULE GridCases -----------------------------
(***************************************************************************)
(* The algorithms of Grid.tla over bounded inputs: one case of one of them *)
(* is chosen at the start and nothing moves.  The properties hold them     *)
(* against plain definitions of what they are for.                         *)
(***************************************************************************)
EXTENDS Grid, SequencesExt

CONSTANT GcShapes     \* the lengths of the scrollback lines

VARIABLE gc

GcNone == [kind |-> "none"]

\* A pane two columns wide; no two of its cells are alike.  The cells of a
\* line are numbered from 10 times its place, the live ones from 1.  The
\* fourth cell of a line is a blank.
GcLine(i, n) == [k \in 1..n |-> IF k = 4 THEN Blank ELSE 10 * i + k]
GcContent(shape) ==
    [NewContent(2, 2) EXCEPT !.cells = <<1, 2, Blank, 4>>,
                             !.back.lines = [i \in 1..Len(shape) |-> GcLine(i, shape[i])]]

GcInit ==
    \/ gc = GcNone
    \/ \E s \in GcShapes : gc = [kind |-> "view", content |-> GcContent(s)]

-----------------------------------------------------------------------------
\* All rows there are to see, oldest first: every line cut into pieces of the
\* pane's width, as many as it takes to show all of it and at least one, then
\* the live screen.
GcEnough(line, n) == \A i \in 1..Len(line) : line[i] # Blank => i <= 2 * n
GcPieces(line) ==
    [k \in 1..(CHOOSE n \in 1..3 : GcEnough(line, n) /\ (n = 1 \/ ~GcEnough(line, n - 1))) |->
        [j \in 1..2 |-> IF 2 * (k - 1) + j <= Len(line) THEN line[2 * (k - 1) + j] ELSE Blank]]
GcAllRows(c) ==
    FlattenSeq([i \in 1..Len(c.back.lines) |-> GcPieces(c.back.lines[i])])
        \o << <<c.cells[1], c.cells[2]>>, <<c.cells[3], c.cells[4]>> >>

GcViews(c) == {[NewView EXCEPT !.offset = n] : n \in 0..TotalDisplayRows(c.back.lines, 2)}

GcPlaces(c) == {p \in [row : 0..(Len(c.back.lines) + 1), col : 0..4] :
                    p.row >= Len(c.back.lines) => p.col <= 1}

GcHighlighted(c, view) ==
    {DisplayedCell(c, view, vr, vc) : vr \in {0}, vc \in SpanAt(c, view, 0)}
        \cup {DisplayedCell(c, view, vr, vc) : vr \in {1}, vc \in SpanAt(c, view, 1)}

\* However far a pane is scrolled, it shows a window of all the rows there are,
\* the wrapped lines in order and then the live screen, no row twice or left
\* out; a click on a cell finds that cell; and what a selection copies is what it
\* highlights, over all of the rows it spans and however they are wrapped (mod.rs
\* scrollback_display_row_at, visible_to_abs, visible_selection_spans,
\* selected_text, geometry.rs).
ViewIsWindow ==
    gc.kind = "view" =>
        /\ \A view \in GcViews(gc.content) : \A vr, vc \in 0..1 :
            LET all == GcAllRows(gc.content)
                shown == DisplayedCell(gc.content, view, vr, vc)
            IN  /\ shown = all[Len(all) - 1 - view.offset + vr][vc + 1]
                /\ shown = CellAt(gc.content, VisibleToAbs(gc.content, view, vr, vc))
        /\ \A a, e \in GcPlaces(gc.content) :
            LET sel == [anchor |-> a, end |-> e]
            IN  UNION {GcHighlighted(gc.content, [v EXCEPT !.sel = sel]) : v \in GcViews(gc.content)}
                    \ {Blank}
                = UNION {Range(t) : t \in Range(SelectedText(gc.content, sel))} \ {Blank}

=============================================================================
