----------------------------- MODULE MCWindows ------------------------------
(* A terminal with two rows of text and two columns.  Windows: the left    *)
(* column, two cells of the right one, and the first row from above the    *)
(* screen, where the title is above it and a text would come out below.    *)
(* A popup over the first row.                                             *)
EXTENDS Windows, TLC

Place(x, y, w, h) == [x |-> x, y |-> y, w |-> w, h |-> h]
Column   == Place(0, 8, 7, 15)
LastCell == Place(8, 16, 7, 7)
TopCell  == Place(8, 8, 7, 7)
FirstRow == Place(0, -8, 15, 23)

MCSlots  == 0..7
MCTexts  == {<< >>, <<1>>}
MCPopup  == Place(0, 0, 14, 14)
MCLines  == {<<"a">>, <<"\n">>, <<"a", "\r">>}
MCPlaces == {<<1, 0>>, <<2, 1>>}

Plan(slots, areas, titles, colors, nested, careless) ==
    [slots |-> slots, areas |-> areas, titles |-> titles, colors |-> colors, nested |-> nested,
     careless |-> careless]

\* One window in two colours; two that overlap; a title that is longer than the
\* column; a slot that is opened again, or not quite, while it is open.
MCPlans == {Plan({7}, {Column, LastCell, FirstRow}, {1}, {"c", "d"}, 2, {}),
            Plan({6, 7}, {Column, LastCell, FirstRow}, {1}, {"c"}, 2, {}),
            Plan({7}, {Column}, {2}, {"c"}, 1, {"spill"}),
            Plan({7}, {Column, TopCell}, {0}, {"c"}, 1, {"reopen", "fail"})}

\* What a closed slot still holds is overwritten before it is read.
View == <<plan, term, popups, running, remains,
          [s \in Slots |-> IF windowManager[s].aktiv THEN windowManager[s] ELSE <<>>]>>
=============================================================================
