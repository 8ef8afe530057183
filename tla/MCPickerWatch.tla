---------------------------- MODULE MCPickerWatch ----------------------------
(* Two pickers on panes of boundary widths.                                *)
EXTENDS PickerWatch

CONSTANTS p1, p2

PickerDef == {p1, p2}

\* The narrowest pane that a row fits in, and the narrowest that leaves every
\* column its minimum.
ColsDef == {40, 55}

=============================================================================
