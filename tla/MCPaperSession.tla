--------------------------- MODULE MCPaperSession ---------------------------
(* PaperSession for TLC: the calendars and the corporate actions of its runs. *)
EXTENDS PaperSession

CONSTANTS r1, r2

OneMonth == [d \in Sessions |-> 1]
TwoMonths == [d \in Sessions |-> IF d <= 2 THEN 1 ELSE 2]
\* A month to open in, one of a single session, and the next.
ThreeMonths == [d \in Sessions |-> IF d <= 2 THEN 1 ELSE IF d = 3 THEN 2 ELSE 3]

Kinds == [id \in Ids |-> CASE id = "dividend" -> "dividend"
                           [] id = "split" -> "rescale"
                           [] OTHER -> "unmodelled"]
\* An odd count forfeits a fraction.
FiveForTwo == <<5, 2>>
\* The split goes ex first.
ExDates == [id \in Ids |-> IF id = "dividend" THEN 4 ELSE 3]
=============================================================================
