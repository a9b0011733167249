--------------------------- MODULE MCSpannerInput ---------------------------
(* Small instances of SpannerInput.                                        *)
EXTENDS SpannerInput

CONSTANTS root, left, right, merged

\* A root that is split, and its parts merged again.
Diamond == root :> {} @@ left :> {root} @@ right :> {root} @@ merged :> {left, right}
DiamondStart == root :> 1 @@ left :> 3 @@ right :> 3 @@ merged :> 5
\* The second record of the root fills a batch in the middle, that of the
\* merged partition is too late.
DiamondMods == root :> <<1, 2>> @@ left :> <<1>> @@ right :> <<1>> @@ merged :> <<1, 1>>
=============================================================================
