--------------------------- MODULE MCPreviewQueue ---------------------------
\* A component that turns between two avatars, and one that shows the first.
EXTENDS PreviewQueue

CONSTANTS a1, a2, h1, h2

MCAvatars == {a1, a2}
MCHooks == {h1, h2}
MCShows == [h \in MCHooks |-> IF h = h1 THEN MCAvatars ELSE {a1}]
MCCalls == 1..3
=============================================================================
