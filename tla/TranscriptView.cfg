\* Two cards: enough for a selection above the last card, two matches, and a cursor
\* above, at and below the last head.
SPECIFICATION Spec
CONSTANT MaxItems = 2
VIEW View
INVARIANTS DocInSync ActiveInRange
PROPERTIES   SelectionKept SearchKept ActiveStays
CHECK_DEADLOCK FALSE
