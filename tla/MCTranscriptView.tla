------------------------- MODULE MCTranscriptView --------------------------
(* Small instances of TranscriptView for TLC.                              *)
EXTENDS TranscriptView

\* What the hidden view keeps is overwritten when it is shown, except for the
\* last head of a selection and the callback of the editor.  Where a viewport is does not
\* matter when the next layout moves it.
Viewport == IF /\ editor.autoscroll # "None" /\ editor.viewport = "above"
               /\ editor.pending_tail_intent # "DirectScroll"
            THEN "end" ELSE editor.viewport

\* What the frame after the editor is hidden does to the last head.
Hidden == [head |-> editor.last_selection_head, pending |-> editor.viewport_refresh_pending,
           next |-> NextFrame(editor).last_selection_head]

View == <<count, hits, buffer_view, selected_item, search,
          IF buffer_view THEN [editor EXCEPT !.viewport = Viewport]
          ELSE <<Hidden, list>>>>
============================================================================
