---------------------------- MODULE MCLcdHandoff ----------------------------
(* Instances of LcdHandoff: two framebuffers that differ in one half.      *)
EXTENDS LcdHandoff

MCFrames ==
    {[h \in {"top", "bottom"} |-> IF h = "top" THEN v ELSE Black] : v \in Values}

(* A single framebuffer, for the instance in which DDR survives resets.    *)
MCOneFrame == {[h \in {"top", "bottom"} |-> CHOOSE v \in Values : v # Black]}
=============================================================================
