---------------------------- MODULE MCCaptureRing ----------------------------
(* CaptureRing with frames of five words: a header word and two rows of    *)
(* two packets, in line buffers of two words, so that a frame is two full  *)
(* lines and a remainder of one word.  Progress is checked with frames of  *)
(* one line.                                                               *)
EXTENDS CaptureRing

(* A window inside the frame, and one that runs past its last row.         *)
MCAoi == {[y |-> 0, h |-> 1], [y |-> 1, h |-> 2]}

(* Where only the progress of the tasks matters, one window is enough.     *)
MCAoiRow == {[y |-> 0, h |-> 1]}

(* With no command that changes it the row stays what it was at the start, *)
(* and one value is enough for progress.                                   *)
FromFirstRow == StartY240 = 0

(* Bound for the runs that look at the contents of frames: seven frames    *)
(* fill every buffer, and let the ring come around while one is sent.      *)
FirstFrames == ov_frame <= 7
=============================================================================
