-------------------------- MODULE CaptureRingProofs --------------------------
(***************************************************************************)
(* Proofs about CaptureRing for every size of line, packet, frame and      *)
(* buffer that CaptureAssumption allows, any number of frames and either   *)
(* behaviour of the CT bit.                                                *)
(***************************************************************************)
EXTENDS CaptureRing, TLAPS

(* FRAME is a number; its arithmetic is not needed below.                  *)
LEMMA FrameNat == FRAME \in Nat
BY CaptureAssumption DEF FRAME

(* Copying a line into a frame buffer yields a frame buffer.               *)
LEMMA CopiedType ==
  ASSUME imgbuf \in ImgBufs, linebuf \in LineBufs,
         NEW b \in 0..2, NEW c \in 0..1, NEW off \in Nat, NEW n \in 0..LINE
  PROVE  [imgbuf EXCEPT ![b] = Copied(@, off, ReadFrom(c), n)] \in ImgBufs
<1> USE CaptureAssumption
<1> DEFINE o == 1 - c
<1>0. o \in 0..1
  OBVIOUS
<1> HIDE DEF o
<1>1. linebuf[o] \in [0..LINE-1 -> Words] /\ imgbuf[b] \in [0..BUF-1 -> Words]
  BY <1>0 DEF LineBufs, ImgBufs
<1>2. Copied(imgbuf[b], off, linebuf[o], n) \in [0..BUF-1 -> Words]
  BY <1>1 DEF Copied
<1> QED
  BY <1>2 DEF ReadFrom, ImgBufs, o

(* An interrupt leaves the tasks' variables alone; a task's step leaves    *)
(* the stream alone.  Every step keeps the types.                          *)
LEMMA TypeOKStep == TypeOK /\ [Next]_vars => TypeOK'
<1> SUFFICES ASSUME TypeOK, [Next]_vars PROVE TypeOK'
  OBVIOUS
<1> USE CaptureAssumption, FrameNat DEF TypeOK
<1>t. UNCHANGED <<reqVars, imgVars>> => TaskTypes'
  BY DEF reqVars, imgVars, TaskTypes
<1>h. UNCHANGED hwVars => BitTypes' /\ StreamTypes'
  BY DEF hwVars, BitTypes, StreamTypes
<1>f. UNCHANGED frameVars => FrameTypes'
  BY DEF frameVars, FrameTypes
<1>1. CASE capcamera_task
  <2>1. BitTypes'
    BY <1>1, Zenon DEF capcamera_task, BitTypes
  <2>2. StreamTypes'
    BY <1>1 DEF capcamera_task, StreamTypes
  <2> QED
    BY <1>1, <1>t, <1>f, <2>1, <2>2 DEF capcamera_task
<1>2. CASE SensorWords
  <2> DEFINE n == IF ndtr <= FRAME - pix THEN ndtr ELSE FRAME - pix
             k == LINE - ndtr
             new == [w \in 0..LINE-1 |-> IF w >= k /\ w < k + n
                                        THEN <<CurrentFrame, pix + w - k>>
                                        ELSE linebuf[ct][w]]
  <2>1. n \in 1..LINE /\ n <= ndtr /\ n <= FRAME - pix /\ k \in 0..LINE-1 /\ k + n <= LINE
    BY <1>2 DEF SensorWords, StreamTypes
  <2>2. BitTypes'
    BY <1>2, Zenon DEF SensorWords, BitTypes
  <2>3. new \in [0..LINE-1 -> Words]
    <3>1. linebuf[ct] \in [0..LINE-1 -> Words]
      BY DEF LineBufs, StreamTypes
    <3>2. ASSUME NEW w \in 0..LINE-1, w >= k PROVE <<CurrentFrame, pix + w - k>> \in Words
      BY <2>1, <3>2 DEF Words, CurrentFrame, FrameTypes, StreamTypes
    <3> HIDE DEF k, n
    <3> QED
      BY <3>1, <3>2
  <2>4. CASE en
    <3> HIDE DEF new
    <3>1. /\ pix' = pix + n
          /\ linebuf' = [linebuf EXCEPT ![ct] = new]
          /\ (ct' = 1 - ct /\ ndtr' = LINE) \/ (n # ndtr /\ ct' = ct /\ ndtr' = ndtr - n)
      BY <1>2, <2>4 DEF SensorWords, new
    <3>2. linebuf' \in LineBufs
      BY <2>3, <3>1 DEF LineBufs, StreamTypes
    <3> HIDE DEF n, k
    <3>3. StreamTypes'
      BY <2>1, <3>1, <3>2 DEF StreamTypes
    <3> QED
      BY <1>2, <1>t, <1>f, <2>2, <3>3 DEF SensorWords
  <2>5. CASE ~en
    <3>1. StreamTypes'
      BY <1>2, <2>5 DEF SensorWords, StreamTypes
    <3> QED
      BY <1>2, <1>t, <1>f, <2>2, <3>1 DEF SensorWords
  <2> QED
    BY <2>4, <2>5
<1>3. CASE SensorFrameEnd
  <2>1. BitTypes'
    BY <1>3, Zenon DEF SensorFrameEnd, BitTypes
  <2>2. StreamTypes'
    BY <1>3 DEF SensorFrameEnd, StreamTypes
  <2> QED
    BY <1>3, <1>t, <1>f, <2>1, <2>2 DEF SensorFrameEnd
<1>4. CASE jpeg_dcmi_rx_callback
  <2>0. LINE \in 0..LINE
    OBVIOUS
  <2>1. imgbuf' \in ImgBufs
    BY <1>4, <2>0, CopiedType DEF jpeg_dcmi_rx_callback, StreamTypes, FrameTypes
  <2>2. BitTypes'
    BY <1>4, Zenon DEF jpeg_dcmi_rx_callback, BitTypes
  <2>3. StreamTypes'
    BY <1>4 DEF jpeg_dcmi_rx_callback, StreamTypes
  <2>4. FrameTypes'
    BY <1>4, <2>1 DEF jpeg_dcmi_rx_callback, FrameTypes
  <2> QED
    BY <1>4, <1>t, <2>2, <2>3, <2>4 DEF jpeg_dcmi_rx_callback
<1>5. CASE HAL_DCMI_FrameEventCallback
  <2>1. CASE CloseFrame
    <3>1. LINE - ndtr \in 0..LINE /\ ct' \in 0..1
      BY <2>1 DEF CloseFrame, AfterStop, StreamTypes
    <3>2. imgbuf' = [imgbuf EXCEPT ![currentcatch] =
                       Copied(@, jpeg_data_len, ReadFrom(ct'), LINE - ndtr)]
      BY <2>1 DEF CloseFrame
    <3>3. imgbuf' \in ImgBufs
      BY <3>1, <3>2, CopiedType DEF StreamTypes, FrameTypes
    <3>4. BitTypes'
      BY <1>5, <2>1, Zenon DEF CloseFrame, HAL_DCMI_FrameEventCallback, BitTypes
    <3>5. StreamTypes'
      BY <1>5, <2>1, <3>1, <3>2 DEF CloseFrame, HAL_DCMI_FrameEventCallback, StreamTypes
    <3>6. FrameTypes'
      BY <1>5, <2>1, <3>1, <3>3 DEF CloseFrame, HAL_DCMI_FrameEventCallback, FrameTypes
    <3> QED
      BY <1>5, <1>t, <3>4, <3>5, <3>6 DEF HAL_DCMI_FrameEventCallback
  <2>2. CASE RestartCapture
    <3>1. BitTypes'
      BY <1>5, <2>2, Zenon DEF RestartCapture, HAL_DCMI_FrameEventCallback, BitTypes
    <3>2. StreamTypes' /\ FrameTypes'
      BY <1>5, <2>2 DEF RestartCapture, HAL_DCMI_FrameEventCallback, StreamTypes, FrameTypes
    <3> QED
      BY <1>5, <1>t, <3>1, <3>2 DEF HAL_DCMI_FrameEventCallback
  <2>3. CASE SkipFrame
    <3>1. BitTypes'
      BY <1>5, <2>3, Zenon DEF SkipFrame, HAL_DCMI_FrameEventCallback, BitTypes
    <3>2. StreamTypes' /\ FrameTypes'
      BY <1>5, <2>3 DEF SkipFrame, HAL_DCMI_FrameEventCallback, StreamTypes, FrameTypes
    <3> QED
      BY <1>5, <1>t, <3>1, <3>2 DEF HAL_DCMI_FrameEventCallback
  <2> QED
    BY <1>5, <2>1, <2>2, <2>3 DEF HAL_DCMI_FrameEventCallback
<1>6. ASSUME NEW f \in FLAGS, WATCH_IMAGE(f) PROVE TypeOK'
  BY <1>6, <1>h, <1>f DEF WATCH_IMAGE, TaskTypes, imgVars
<1>7. ASSUME NEW v \in STARTYS, SET_STARTY240(v) PROVE TypeOK'
  BY <1>7, <1>h, <1>f DEF SET_STARTY240, TaskTypes, imgVars
<1>8. CASE udp_thread \/ udp_send_task
  <2>1. /\ udp_flag' \in 0..1 /\ udp' \in {"connect", "recv"}
        /\ UNCHANGED <<jpeg_data_send, jpeg_data_pcsend_flag, StartY240, imgVars>>
    BY <1>8 DEF udp_thread, udp_send_task, TaskTypes
  <2>2. TaskTypes'
    BY <2>1 DEF TaskTypes, imgVars
  <2> QED
    BY <1>8, <1>h, <1>f, <2>2 DEF udp_thread, udp_send_task
<1>9. CASE imgcamera_task
  <2>1. CASE ImgAckFrame
    <3>1. FrameTypes'
      BY <2>1 DEF ImgAckFrame, FrameTypes
    <3>2. TaskTypes'
      BY <2>1 DEF ImgAckFrame, Goto, TaskTypes, reqVars
    <3> QED
      BY <2>1, <1>h, <3>1, <3>2 DEF ImgAckFrame
  <2>2. CASE ImgPoll
    BY <2>2, <1>h, <1>f DEF ImgPoll, Goto, TaskTypes, reqVars
  <2>3. ASSUME NEW n \in 0..2, NEW here, NEW else \in {"pos1", "pos2", "mode"},
               ImgPos(n, here, else)
        PROVE  TypeOK'
    BY <2>3, <1>h, <1>f DEF ImgPos, Goto, TaskTypes, reqVars
  <2>4. CASE ImgNoLink
    BY <2>4, <1>h, <1>f DEF ImgNoLink, Goto, TaskTypes
  <2>5. CASE ImgNoMode
    BY <2>5, <1>h, <1>f DEF ImgNoMode, Goto, TaskTypes, reqVars
  <2>6. CASE ImgStart
    BY <2>6, <1>h, <1>f DEF ImgStart, Goto, TaskTypes, reqVars
  <2>7. CASE ImgPacket
    <3>1. \A w \in 0..FRAME-1 : imgbuf[GetCatchPos][w][1] \in Nat
      <4>1. GetCatchPos \in 0..2 /\ imgbuf \in ImgBufs
        BY DEF FrameTypes, TaskTypes
      <4>2. imgbuf[GetCatchPos] \in [0..BUF-1 -> Words]
        BY <4>1 DEF ImgBufs
      <4>3. \A w \in 0..FRAME-1 : imgbuf[GetCatchPos][w] \in Nat \X Nat
        <5>1. \A w \in 0..FRAME-1 : w \in 0..BUF-1
          OBVIOUS
        <5> QED
          BY <4>2, <5>1 DEF Words
      <4> QED
        BY <4>3
    <3>2. sent' \subseteq Nat
      BY <2>7, <3>1 DEF ImgPacket, PacketWords, TaskTypes
    <3> QED
      BY <2>7, <1>h, <1>f, <3>2 DEF ImgPacket, TaskTypes
  <2>8. CASE ImgTrailer
    BY <2>8, <1>h, <1>f DEF ImgTrailer, Goto, TaskTypes
  <2> QED
    BY <1>9, <2>1, <2>2, <2>3, <2>4, <2>5, <2>6, <2>7, <2>8 DEF imgcamera_task
<1>10. CASE UNCHANGED vars
  BY <1>10, <1>t, <1>h, <1>f DEF vars
<1> QED
  BY <1>1, <1>2, <1>3, <1>4, <1>5, <1>6, <1>7, <1>8, <1>9, <1>10 DEF Next

(* The initial state has the types.                                        *)
LEMMA TypeOKInit == Init => TypeOK
<1> SUFFICES ASSUME Init PROVE TypeOK
  OBVIOUS
<1> USE CaptureAssumption, FrameNat
<1>1. linebuf \in LineBufs /\ imgbuf \in ImgBufs
  BY DEF Init, LineBufs, ImgBufs, Words
<1>2. BitTypes
  BY DEF Init, BitTypes
<1>3. StreamTypes
  BY <1>1 DEF Init, StreamTypes
<1>4. FrameTypes
  BY <1>1 DEF Init, FrameTypes
<1>5. TaskTypes
  BY DEF Init, TaskTypes
<1> QED
  BY <1>2, <1>3, <1>4, <1>5 DEF TypeOK

(* Type correctness of the image path.                                     *)
THEOREM TypeCorrect == Spec => []TypeOK
BY TypeOKInit, TypeOKStep, PTL DEF Spec

-----------------------------------------------------------------------------
(* The account of the stream's words survives every step.                  *)
LEMMA StreamStep == TypeOK /\ StreamInv /\ [Next]_vars => StreamInv'
<1> SUFFICES ASSUME TypeOK, StreamInv, [Next]_vars PROVE StreamInv'
  OBVIOUS
<1> USE CaptureAssumption, FrameNat DEF TypeOK, BitTypes, StreamTypes
<1>1. CASE capcamera_task
  BY <1>1 DEF capcamera_task, StreamInv, frameVars
<1>2. CASE SensorWords
  <2>1. CASE en /\ ndtr <= FRAME - pix
    BY <1>2, <2>1 DEF SensorWords, StreamInv, frameVars, FrameTypes
  <2>2. CASE en /\ ~(ndtr <= FRAME - pix)
    BY <1>2, <2>2 DEF SensorWords, StreamInv, frameVars, FrameTypes
  <2>3. CASE ~en
    BY <1>2, <2>3 DEF SensorWords, StreamInv, frameVars, FrameTypes
  <2> QED
    BY <2>1, <2>2, <2>3
<1>3. CASE SensorFrameEnd
  BY <1>3 DEF SensorFrameEnd, StreamInv, frameVars
<1>4. CASE jpeg_dcmi_rx_callback
  BY <1>4 DEF jpeg_dcmi_rx_callback, StreamInv, FrameTypes
<1>5. CASE HAL_DCMI_FrameEventCallback
  <2>1. CASE CloseFrame
    BY <1>5, <2>1 DEF CloseFrame, HAL_DCMI_FrameEventCallback, StreamInv, FrameTypes
  <2>2. CASE RestartCapture
    BY <1>5, <2>2 DEF RestartCapture, HAL_DCMI_FrameEventCallback, StreamInv, FrameTypes
  <2>3. CASE SkipFrame
    BY <1>5, <2>3 DEF SkipFrame, HAL_DCMI_FrameEventCallback, StreamInv, FrameTypes
  <2> QED
    BY <1>5, <2>1, <2>2, <2>3 DEF HAL_DCMI_FrameEventCallback
<1>6. CASE ImgAckFrame
  BY <1>6 DEF ImgAckFrame, hwVars, StreamInv, FrameTypes
<1>7. CASE UNCHANGED <<hwVars, frameVars>>
  BY <1>7 DEF StreamInv, hwVars, frameVars
<1> QED
  BY <1>1, <1>2, <1>3, <1>4, <1>5, <1>6, <1>7
  DEF Next, vars, imgcamera_task, WATCH_IMAGE, SET_STARTY240, udp_thread, udp_send_task, ImgPoll, ImgPos,
      ImgNoLink, ImgNoMode, ImgStart, ImgPacket, ImgTrailer

(* While imgcamera_task looks for or sends a frame, a frame that closes    *)
(* leaves jpeg_data_ok at 1.                                               *)
LEMMA PosStep == TypeOK /\ PosInv /\ [Next]_vars => PosInv'
<1> SUFFICES ASSUME TypeOK, PosInv, [Next]_vars PROVE PosInv'
  OBVIOUS
<1> USE DEF PosInv, Sending
<1>1. CASE HAL_DCMI_FrameEventCallback
  BY <1>1 DEF HAL_DCMI_FrameEventCallback, CloseFrame, RestartCapture, SkipFrame, imgVars,
              TypeOK, FrameTypes
<1>2. CASE imgcamera_task
  <2>1. CASE ImgAckFrame
    BY <2>1 DEF ImgAckFrame, Goto
  <2>2. CASE ImgPoll
    BY <2>2 DEF ImgPoll, Goto
  <2>3. CASE ImgPos(0, "pos0", "pos1")
    BY <2>3 DEF ImgPos, Goto, frameVars
  <2>4. CASE ImgPos(1, "pos1", "pos2")
    BY <2>4 DEF ImgPos, Goto, frameVars, TypeOK, FrameTypes
  <2>5. CASE ImgPos(2, "pos2", "mode")
    BY <2>5 DEF ImgPos, Goto, frameVars
  <2>6. CASE ImgNoLink \/ ImgNoMode \/ ImgTrailer
    BY <2>6 DEF ImgNoLink, ImgNoMode, ImgTrailer, Goto
  <2>7. CASE ImgStart \/ ImgPacket
    BY <2>7 DEF ImgStart, ImgPacket, Goto, frameVars
  <2> QED
    BY <1>2, <2>1, <2>2, <2>3, <2>4, <2>5, <2>6, <2>7 DEF imgcamera_task
<1>3. CASE UNCHANGED <<currentcatch, jpeg_data_ok, imgVars>>
  BY <1>3 DEF imgVars
<1> QED
  BY <1>1, <1>2, <1>3
  DEF Next, vars, frameVars, capcamera_task, SensorWords, SensorFrameEnd,
      jpeg_dcmi_rx_callback, WATCH_IMAGE, SET_STARTY240, udp_thread, udp_send_task

-----------------------------------------------------------------------------
(* The control part of the inductive invariant.                            *)
Inv == TypeOK /\ StreamInv /\ PosInv

(* It holds initially, every step preserves it.                            *)
LEMMA InvCorrect == Spec => []Inv
<1>1. Init => StreamInv
  BY CaptureAssumption, FrameNat DEF Init, StreamInv
<1>2. Init => PosInv
  BY DEF Init, PosInv, Sending
<1>3. Inv /\ [Next]_vars => Inv'
  BY TypeOKStep, StreamStep, PosStep DEF Inv
<1>4. Init => Inv
  BY <1>1, <1>2, TypeOKInit DEF Inv
<1> QED
  BY <1>3, <1>4, PTL DEF Spec

(* No copy of either handler runs past the end of a frame buffer.          *)
THEOREM CopyBounded == Spec => []CopyInBuffer
<1>1. Inv => CopyInBuffer
  BY CaptureAssumption, FrameNat
  DEF Inv, TypeOK, StreamTypes, FrameTypes, StreamInv, CopyInBuffer
<1> QED
  BY <1>1, InvCorrect, PTL

(* The buffer imgcamera_task sends from is not the one being filled.       *)
LEMMA OtherBuffer == Inv => NotUnderCapture
BY DEF Inv, TypeOK, FrameTypes, PosInv, NotUnderCapture

(* While an image is sent, its buffer is not the one under capture.        *)
THEOREM NeverUnderCapture == Spec => []NotUnderCapture
BY OtherBuffer, InvCorrect, PTL

(* One step: only the two handlers write a frame buffer.  They write the   *)
(* buffer under capture unless no capture is running; then only the extra  *)
(* line is still to come, and it goes behind the frame.                    *)
LEMMA ClosedUntouched ==
  ASSUME Inv, [Next]_vars, NEW b \in 0..2, b # currentcatch \/ jpeg_data_ok # 0
  PROVE  FrameUntouched(b)
<1> USE CaptureAssumption, FrameNat
<1>0. /\ imgbuf \in ImgBufs /\ ct \in 0..1 /\ currentcatch \in 0..2
      /\ jpeg_data_len \in Nat /\ ndtr \in 1..LINE
  BY DEF Inv, TypeOK, StreamTypes, FrameTypes
<1>1. CASE jpeg_dcmi_rx_callback
  <2>1. b # currentcatch \/ jpeg_data_len = FRAME
    BY <1>0, <1>1 DEF Inv, StreamInv, jpeg_dcmi_rx_callback
  <2>2. imgbuf' = [imgbuf EXCEPT ![currentcatch] =
                     Copied(@, jpeg_data_len, ReadFrom(ct), LINE)]
    BY <1>1 DEF jpeg_dcmi_rx_callback
  <2>3. ASSUME NEW w \in 0..FRAME-1 PROVE imgbuf'[b][w] = imgbuf[b][w]
    BY <1>0, <2>1, <2>2 DEF Copied, ImgBufs
  <2> QED
    BY <2>3 DEF FrameUntouched
<1>2. CASE HAL_DCMI_FrameEventCallback
  <2>1. CASE CloseFrame
    <3>1. b # currentcatch
      BY <2>1 DEF CloseFrame
    <3>2. \E x : imgbuf' = [imgbuf EXCEPT ![currentcatch] = x]
      BY <2>1 DEF CloseFrame
    <3> QED
      BY <1>0, <3>1, <3>2 DEF FrameUntouched, ImgBufs
  <2>2. CASE RestartCapture \/ SkipFrame
    BY <2>2 DEF RestartCapture, SkipFrame, FrameUntouched
  <2> QED
    BY <1>2, <2>1, <2>2 DEF HAL_DCMI_FrameEventCallback
<1>3. CASE UNCHANGED imgbuf
  BY <1>3 DEF FrameUntouched
<1> QED
  BY <1>1, <1>2, <1>3
  DEF Next, vars, frameVars, capcamera_task, SensorWords, SensorFrameEnd, WATCH_IMAGE,
      SET_STARTY240, udp_thread, udp_send_task, imgcamera_task, ImgAckFrame, ImgPoll, ImgPos,
      ImgNoLink, ImgNoMode, ImgStart, ImgPacket, ImgTrailer

(* The frame being sent is never written to.                               *)
THEOREM NeverOverwritten == Spec => ImageStable
<1>1. Inv /\ [Next]_vars => (Sending => FrameUntouched(GetCatchPos))
  <2> SUFFICES ASSUME Inv, [Next]_vars, Sending PROVE FrameUntouched(GetCatchPos)
    OBVIOUS
  <2>1. GetCatchPos \in 0..2 /\ (GetCatchPos # currentcatch \/ jpeg_data_ok # 0)
    BY OtherBuffer DEF Inv, TypeOK, TaskTypes, NotUnderCapture
  <2> QED
    BY <2>1, ClosedUntouched
<1> QED
  BY <1>1, InvCorrect, PTL DEF Spec, ImageStable

-----------------------------------------------------------------------------
(* What the buffers hold.                                                  *)

(* The sensor writes behind the words already in the open line buffer.     *)
LEMMA SensorContent == Inv /\ OpenFrame /\ SensorWords /\ en => OpenFrame'
<1> SUFFICES ASSUME Inv, OpenFrame, SensorWords, en PROVE OpenFrame'
  OBVIOUS
<1> USE CaptureAssumption, FrameNat
<1> DEFINE n == IF ndtr <= FRAME - pix THEN ndtr ELSE FRAME - pix
           k == LINE - ndtr
           val(w) == IF w >= k /\ w < k + n THEN <<CurrentFrame, pix + w - k>>
                                            ELSE linebuf[ct][w]
           new == [w \in 0..LINE-1 |-> val(w)]
<1>0. /\ ct \in 0..1 /\ pix \in 0..FRAME /\ ndtr \in 1..LINE /\ linebuf \in LineBufs
      /\ jpeg_data_len \in Nat /\ jpeg_data_len + k = pix /\ k \in 0..LINE-1
  BY DEF Inv, TypeOK, StreamTypes, FrameTypes, StreamInv, SensorWords
<1>1. /\ linebuf' = [linebuf EXCEPT ![ct] = new] /\ pix' = pix + n
      /\ UNCHANGED <<imgbuf, currentcatch, jpeg_data_len, ov_frame>> /\ ~tcif
      /\ \/ n = ndtr /\ ct' = 1 - ct /\ ndtr' = LINE
         \/ n # ndtr /\ ct' = ct /\ ndtr' = ndtr - n /\ ~tcif'
  BY DEF SensorWords, frameVars
<1>2. CurrentFrame' = CurrentFrame
  BY <1>1 DEF CurrentFrame
<1>3. linebuf'[ct] = new /\ linebuf'[1 - ct] = linebuf[1 - ct]
  <2> HIDE DEF new
  <2>1. 1 - ct \in 0..1 /\ 1 - ct # ct
    BY <1>0
  <2>2. linebuf' = [linebuf EXCEPT ![ct] = new] /\ DOMAIN linebuf = 0..1
    BY <1>0, <1>1 DEF LineBufs
  <2> QED
    BY <1>0, <2>1, <2>2
<1>4. ASSUME NEW w \in 0..LINE-1, w < k + n PROVE new[w] = <<CurrentFrame, pix - k + w>>
  <2>1. CASE w < k
    <3>1. new[w] = linebuf[ct][w]
      BY <1>0, <2>1
    <3>2. linebuf[ct][w] = <<CurrentFrame, pix - (LINE - ndtr) + w>>
      BY <2>1 DEF OpenFrame
    <3> QED
      BY <3>1, <3>2
  <2>2. CASE w >= k
    BY <1>0, <1>4, <2>2
  <2> QED
    BY <1>0, <2>1, <2>2
<1> HIDE DEF new, val
<1>5. n \in Nat /\ n <= ndtr
  BY <1>0
<1> DEFINE m == n
<1>6. CASE n = ndtr /\ ct' = 1 - ct /\ ndtr' = LINE
  <2>1. k + n = LINE /\ 1 - ct' = ct
    BY <1>0, <1>6
  <2>2. \A w \in 0..LINE-1 : linebuf'[1 - ct'][w] = <<CurrentFrame, jpeg_data_len + w>>
    BY <1>0, <1>3, <1>4, <2>1
  <2> HIDE DEF n, k
  <2> QED
    BY <1>0, <1>1, <1>2, <1>6, <2>2 DEF OpenFrame
<1>7. CASE n # ndtr /\ ct' = ct /\ ndtr' = ndtr - n /\ ~tcif'
  <2>1. LINE - ndtr' = k + n /\ pix' - (k + n) = pix - k
    BY <1>0, <1>1, <1>5, <1>7
  <2> HIDE DEF n, k
  <2>2. \A w \in 0..LINE-1 : w < LINE - ndtr' =>
           linebuf'[ct'][w] = <<CurrentFrame, pix' - (LINE - ndtr') + w>>
    BY <1>3, <1>4, <1>7, <2>1
  <2>3. 1 - ct' = 1 - ct
    BY <1>7
  <2> QED
    BY <1>1, <1>2, <1>3, <1>7, <2>2, <2>3 DEF OpenFrame
<1> QED
  BY <1>1, <1>6, <1>7

(* The line interrupt moves the full line to its place in the frame.       *)
LEMMA LineContent ==
  Inv /\ OpenFrame /\ jpeg_data_ok = 0 /\ jpeg_dcmi_rx_callback => OpenFrame'
<1> SUFFICES ASSUME Inv, OpenFrame, jpeg_data_ok = 0, jpeg_dcmi_rx_callback PROVE OpenFrame'
  OBVIOUS
<1> USE CaptureAssumption, FrameNat
<1>0. /\ ct \in 0..1 /\ linebuf \in LineBufs /\ imgbuf \in ImgBufs /\ currentcatch \in 0..2
      /\ jpeg_data_len \in Nat /\ ndtr = LINE /\ tcif /\ LINE \in Nat
  BY DEF Inv, TypeOK, StreamTypes, FrameTypes, StreamInv, jpeg_dcmi_rx_callback
<1>1. /\ imgbuf' = [imgbuf EXCEPT ![currentcatch] =
                      Copied(@, jpeg_data_len, ReadFrom(ct), LINE)]
      /\ jpeg_data_len' = jpeg_data_len + LINE /\ ~tcif'
      /\ UNCHANGED <<ct, ndtr, pix, linebuf, currentcatch, ov_frame>>
  BY DEF jpeg_dcmi_rx_callback
<1>2. CurrentFrame' = CurrentFrame
  BY <1>1 DEF CurrentFrame
<1>3. ASSUME NEW w \in 0..BUF-1, w < jpeg_data_len'
      PROVE  imgbuf'[currentcatch][w] = <<CurrentFrame, w>>
  <2>1. imgbuf'[currentcatch][w] = IF w >= jpeg_data_len /\ w < jpeg_data_len + LINE
                                   THEN linebuf[1 - ct][w - jpeg_data_len]
                                   ELSE imgbuf[currentcatch][w]
    BY <1>0, <1>1 DEF Copied, ReadFrom, ImgBufs
  <2>2. CASE w < jpeg_data_len
    BY <1>0, <2>1, <2>2 DEF OpenFrame
  <2>3. CASE w >= jpeg_data_len
    <3>1. w - jpeg_data_len \in 0..LINE-1
      BY <1>0, <1>1, <1>3, <2>3
    <3>2. linebuf[1 - ct][w - jpeg_data_len] = <<CurrentFrame, jpeg_data_len + (w - jpeg_data_len)>>
      BY <1>0, <3>1 DEF OpenFrame
    <3> QED
      BY <1>0, <1>1, <1>3, <2>1, <2>3, <3>2
  <2> QED
    BY <1>0, <2>2, <2>3
<1> QED
  BY <1>0, <1>1, <1>2, <1>3 DEF OpenFrame

(* Closing a frame leaves a whole one behind: every word is of this        *)
(* exposure, whichever line buffer the remainder is read from.             *)
LEMMA CloseContent ==
  ASSUME Inv, OpenFrame, frameif, CloseFrame, NEW b \in 0..2, b = currentcatch
  PROVE  WholeFrame(b)'
<1> USE CaptureAssumption, FrameNat
<1> DEFINE k == LINE - ndtr
           ct1 == ct'
           f == CurrentFrame
<1>0. /\ ct \in 0..1 /\ linebuf \in LineBufs /\ imgbuf \in ImgBufs /\ ndtr \in 1..LINE
      /\ jpeg_data_len \in Nat /\ jpeg_data_len + k = FRAME /\ k \in 0..LINE-1 /\ pix = FRAME
      /\ ct1 \in {ct, 1 - ct} /\ f \in 0..U32 /\ ov_frame \in 0..U32-1
  BY DEF Inv, TypeOK, StreamTypes, FrameTypes, StreamInv, CloseFrame, AfterStop, CurrentFrame
<1>1. imgbuf' = [imgbuf EXCEPT ![b] = Copied(@, jpeg_data_len, ReadFrom(ct1), k)]
  BY DEF CloseFrame
<1>2. ASSUME NEW w \in 0..FRAME-1
      PROVE  /\ imgbuf'[b][w][1] = f
             /\ w + LINE <= FRAME /\ f > 0 => imgbuf'[b][w][2] = w
  <2>0. w \in 0..BUF-1
    OBVIOUS
  <2>1. imgbuf'[b][w] = IF w >= jpeg_data_len /\ w < jpeg_data_len + k
                        THEN linebuf[1 - ct1][w - jpeg_data_len] ELSE imgbuf[b][w]
    BY <1>0, <1>1, <2>0 DEF Copied, ReadFrom, ImgBufs
  <2>2. CASE w < jpeg_data_len
    <3>1. imgbuf[b][w] = <<f, w>>
      BY <2>0, <2>2 DEF OpenFrame
    <3> QED
      BY <1>0, <2>1, <2>2, <3>1
  <2>3. CASE w >= jpeg_data_len
    <3>0. /\ w - jpeg_data_len \in 0..LINE-1 /\ w - jpeg_data_len < k
          /\ imgbuf'[b][w] = linebuf[1 - ct1][w - jpeg_data_len]
      BY <1>0, <2>1, <2>3
    <3>1. CASE ct1 = 1 - ct
      <4>1. 1 - ct1 = ct
        BY <1>0, <3>1
      <4>2. linebuf[ct][w - jpeg_data_len] = <<f, pix - k + (w - jpeg_data_len)>>
        BY <3>0 DEF OpenFrame
      <4>3. pix - k + (w - jpeg_data_len) = w
        BY <1>0
      <4> QED
        BY <3>0, <4>1, <4>2, <4>3
    <3>2. CASE ct1 = ct
      <4>1. ct1 = ct /\ jpeg_data_len > 0 /\ ~(w + LINE <= FRAME)
        BY <1>0, <2>3, <3>2
      <4>2. linebuf[1 - ct][w - jpeg_data_len][1] = f
        BY <3>0, <4>1 DEF OpenFrame
      <4> QED
        BY <3>0, <3>2, <4>1, <4>2
    <3> QED
      BY <1>0, <3>1, <3>2
  <2> QED
    BY <1>0, <2>2, <2>3
<1> HIDE DEF f
<1> QED
  BY <1>0, <1>2 DEF WholeFrame

(* A step that leaves the frame in a buffer alone leaves it whole.         *)
LEMMA WholeKept ==
  ASSUME NEW b \in 0..2, WholeFrame(b), FrameUntouched(b) PROVE WholeFrame(b)'
BY CaptureAssumption, FrameNat DEF WholeFrame, FrameUntouched

(* The buffer being sent holds a whole frame.                              *)
LEMMA SentWhole == Inv /\ ContentInv /\ Sending => WholeFrame(GetCatchPos)
BY OtherBuffer DEF Inv, TypeOK, TaskTypes, NotUnderCapture, ContentInv

(* Every step preserves what the buffers hold.                             *)
LEMMA ContentStep == Inv /\ ContentInv /\ [Next]_vars => ContentInv'
<1> SUFFICES ASSUME Inv, ContentInv, [Next]_vars PROVE ContentInv'
  OBVIOUS
<1>0. ASSUME NEW b \in 0..2, b # currentcatch \/ jpeg_data_ok # 0 PROVE WholeFrame(b)'
  BY <1>0, ClosedUntouched, WholeKept DEF ContentInv
<1>1. ASSUME NEW b \in 0..2, b # currentcatch' \/ jpeg_data_ok' # 0 PROVE WholeFrame(b)'
  <2>1. CASE HAL_DCMI_FrameEventCallback
    <3>1. CASE CloseFrame
      <4>1. CASE b = currentcatch
        BY <2>1, <3>1, <4>1, CloseContent DEF ContentInv, CloseFrame, HAL_DCMI_FrameEventCallback
      <4>2. CASE b # currentcatch
        BY <1>0, <4>2
      <4> QED
        BY <4>1, <4>2
    <3>2. CASE RestartCapture \/ SkipFrame
      BY <1>0, <3>2 DEF RestartCapture, SkipFrame
    <3> QED
      BY <2>1, <3>1, <3>2 DEF HAL_DCMI_FrameEventCallback
  <2>2. CASE currentcatch' = currentcatch /\ (jpeg_data_ok' # 0 => jpeg_data_ok # 0)
    BY <1>0, <1>1, <2>2
  <2> QED
    BY <2>1, <2>2
    DEF Next, vars, frameVars, capcamera_task, SensorWords, SensorFrameEnd,
        jpeg_dcmi_rx_callback, WATCH_IMAGE, SET_STARTY240, udp_thread, udp_send_task,
        imgcamera_task, ImgAckFrame, ImgPoll, ImgPos, ImgNoLink, ImgNoMode, ImgStart,
        ImgPacket, ImgTrailer
<1>2. ASSUME jpeg_data_ok' = 0 PROVE OpenFrame'
  <2>1. CASE SensorWords
    <3>1. en /\ jpeg_data_ok = 0
      BY <1>2, <2>1 DEF SensorWords, frameVars, Inv, StreamInv
    <3> QED
      BY <2>1, <3>1, SensorContent DEF ContentInv
  <2>2. CASE jpeg_dcmi_rx_callback
    BY <1>2, <2>2, LineContent DEF jpeg_dcmi_rx_callback, ContentInv
  <2>3. CASE HAL_DCMI_FrameEventCallback
    <3>1. ndtr' = LINE /\ jpeg_data_len' = 0 /\ ~tcif'
      BY <1>2, <2>3 DEF HAL_DCMI_FrameEventCallback, CloseFrame, RestartCapture, SkipFrame,
                        Inv, StreamInv
    <3> QED
      BY <3>1, CaptureAssumption DEF OpenFrame
  <2>4. CASE /\ UNCHANGED <<pix, ct, ndtr, tcif, linebuf, jpeg_data_len, currentcatch, imgbuf, ov_frame>>
             /\ jpeg_data_ok = 0
    BY <2>4 DEF ContentInv, OpenFrame, CurrentFrame
  <2> QED
    BY <1>2, <2>1, <2>2, <2>3, <2>4
    DEF Next, vars, frameVars, hwVars, capcamera_task, SensorFrameEnd, WATCH_IMAGE,
        SET_STARTY240, udp_thread, udp_send_task, imgcamera_task, ImgAckFrame, ImgPoll,
        ImgPos, ImgNoLink, ImgNoMode, ImgStart, ImgPacket, ImgTrailer
<1>3. ASSUME pc' = "pkt", NEW f \in sent', NEW w \in 0..FRAME-1
      PROVE  imgbuf'[GetCatchPos'][w][1] = f
  <2>1. CASE ImgPacket
    <3>1. PICK g \in 0..U32 : \A v \in 0..FRAME-1 : imgbuf[GetCatchPos][v][1] = g
      BY <2>1, SentWhole DEF ImgPacket, Sending, WholeFrame
    <3>2. f = g
      BY <1>3, <2>1, <3>1 DEF ImgPacket, PacketWords, ContentInv
    <3> QED
      BY <2>1, <3>1, <3>2 DEF ImgPacket, frameVars
  <2>2. CASE UNCHANGED <<pc, GetCatchPos, sent>>
    <3>1. GetCatchPos \in 0..2 /\ (GetCatchPos # currentcatch \/ jpeg_data_ok # 0)
      BY <1>3, <2>2, OtherBuffer DEF Inv, TypeOK, TaskTypes, NotUnderCapture, Sending
    <3>2. FrameUntouched(GetCatchPos)
      BY <3>1, ClosedUntouched
    <3> QED
      BY <1>3, <2>2, <3>2 DEF FrameUntouched, ContentInv
  <2> QED
    BY <1>3, <2>1, <2>2
    DEF Next, vars, imgVars, capcamera_task, SensorWords, SensorFrameEnd,
        jpeg_dcmi_rx_callback, HAL_DCMI_FrameEventCallback, WATCH_IMAGE, SET_STARTY240,
        udp_thread, udp_send_task, imgcamera_task, ImgAckFrame, ImgPoll, ImgPos, ImgNoLink,
        ImgNoMode, ImgStart, ImgTrailer, Goto
<1> QED
  BY <1>1, <1>2, <1>3 DEF ContentInv

(* What was sent is of one frame, also once the image is complete.         *)
LEMMA SentStep == Inv /\ ContentInv /\ OneFramePerImage /\ [Next]_vars => OneFramePerImage'
<1> SUFFICES ASSUME Inv, ContentInv, OneFramePerImage, [Next]_vars PROVE OneFramePerImage'
  OBVIOUS
<1>1. CASE ImgPacket
  <2>1. pc' = "pkt" /\ 0 \in 0..FRAME-1
    BY <1>1, CaptureAssumption, FrameNat DEF ImgPacket
  <2> QED
    BY <2>1, ContentStep DEF ContentInv, OneFramePerImage
<1>2. CASE sent' = sent \/ sent' = {}
  BY <1>2 DEF OneFramePerImage
<1> QED
  BY <1>1, <1>2
  DEF Next, vars, imgVars, capcamera_task, SensorWords, SensorFrameEnd,
      jpeg_dcmi_rx_callback, HAL_DCMI_FrameEventCallback, WATCH_IMAGE, SET_STARTY240,
      udp_thread, udp_send_task, imgcamera_task, ImgAckFrame, ImgPoll, ImgPos, ImgNoLink,
      ImgNoMode, ImgStart, ImgTrailer

(* The contents hold in every reachable state.                             *)
LEMMA ContentCorrect == Spec => [](Inv /\ ContentInv /\ OneFramePerImage)
<1>1. Init => ContentInv
  <2> SUFFICES ASSUME Init PROVE ContentInv
    OBVIOUS
  <2> USE CaptureAssumption, FrameNat
  <2>1. \A b \in 0..2 : WholeFrame(b)
    BY DEF Init, WholeFrame
  <2>2. OpenFrame
    BY DEF Init, OpenFrame
  <2>3. pc # "pkt"
    BY DEF Init
  <2> QED
    BY <2>1, <2>2, <2>3 DEF ContentInv
<1>2. Init => OneFramePerImage
  BY DEF Init, OneFramePerImage
<1> QED
  BY <1>1, <1>2, InvCorrect, ContentStep, SentStep, PTL DEF Spec

(* Every image is read from one whole frame.                               *)
THEOREM ImagesWhole == Spec => []ImageWhole
<1>1. Inv /\ ContentInv => ImageWhole
  BY SentWhole DEF ImageWhole
<1> QED
  BY <1>1, ContentCorrect, PTL

(* All packets of an image come from the same exposure.                    *)
THEOREM ImagesUniform == Spec => []OneFramePerImage
BY ContentCorrect, PTL

-----------------------------------------------------------------------------
(* The window of a request.                                                *)
LEMMA WindowStep == TypeOK /\ WindowInv /\ [Next]_vars => WindowInv'
<1> SUFFICES ASSUME TypeOK, WindowInv, [Next]_vars PROVE WindowInv'
  OBVIOUS
<1> USE CaptureAssumption DEF WindowInv
<1>1. ASSUME NEW f \in FLAGS, WATCH_IMAGE(f) PROVE WindowInv'
  BY <1>1 DEF WATCH_IMAGE, imgVars
<1>2. CASE imgcamera_task
  <2>1. CASE ImgAckFrame \/ ImgNoLink \/ ImgNoMode \/ ImgTrailer
    BY <2>1 DEF ImgAckFrame, ImgNoLink, ImgNoMode, ImgTrailer, Goto
  <2>2. CASE ImgPoll
    BY <2>2 DEF ImgPoll, Goto, reqVars
  <2>3. ASSUME NEW n, NEW else \in {"pos1", "pos2", "mode"},
               NEW here \in {"pos0", "pos1", "pos2"}, ImgPos(n, here, else)
        PROVE  WindowInv'
    BY <2>3 DEF ImgPos, Goto, reqVars
  <2>4. CASE ImgStart
    BY <2>4 DEF ImgStart, Goto, reqVars, TypeOK, TaskTypes
  <2>5. CASE ImgPacket
    BY <2>5 DEF ImgPacket
  <2> QED
    BY <1>2, <2>1, <2>2, <2>3, <2>4, <2>5 DEF imgcamera_task
<1>3. CASE UNCHANGED <<jpeg_data_send, jpeg_data_pcsend_flag, pc, base, count>>
  BY <1>3
<1> QED
  BY <1>1, <1>2, <1>3
  DEF Next, vars, reqVars, imgVars, capcamera_task, SensorWords, SensorFrameEnd,
      jpeg_dcmi_rx_callback, HAL_DCMI_FrameEventCallback, SET_STARTY240, udp_thread,
      udp_send_task

(* A larger factor gives a larger product.                                 *)
LEMMA TimesMonotone ==
  ASSUME NEW a \in Nat, NEW b \in Nat, NEW p \in Nat, a <= b PROVE a * p <= b * p
OBVIOUS

(* Images of the first two modes are read inside the frame.                *)
THEOREM ImagesInFrame == Spec => []ImageInFrame
<1>1. Init => WindowInv
  BY DEF Init, WindowInv
<1>2. TypeOK /\ WindowInv => ImageInFrame
  <2> SUFFICES ASSUME TypeOK, WindowInv, pc = "pkt", jpeg_data_pcsend_flag \in {0, 1}
               PROVE  HDR + (base + count) * PKT <= FRAME
    BY DEF ImageInFrame
  <2>1. base + count \in Nat /\ 4 * HALF \in Nat /\ base + count <= 4 * HALF /\ PKT \in Nat
    BY CaptureAssumption DEF TypeOK, TaskTypes, WindowInv
  <2>2. (base + count) * PKT <= (4 * HALF) * PKT
    BY <2>1, TimesMonotone
  <2>3. (base + count) * PKT \in Nat
    BY <2>1
  <2> QED
    BY <2>2, <2>3, CaptureAssumption DEF FRAME
<1> QED
  BY <1>1, <1>2, TypeCorrect, WindowStep, PTL DEF Spec
=============================================================================
