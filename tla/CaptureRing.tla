----------------------------- MODULE CaptureRing -----------------------------
(***************************************************************************)
(* The image path of the camera: the MT9P031 delivers frames over DCMI,    *)
(* DMA1_Stream1 fills two line buffers in turn, its interrupt copies each  *)
(* full line into one of three frame buffers in SDRAM, and the DCMI frame  *)
(* interrupt closes the frame and moves on to the next buffer.  The task   *)
(* imgcamera_task sends a finished frame packet by packet whenever         *)
(* udp_dataprocess_task has taken a WATCH_IMAGE command.                   *)
(*                                                                         *)
(* The two interrupts have the same pre-emption priority, so each handler  *)
(* is one atomic step, taken between any two steps of imgcamera_task.  A   *)
(* word of memory holds a pair <<frame, word>>: the frame it was exposed   *)
(* in (0 for memory nobody has written) and its place in that frame.       *)
(***************************************************************************)
EXTENDS Naturals

CONSTANTS
  LINE,     (* words in a line buffer: NETCAM_LINE_SIZE                     *)
  HDR,      (* words ahead of the first pixel: the "+32" of imgcamera_task  *)
  PKT,      (* words in an image packet: UDPIMAGESIZE / 4                   *)
  HALF,     (* rows in half a frame: 240                                    *)
  BUF,      (* words in a frame buffer: 2592*240                            *)
  FLAGS,    (* values of data2 in a WATCH_IMAGE command                     *)
  STARTYS,  (* values of data1 in a SET_STARTY240 command                   *)
  AOI,      (* AOI windows: [y : first row, h : rows]                       *)
  U32       (* values of a u32, at which ov_frame wraps: 2^32               *)

(* A row is sent as two packets; a frame is its header and 2*HALF rows.    *)
FRAME == HDR + 4 * HALF * PKT

ASSUME CaptureAssumption ==
  /\ LINE \in Nat \ {0}
  /\ HDR \in Nat
  /\ PKT \in Nat \ {0}
  /\ HALF \in Nat \ {0}
  /\ BUF \in Nat
  /\ LINE <= FRAME          \* a frame fills a line buffer at least once
  /\ FRAME + LINE <= BUF    \* 311048 + 4096 <= 622080
  /\ FLAGS \subseteq Nat
  /\ STARTYS \subseteq Nat
  /\ AOI \subseteq [y : Nat, h : Nat]
  /\ U32 \in Nat \ {0}

VARIABLES
  \* DCMI and DMA1_Stream1
  started,   \* DCMI_CR_CAPTURE and the stream have been enabled
  pix,       \* words of the current frame the sensor has delivered
  en,        \* EN bit of the stream
  ct,        \* CT bit of the stream: the line buffer being filled
  ndtr,      \* items left in the current line buffer
  tcif,      \* transfer-complete flag of the stream
  frameif,   \* DCMI frame interrupt flag
  linebuf,   \* netcam_line_buf0, netcam_line_buf1
  \* shared between the handlers and the tasks
  jpeg_data_ok,
  jpeg_data_len,
  currentcatch,
  imgbuf,    \* imgbuf2592x480x32
  ov_frame,
  jpeg_data_send,
  jpeg_data_pcsend_flag,
  StartY240,
  udp_flag,
  udp,       \* control of udp_thread
  \* imgcamera_task
  pc,
  GetCatchPos,
  base,      \* first packet of the window being sent
  count,     \* packets in the window
  i,
  sent       \* frames the words of the packets sent so far belong to

hwVars    == <<started, pix, en, ct, ndtr, tcif, frameif, linebuf>>
frameVars == <<jpeg_data_ok, jpeg_data_len, currentcatch, imgbuf, ov_frame>>
reqVars   == <<jpeg_data_send, jpeg_data_pcsend_flag, StartY240, udp_flag, udp>>
imgVars   == <<pc, GetCatchPos, base, count, i, sent>>
vars      == <<hwVars, frameVars, reqVars, imgVars>>

Words    == Nat \X Nat
LineBufs == [0..1 -> [0..LINE-1 -> Words]]
ImgBufs  == [0..2 -> [0..BUF-1 -> Words]]

Init ==
  /\ started = FALSE /\ pix = 0 /\ en = FALSE /\ ct = 0 /\ ndtr = LINE
  /\ tcif = FALSE /\ frameif = FALSE
  /\ linebuf = [b \in 0..1 |-> [w \in 0..LINE-1 |-> <<0, 0>>]]
  /\ jpeg_data_ok = 0 /\ jpeg_data_len = 0 /\ currentcatch = 0
  /\ imgbuf = [b \in 0..2 |-> [w \in 0..BUF-1 |-> <<0, 0>>]]
  /\ ov_frame = 0
  /\ jpeg_data_send = 0 /\ jpeg_data_pcsend_flag = 0
  /\ StartY240 \in 0..HALF
  /\ udp_flag = 0 /\ udp = "connect"
  /\ pc = "ok" /\ GetCatchPos = 0 /\ base = 0 /\ count = 0 /\ i = 0
  /\ sent = {}

-----------------------------------------------------------------------------
(* capcamera_task: MT9P031_Init polls the sensor until it answers, the DMA *)
(* is set up in double-buffer mode and the capture is started.             *)
capcamera_task ==
  /\ ~started
  /\ started' = TRUE
  /\ en' = TRUE
  /\ UNCHANGED <<pix, ct, ndtr, tcif, frameif, linebuf, frameVars, reqVars, imgVars>>

(* The stream's frame number: ov_frame counts every frame interrupt.       *)
CurrentFrame == ov_frame + 1

(* The sensor delivers words until the line buffer is full or the frame    *)
(* ends.  A line takes longer than either handler runs, so neither flag is *)
(* still pending.  With the stream disabled the words are lost.            *)
SensorWords ==
  LET n == IF ndtr <= FRAME - pix THEN ndtr ELSE FRAME - pix
      k == LINE - ndtr
  IN  /\ started /\ ~tcif /\ ~frameif
      /\ pix < FRAME
      /\ IF en
         THEN /\ pix' = pix + n
              /\ linebuf' = [linebuf EXCEPT ![ct] =
                   [w \in 0..LINE-1 |-> IF w >= k /\ w < k + n
                                        THEN <<CurrentFrame, pix + w - k>>
                                        ELSE @[w]]]
              /\ IF n = ndtr
                 THEN ct' = 1 - ct /\ ndtr' = LINE /\ tcif' = TRUE
                 ELSE ct' = ct /\ ndtr' = ndtr - n /\ tcif' = tcif
         ELSE /\ pix' = FRAME
              /\ UNCHANGED <<linebuf, ct, ndtr, tcif>>
      /\ UNCHANGED <<started, en, frameif, frameVars, reqVars, imgVars>>

(* The last word of the frame has arrived: the DCMI raises its interrupt.  *)
SensorFrameEnd ==
  /\ pix = FRAME /\ ~tcif /\ ~frameif
  /\ frameif' = TRUE
  /\ UNCHANGED <<started, pix, en, ct, ndtr, tcif, linebuf, frameVars, reqVars, imgVars>>

(* The buffer `buf` after n words of the line buffer `src` were copied to  *)
(* it at offset off.                                                       *)
Copied(buf, off, src, n) ==
  [w \in 0..BUF-1 |-> IF w >= off /\ w < off + n THEN src[w - off] ELSE buf[w]]

(* The line buffer both handlers read: netcam_line_buf0 when CT is set.    *)
ReadFrom(c) == linebuf[1 - c]

(* DMA1_Stream1_IRQHandler and jpeg_dcmi_rx_callback.                      *)
jpeg_dcmi_rx_callback ==
  /\ tcif
  /\ tcif' = FALSE
  /\ imgbuf' = [imgbuf EXCEPT ![currentcatch] =
                  Copied(@, jpeg_data_len, ReadFrom(ct), LINE)]
  /\ jpeg_data_len' = jpeg_data_len + LINE
  /\ UNCHANGED <<started, pix, en, ct, ndtr, frameif, linebuf, jpeg_data_ok,
                 currentcatch, ov_frame, reqVars, imgVars>>

(* Fault: the ring position is advanced but not wrapped.                   *)
CloseFrame_NoWrap ==
  /\ jpeg_data_ok = 0
  /\ en' = FALSE /\ tcif' = FALSE
  /\ currentcatch' = currentcatch + 1
  /\ jpeg_data_ok' = 1
  /\ UNCHANGED <<ndtr, ct, imgbuf, jpeg_data_len>>

(* Fault: the partial line at the end of the frame is not copied.          *)
CloseFrame_NoRemainder ==
  /\ jpeg_data_ok = 0
  /\ en' = FALSE /\ tcif' = en
  /\ currentcatch' = (currentcatch + 1) % 3
  /\ jpeg_data_ok' = 1
  /\ UNCHANGED <<ndtr, ct, imgbuf, jpeg_data_len>>

(* CT once EN is cleared.  The comments at main.c:142-153 take it to be    *)
(* what it was, the code that it has flipped; nothing in the repository    *)
(* settles it, so either happens.                                          *)
AfterStop(c) == {c, 1 - c}

(* First branch of jpeg_data_process: stop the stream, append the words of *)
(* a line buffer, close the frame.  Clearing EN raises TCIF.               *)
CloseFrame ==
  LET rlen == LINE - ndtr
  IN  /\ jpeg_data_ok = 0
      /\ en' = FALSE
      /\ tcif' = en
      /\ ct' \in AfterStop(ct)
      /\ imgbuf' = [imgbuf EXCEPT ![currentcatch] =
                      Copied(@, jpeg_data_len, ReadFrom(ct'), rlen)]
      /\ jpeg_data_len' = jpeg_data_len + rlen
      /\ currentcatch' = (currentcatch + 1) % 3
      /\ jpeg_data_ok' = 1
      /\ UNCHANGED ndtr

(* Fault: the length of the last frame is not reset.                       *)
RestartCapture_KeepLen ==
  /\ jpeg_data_ok = 2
  /\ ndtr' = LINE
  /\ en' = TRUE
  /\ jpeg_data_ok' = 0
  /\ UNCHANGED <<tcif, ct, imgbuf, currentcatch, jpeg_data_len>>

(* Fault: the next capture does not wait for imgcamera_task.               *)
RestartCapture_Eager ==
  /\ jpeg_data_ok \in {1, 2}
  /\ ndtr' = LINE
  /\ en' = TRUE
  /\ jpeg_data_ok' = 0
  /\ jpeg_data_len' = 0
  /\ UNCHANGED <<tcif, ct, imgbuf, currentcatch>>

(* Second branch: the closed frame has been taken note of, restart.        *)
RestartCapture ==
  /\ jpeg_data_ok = 2
  /\ ndtr' = LINE
  /\ en' = TRUE
  /\ jpeg_data_ok' = 0
  /\ jpeg_data_len' = 0
  /\ UNCHANGED <<tcif, ct, imgbuf, currentcatch>>

(* Neither branch: imgcamera_task has not seen the last frame yet.         *)
SkipFrame ==
  /\ jpeg_data_ok = 1
  /\ UNCHANGED <<en, tcif, ct, ndtr, imgbuf, jpeg_data_len, currentcatch, jpeg_data_ok>>

(* DCMI_IRQHandler, HAL_DCMI_FrameEventCallback and jpeg_data_process.     *)
HAL_DCMI_FrameEventCallback ==
  /\ frameif
  /\ CloseFrame \/ RestartCapture \/ SkipFrame
  /\ ov_frame' = IF ov_frame < U32 - 1 THEN ov_frame + 1 ELSE 0
  /\ frameif' = FALSE
  /\ pix' = 0
  /\ UNCHANGED <<started, linebuf, reqVars, imgVars>>

-----------------------------------------------------------------------------
(* udp_dataprocess_task runs at a higher priority than imgcamera_task and  *)
(* does not block inside these handlers: each is one step.                 *)
WATCH_IMAGE(f) ==
  /\ jpeg_data_send # 1
  /\ jpeg_data_pcsend_flag' = f
  /\ jpeg_data_send' = 1
  /\ UNCHANGED <<hwVars, frameVars, StartY240, udp_flag, udp, imgVars>>

(* Fault: the row is not checked against half the frame.                   *)
SET_STARTY240_Unchecked(v) ==
  /\ StartY240' = v
  /\ UNCHANGED <<hwVars, frameVars, jpeg_data_send, jpeg_data_pcsend_flag, udp_flag, udp,
                 imgVars>>

SET_STARTY240(v) ==
  /\ v <= HALF
  /\ StartY240' = v
  /\ UNCHANGED <<hwVars, frameVars, jpeg_data_send, jpeg_data_pcsend_flag, udp_flag, udp,
                 imgVars>>

(* udp_thread has connected, or netconn_recv reports that the connection   *)
(* is gone.                                                                *)
udp_thread ==
  /\ \/ udp = "connect" /\ udp' = "recv" /\ udp_flag' = 1
     \/ udp = "recv" /\ udp' = "connect" /\ udp_flag' = 0
  /\ UNCHANGED <<hwVars, frameVars, jpeg_data_send, jpeg_data_pcsend_flag, StartY240, imgVars>>

(* A reply could not be sent: udp_send_task drops the connection.          *)
udp_send_task ==
  /\ udp_flag = 1 /\ udp_flag' = 0
  /\ UNCHANGED <<hwVars, frameVars, jpeg_data_send, jpeg_data_pcsend_flag, StartY240, udp,
                 imgVars>>

-----------------------------------------------------------------------------
(* imgcamera_task: one pass of its loop.                                   *)
Goto(from, to) == pc = from /\ pc' = to

(* Fault: a closed frame is acknowledged only when no image is wanted.     *)
ImgAckFrame_WhenIdle ==
  /\ Goto("ok", "poll")
  /\ jpeg_data_ok' = IF jpeg_data_ok = 1 /\ jpeg_data_send = 0 THEN 2 ELSE jpeg_data_ok
  /\ UNCHANGED <<hwVars, jpeg_data_len, currentcatch, imgbuf, ov_frame, reqVars,
                 GetCatchPos, base, count, i, sent>>

ImgAckFrame ==
  /\ Goto("ok", "poll")
  /\ jpeg_data_ok' = IF jpeg_data_ok = 1 THEN 2 ELSE jpeg_data_ok
  /\ UNCHANGED <<hwVars, jpeg_data_len, currentcatch, imgbuf, ov_frame, reqVars,
                 GetCatchPos, base, count, i, sent>>

ImgPoll ==
  /\ Goto("poll", IF jpeg_data_send = 1 THEN "pos0" ELSE "ok")
  /\ UNCHANGED <<hwVars, frameVars, reqVars, GetCatchPos, base, count, i, sent>>

(* Fault: the buffer under capture is sent instead of the last closed one. *)
ImgPos_Current(n, here, else) ==
  LET hit == currentcatch = n
  IN  /\ Goto(here, IF hit THEN "mode" ELSE else)
      /\ GetCatchPos' = IF hit THEN n ELSE GetCatchPos
      /\ UNCHANGED <<hwVars, frameVars, reqVars, base, count, i, sent>>

(* currentcatch is volatile and is read again for every comparison; when   *)
(* none of the three matches, GetCatchPos keeps its value.                 *)
ImgPos(n, here, else) ==
  LET hit == currentcatch = n
  IN  /\ Goto(here, IF hit THEN "mode" ELSE else)
      /\ GetCatchPos' = IF hit THEN (n + 2) % 3 ELSE GetCatchPos
      /\ UNCHANGED <<hwVars, frameVars, reqVars, base, count, i, sent>>

(* Fault: with the connection down the request stays pending.              *)
ImgNoLink_Keep ==
  /\ Goto("mode", "ok")
  /\ jpeg_data_pcsend_flag \in {0, 1, 3}
  /\ udp_flag # 1
  /\ UNCHANGED <<hwVars, frameVars, reqVars, GetCatchPos, base, count, i, sent>>

(* The request is dropped unsent when the connection is down.              *)
ImgNoLink ==
  /\ Goto("mode", "ok")
  /\ jpeg_data_pcsend_flag \in {0, 1, 3}
  /\ udp_flag # 1
  /\ jpeg_data_send' = 0
  /\ UNCHANGED <<hwVars, frameVars, jpeg_data_pcsend_flag, StartY240, udp_flag, udp,
                 GetCatchPos, base, count, i, sent>>

(* No branch takes the request: jpeg_data_send keeps its value.            *)
ImgNoMode ==
  /\ Goto("mode", "ok")
  /\ jpeg_data_pcsend_flag \notin {0, 1, 3}
  /\ UNCHANGED <<hwVars, frameVars, reqVars, GetCatchPos, base, count, i, sent>>

(* The packets of a mode: 0 half a frame from row StartY240, 1 the whole   *)
(* frame, 3 the rows of the AOI.                                           *)
ImgStart ==
  /\ Goto("mode", "pkt")
  /\ udp_flag = 1
  /\ \/ /\ jpeg_data_pcsend_flag = 0
        /\ base' = 2 * StartY240 /\ count' = 2 * HALF
     \/ /\ jpeg_data_pcsend_flag = 1
        /\ base' = 0 /\ count' = 4 * HALF
     \/ /\ jpeg_data_pcsend_flag = 3
        /\ \E win \in AOI : base' = 2 * win.y /\ count' = 2 * win.h
  /\ i' = 0
  /\ sent' = {}
  /\ UNCHANGED <<hwVars, frameVars, reqVars, GetCatchPos>>

(* The words of packet n of the window; those past the frame's end hold no *)
(* pixel and are not recorded in sent.                                     *)
PacketWords(n) == {w \in 0..FRAME-1 : /\ w >= HDR + (base + n) * PKT
                                      /\ w < HDR + (base + n + 1) * PKT}

(* Fault: every packet is read from the frame that was closed last.        *)
ImgPacket_Latest ==
  /\ pc = "pkt" /\ i < count
  /\ sent' = sent \cup {imgbuf[(currentcatch + 2) % 3][w][1] : w \in PacketWords(i)}
  /\ i' = i + 1
  /\ udp_flag' \in {udp_flag, 0}
  /\ UNCHANGED <<hwVars, frameVars, jpeg_data_send, jpeg_data_pcsend_flag, StartY240, udp,
                 pc, GetCatchPos, base, count>>

(* netconn_send may report a closed connection; the loop goes on.          *)
ImgPacket ==
  /\ pc = "pkt" /\ i < count
  /\ sent' = sent \cup {imgbuf[GetCatchPos][w][1] : w \in PacketWords(i)}
  /\ i' = i + 1
  /\ udp_flag' \in {udp_flag, 0}
  /\ UNCHANGED <<hwVars, frameVars, jpeg_data_send, jpeg_data_pcsend_flag, StartY240, udp,
                 pc, GetCatchPos, base, count>>

(* The short packet that ends the image, then the request is cleared.      *)
ImgTrailer ==
  /\ i = count
  /\ Goto("pkt", "ok")
  /\ udp_flag' \in {udp_flag, 0}
  /\ jpeg_data_send' = 0
  /\ UNCHANGED <<hwVars, frameVars, jpeg_data_pcsend_flag, StartY240, udp,
                 GetCatchPos, base, count, i, sent>>

imgcamera_task ==
  \/ ImgAckFrame
  \/ ImgPoll
  \/ ImgPos(0, "pos0", "pos1")
  \/ ImgPos(1, "pos1", "pos2")
  \/ ImgPos(2, "pos2", "mode")
  \/ ImgNoLink
  \/ ImgNoMode
  \/ ImgStart
  \/ ImgPacket
  \/ ImgTrailer

Next ==
  \/ capcamera_task
  \/ SensorWords
  \/ SensorFrameEnd
  \/ jpeg_dcmi_rx_callback
  \/ HAL_DCMI_FrameEventCallback
  \/ \E f \in FLAGS : WATCH_IMAGE(f)
  \/ \E v \in STARTYS : SET_STARTY240(v)
  \/ udp_thread
  \/ udp_send_task
  \/ imgcamera_task

Spec == Init /\ [][Next]_vars

(* The sensor never stops, a pending interrupt is always taken, and the    *)
(* lowest-priority task runs whenever nothing else is ready.               *)
Fairness ==
  /\ WF_vars(capcamera_task)
  /\ WF_vars(SensorWords)
  /\ WF_vars(SensorFrameEnd)
  /\ WF_vars(jpeg_dcmi_rx_callback)
  /\ WF_vars(HAL_DCMI_FrameEventCallback)
  /\ WF_vars(imgcamera_task)

FairSpec == Spec /\ Fairness

-----------------------------------------------------------------------------
(* Every variable has the type the code declares for it.                   *)
BitTypes ==
  /\ started \in BOOLEAN /\ en \in BOOLEAN
  /\ tcif \in BOOLEAN /\ frameif \in BOOLEAN

StreamTypes ==
  /\ pix \in 0..FRAME /\ ct \in 0..1 /\ ndtr \in 1..LINE
  /\ linebuf \in LineBufs

FrameTypes ==
  /\ jpeg_data_ok \in 0..2 /\ jpeg_data_len \in Nat /\ currentcatch \in 0..2
  /\ imgbuf \in ImgBufs
  /\ ov_frame \in 0..U32-1

TaskTypes ==
  /\ jpeg_data_send \in 0..1 /\ jpeg_data_pcsend_flag \in Nat
  /\ StartY240 \in 0..HALF /\ udp_flag \in 0..1 /\ udp \in {"connect", "recv"}
  /\ pc \in {"ok", "poll", "pos0", "pos1", "pos2", "mode", "pkt"}
  /\ GetCatchPos \in 0..2 /\ base \in Nat /\ count \in Nat /\ i \in 0..count
  /\ sent \subseteq Nat

TypeOK == BitTypes /\ StreamTypes /\ FrameTypes /\ TaskTypes

(* The stream runs exactly while a frame is open, and accounts for every   *)
(* word of it: what was copied, what waits in a full line buffer and what  *)
(* is in the open one.  Stopping it leaves one line interrupt pending,     *)
(* which appends a line past the end of the frame.                         *)
StreamInv ==
  /\ en <=> started /\ jpeg_data_ok = 0
  /\ ~started => /\ jpeg_data_ok = 0 /\ jpeg_data_len = 0 /\ pix = 0
                 /\ ndtr = LINE /\ ~tcif
  /\ frameif => pix = FRAME /\ ~tcif
  /\ jpeg_data_ok = 0 =>
       /\ ~tcif => jpeg_data_len + (LINE - ndtr) = pix
       /\ tcif  => jpeg_data_len + LINE = pix /\ ndtr = LINE
  /\ jpeg_data_ok # 0 =>
       /\ tcif  => jpeg_data_len = FRAME
       /\ ~tcif => jpeg_data_len = FRAME + LINE

(* Neither handler copies past the end of a frame buffer: not the last     *)
(* line, not the remainder, and not the extra line that the interrupt      *)
(* raised by stopping the stream appends to the next buffer.               *)
CopyInBuffer == jpeg_data_len <= BUF

(* imgcamera_task has fixed the buffer it is going to send from.           *)
Sending == pc \in {"mode", "pkt"}

(* GetCatchPos is the buffer behind currentcatch, unless a frame was       *)
(* closed since currentcatch was first read: then capturing waits for      *)
(* imgcamera_task, which is busy sending.                                  *)
PosInv ==
  /\ pc = "pos1" => currentcatch # 0 \/ jpeg_data_ok = 1
  /\ pc = "pos2" => currentcatch = 2 \/ jpeg_data_ok = 1
  /\ Sending => GetCatchPos = (currentcatch + 2) % 3 \/ jpeg_data_ok = 1

(* The buffer being sent is never the one a capture is filling.            *)
NotUnderCapture == Sending => (GetCatchPos # currentcatch \/ jpeg_data_ok = 1)

(* The words of a closed frame: one exposure, and each in its place except *)
(* for the last partial line, which may come from the other line buffer.   *)
WholeFrame(b) ==
  \E f \in 0..U32 : \A w \in 0..FRAME-1 :
    /\ imgbuf[b][w][1] = f
    /\ w + LINE <= FRAME /\ f > 0 => imgbuf[b][w][2] = w

(* What the memories hold while a frame is open: the words copied so far,  *)
(* the open line buffer, and the full one.                                 *)
OpenFrame ==
  /\ \A w \in 0..BUF-1 :
       w < jpeg_data_len => imgbuf[currentcatch][w] = <<CurrentFrame, w>>
  /\ \A w \in 0..LINE-1 :
       w < LINE - ndtr => linebuf[ct][w] = <<CurrentFrame, pix - (LINE - ndtr) + w>>
  /\ jpeg_data_len > 0 \/ tcif => \A w \in 0..LINE-1 : linebuf[1 - ct][w][1] = CurrentFrame
  /\ tcif => \A w \in 0..LINE-1 : linebuf[1 - ct][w] = <<CurrentFrame, jpeg_data_len + w>>

(* Every buffer but the one under capture holds a closed frame, and the    *)
(* packets sent so far were read from the one being sent.                  *)
ContentInv ==
  /\ \A b \in 0..2 : b # currentcatch \/ jpeg_data_ok # 0 => WholeFrame(b)
  /\ jpeg_data_ok = 0 => OpenFrame
  /\ pc = "pkt" => \A f \in sent : \A w \in 0..FRAME-1 : imgbuf[GetCatchPos][w][1] = f

(* The frame in the buffer being sent is whole: its words were all exposed *)
(* in one frame, and all but the last partial line are in their place.     *)
ImageWhole == Sending => WholeFrame(GetCatchPos)

(* All packets of an image come from one frame, whatever the interrupts    *)
(* do between the packets.                                                 *)
OneFramePerImage == \A f, g \in sent : f = g

(* While a request is worked on no other one is accepted, so the window    *)
(* that was chosen still belongs to jpeg_data_pcsend_flag.                 *)
WindowInv ==
  /\ pc \notin {"ok", "poll"} => jpeg_data_send = 1
  /\ pc = "pkt" /\ jpeg_data_pcsend_flag \in {0, 1} => base + count <= 4 * HALF

(* Half-frame and full-frame images are read inside the captured frame.    *)
ImageInFrame ==
  pc = "pkt" /\ jpeg_data_pcsend_flag \in {0, 1} => HDR + (base + count) * PKT <= FRAME

(* While an image is being sent no interrupt writes to the frame it is     *)
(* read from.                                                              *)
FrameUntouched(b) == \A w \in 0..FRAME-1 : imgbuf'[b][w] = imgbuf[b][w]

ImageStable == [][Sending => FrameUntouched(GetCatchPos)]_vars

(* A request in one of the three modes is eventually answered or dropped.  *)
RequestServed ==
  (jpeg_data_send = 1 /\ jpeg_data_pcsend_flag \in {0, 1, 3}) ~> (jpeg_data_send = 0)

(* "An image has to be sent: on to imgcamera_task" (udp_demo.c:359): every *)
(* WATCH_IMAGE request is eventually answered or dropped.                  *)
EveryRequestServed == (jpeg_data_send = 1) ~> (jpeg_data_send = 0)

(* A closed frame never stops the camera: capturing starts again, however  *)
(* long an image takes to send and whatever request is pending.            *)
CaptureResumes == (jpeg_data_ok # 0) ~> (jpeg_data_ok = 0)
=============================================================================
