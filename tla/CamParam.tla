------------------------------- MODULE CamParam -------------------------------
(***************************************************************************)
(* The camera's parameters: the copy in RAM (CurrentCamPara and StartY240),*)
(* the copy in the EEPROM, written byte by byte with a pause after each    *)
(* byte, and the registers of the MT9P031, written and read back until     *)
(* they hold the wanted value.  Power may fail at any moment.              *)
(*                                                                         *)
(* A parameter is a byte at an EEPROM address.  The addresses that only    *)
(* ever receive their default value (senstive1/2, mode, alg1/2, aoistarty, *)
(* aoishowstartx, aoishowendx, openclothstart, openclothend) are one       *)
(* address, "fixed".  A byte is written whole or not at all.               *)
(***************************************************************************)
EXTENDS Naturals, Sequences

CONSTANTS
  BYTE,           (* values of a byte: 256                                  *)
  MARK,           (* the byte at address 255 of an initialised chip: 0x25   *)
  EXPMIN, EXPMAX, (* exposures SET_DETECTPARA accepts: 2..29999             *)
  AOIMAX,         (* last row at which an AOI may start: 440                *)
  HMIN,           (* smallest height of an AOI: 48                          *)
  ROWMAX,         (* largest StartY240: 240                                 *)
  IDMAX,          (* largest camera id: 20                                  *)
  Default,        (* the default values, by key                             *)
  Lossy,          (* may a transfer to or from the sensor fail?             *)
  EarlyCommands   (* may commands arrive before the sensor is set up?       *)

Byte == 0..BYTE-1
Keys == {"id", "exposureh", "exposurel", "aoishowheight", "aoishowstartyh", "aoishowstartyl",
         "fixed", "status", "starty240", "marker"}

Word(h, l) == h * BYTE + l
Exposure(p) == Word(p["exposureh"], p["exposurel"])
AoiStart(p) == Word(p["aoishowstartyh"], p["aoishowstartyl"])

ASSUME ParamAssumption ==
  /\ BYTE \in Nat \ {0} /\ MARK \in Byte /\ MARK # BYTE - 1
  /\ {EXPMIN, EXPMAX, AOIMAX, HMIN, ROWMAX, IDMAX} \subseteq Nat
  /\ ROWMAX \in Byte /\ IDMAX \in Byte
  /\ Default \in [Keys -> Byte]
  /\ Default["marker"] = MARK /\ Default["starty240"] <= ROWMAX
  /\ Exposure(Default) <= EXPMAX /\ AoiStart(Default) <= AOIMAX
  /\ Lossy \in BOOLEAN /\ EarlyCommands \in BOOLEAN

(* The registers: the window of cmos_set_Aoi, the gain, the shutter.       *)
Regs == {"window", "gain", "shutter"}

VARIABLES
  eeprom,
  own,      \* keys the program has written since the chip was new
  para,     \* CurrentCamPara and StartY240
  run,      \* have the tasks been started?
  todo,     \* what is left of InitCamParaPacket or of the current command
  set,      \* cmos_set_Shutter called by udp_dataprocess_task: "write" or "read"
  sensor,   \* the registers
  cap,      \* control of capcamera_task
  capset,   \* its call of cmos_set_*: "write" or "read"
  capval    \* the value that call writes

dpVars  == <<eeprom, own, para, run, todo, set>>
capVars == <<cap, capset, capval>>
vars    == <<dpVars, sensor, capVars>>

(* A new chip, or one an older program without StartY240 has initialised,  *)
(* which did not write status either.                                      *)
Init ==
  /\ \/ eeprom = [key \in Keys |-> BYTE - 1] /\ own = {}
     \/ /\ eeprom = [Default EXCEPT !["starty240"] = BYTE - 1, !["status"] = BYTE - 1]
        /\ own = Keys \ {"status"}
  /\ para = eeprom /\ run = FALSE /\ todo = << [op |-> "init"] >> /\ set = "write"
  /\ sensor = [r \in Regs |-> 0]
  /\ cap = "probe" /\ capset = "write" /\ capval = 0

-----------------------------------------------------------------------------
(* A byte stored in RAM and in the EEPROM, a byte stored in the EEPROM     *)
(* alone, a call of cmos_set_Shutter, and status, which is cleared in RAM  *)
(* alone.                                                                  *)
Save(key, val) == [op |-> "save", key |-> key, val |-> val]
Store(key, val) == [op |-> "store", key |-> key, val |-> val]
Shutter(val) == [op |-> "shutter", val |-> val]
ClearStatus == [op |-> "clear"]

SaveDefault(key) == Save(key, Default[key])

(* Fault: the marker is written first.                                     *)
Defaults_MarkerFirst ==
  << SaveDefault("marker"), SaveDefault("id"), SaveDefault("aoishowheight"), SaveDefault("fixed"),
     SaveDefault("aoishowstartyh"), SaveDefault("aoishowstartyl"),
     SaveDefault("exposurel"), SaveDefault("exposureh"), ClearStatus, SaveDefault("starty240") >>

(* What InitCamParaPacket writes to a chip that bears no marker.           *)
Defaults ==
  << SaveDefault("id"), SaveDefault("aoishowheight"), SaveDefault("fixed"),
     SaveDefault("aoishowstartyh"), SaveDefault("aoishowstartyl"),
     SaveDefault("exposurel"), SaveDefault("exposureh"), ClearStatus,
     SaveDefault("starty240"), SaveDefault("marker") >>

(* Fault: a row that is out of range is taken as it is.                    *)
InitCamParaPacket_NoClamp ==
  /\ todo # <<>> /\ Head(todo).op = "init"
  /\ IF eeprom["marker"] = MARK
     THEN para' = eeprom /\ todo' = <<>>
     ELSE para' = para /\ todo' = Defaults
  /\ UNCHANGED <<eeprom, own, run, set, sensor, capVars>>

(* InitCamParaPacket: load the parameters, or write the defaults.          *)
InitCamParaPacket ==
  /\ todo # <<>> /\ Head(todo).op = "init"
  /\ IF eeprom["marker"] = MARK
     THEN /\ para' = eeprom
          /\ todo' = IF eeprom["starty240"] > ROWMAX THEN << Save("starty240", ROWMAX) >> ELSE <<>>
     ELSE para' = para /\ todo' = Defaults
  /\ UNCHANGED <<eeprom, own, run, set, sensor, capVars>>

(* main goes on to create the tasks.                                       *)
main ==
  /\ ~run /\ todo = <<>>
  /\ run' = TRUE
  /\ UNCHANGED <<eeprom, own, para, todo, set, sensor, capVars>>

(* AT24CXX_WriteOneByte: the byte is in the EEPROM; the pause that follows *)
(* lets other tasks run.                                                   *)
AT24CXX_WriteOneByte ==
  /\ todo # <<>> /\ Head(todo).op \in {"save", "store"}
  /\ LET w == Head(todo)
     IN  /\ eeprom' = [eeprom EXCEPT ![w.key] = w.val]
         /\ para' = IF w.op = "save" THEN [para EXCEPT ![w.key] = w.val] ELSE para
         /\ own' = own \cup {w.key}
  /\ todo' = Tail(todo)
  /\ UNCHANGED <<run, set, sensor, capVars>>

(* status gets its default in RAM; the address InitCamParaPacket loads it  *)
(* from is never written.                                                  *)
StatusCleared ==
  /\ todo # <<>> /\ Head(todo).op = "clear"
  /\ para' = [para EXCEPT !["status"] = Default["status"]]
  /\ todo' = Tail(todo)
  /\ UNCHANGED <<eeprom, own, run, set, sensor, capVars>>

-----------------------------------------------------------------------------
(* Fault: a command is taken while the last one is unfinished.             *)
Command_Reentrant(ops) ==
  /\ run
  /\ EarlyCommands \/ cap = "done"
  /\ todo' = todo \o ops
  /\ UNCHANGED <<eeprom, own, run, set, sensor, capVars>>

(* The commands of udp_dataprocess_task; each is taken when the one before *)
(* it is finished.                                                         *)
Command(ops) ==
  /\ run /\ todo = <<>>
  /\ EarlyCommands \/ cap = "done"
  /\ todo' = ops
  /\ UNCHANGED <<eeprom, own, run, set, sensor, capVars>>

(* Fault: the two bytes are stored in each other's place.                  *)
SET_DETECTPARA_Swapped(h, l) ==
  /\ Word(h, l) \in EXPMIN..EXPMAX
  /\ para' = [para EXCEPT !["exposureh"] = h, !["exposurel"] = l]
  /\ Command(<< Store("exposureh", l), Store("exposurel", h), Shutter(Word(h, l)) >>)

(* Fault: an exposure is tested against the lower limit only.              *)
SET_DETECTPARA_NoMax(h, l) ==
  /\ Word(h, l) >= EXPMIN
  /\ para' = [para EXCEPT !["exposureh"] = h, !["exposurel"] = l]
  /\ Command(<< Store("exposureh", h), Store("exposurel", l), Shutter(Word(h, l)) >>)

(* AT24CXX_WriteLenByte stores the low byte of TempVal, the high byte of   *)
(* the exposure, first.                                                    *)
SET_DETECTPARA(h, l) ==
  /\ Word(h, l) \in EXPMIN..EXPMAX
  /\ para' = [para EXCEPT !["exposureh"] = h, !["exposurel"] = l]
  /\ Command(<< Store("exposureh", h), Store("exposurel", l), Shutter(Word(h, l)) >>)

(* The new id is used after the next start.                                *)
SET_CAMID(changeid) ==
  /\ changeid > 0 /\ changeid <= IDMAX
  /\ Command(<< Store("id", changeid) >>)
  /\ UNCHANGED para

(* The part of an AOI that is in range and differs from the current one.   *)
AoiOps(h, l, height) ==
  (IF Word(h, l) <= AOIMAX /\ Word(h, l) # AoiStart(para)
   THEN << Save("aoishowstartyh", h), Save("aoishowstartyl", l) >> ELSE <<>>)
  \o (IF height >= HMIN /\ height # para["aoishowheight"]
      THEN << Save("aoishowheight", height) >> ELSE <<>>)

RowOps(row) == IF row <= ROWMAX THEN << Save("starty240", row) >> ELSE <<>>

SET_AOI(h, l, height) ==
  /\ AoiOps(h, l, height) # <<>>
  /\ Command(AoiOps(h, l, height))
  /\ UNCHANGED para

SET_STARTY240(row) ==
  /\ RowOps(row) # <<>>
  /\ Command(RowOps(row))
  /\ UNCHANGED para

(* GET_CAMINFO sets the AOI, replies and, for want of a break, sets        *)
(* StartY240 as well.                                                      *)
GET_CAMINFO(h, l, height, row) ==
  /\ Command(AoiOps(h, l, height) \o RowOps(row))
  /\ UNCHANGED para

(* The id and StartY240 keep their values.                                 *)
SET_PARA_RESET ==
  /\ Command(<< SaveDefault("aoishowheight"), SaveDefault("fixed"),
                SaveDefault("aoishowstartyh"), SaveDefault("aoishowstartyl"),
                SaveDefault("exposurel"), SaveDefault("exposureh"),
                Shutter(Exposure(Default)), SaveDefault("fixed"), ClearStatus >>)
  /\ UNCHANGED para

udp_dataprocess_task ==
  \/ \E h, l \in Byte : SET_DETECTPARA(h, l)
  \/ \E c \in Byte : SET_CAMID(c)
  \/ \E h, l, height \in Byte : SET_AOI(h, l, height)
  \/ \E row \in Byte : SET_STARTY240(row)
  \/ \E h, l, height, row \in Byte : GET_CAMINFO(h, l, height, row)
  \/ SET_PARA_RESET

-----------------------------------------------------------------------------
(* The sensor.                                                             *)

(* cmos_rset: nobody looks at its result, so a transfer may be lost.       *)
cmos_rset(reg, val) ==
  \/ sensor' = [sensor EXCEPT ![reg] = val]
  \/ Lossy /\ sensor' = sensor

(* Fault: the value is not read back.                                      *)
cmos_rget_Blind(reg, val, ok) == ok = TRUE

(* cmos_rget: does it return val?  A sensor that does not answer reads as  *)
(* 16#FFFF, which is never wanted.                                         *)
cmos_rget(reg, val, ok) ==
  \/ ok = (sensor[reg] = val)
  \/ Lossy /\ ok = FALSE

(* cmos_set_Shutter, called by udp_dataprocess_task: write, pause, read    *)
(* back, and again until the value is there.                               *)
ShutterWrite ==
  /\ todo # <<>> /\ Head(todo).op = "shutter" /\ set = "write"
  /\ cmos_rset("shutter", Head(todo).val)
  /\ set' = "read"
  /\ UNCHANGED <<eeprom, own, para, run, todo, capVars>>

ShutterRead ==
  /\ todo # <<>> /\ Head(todo).op = "shutter" /\ set = "read"
  /\ \E ok \in BOOLEAN : /\ cmos_rget("shutter", Head(todo).val, ok)
                         /\ todo' = IF ok THEN Tail(todo) ELSE todo
  /\ set' = "write"
  /\ UNCHANGED <<eeprom, own, para, run, sensor, capVars>>

(* capcamera_task, MT9P031_Init: wait for the sensor's id, reset it, set   *)
(* the window (four registers, one here) and the gain, both constants that *)
(* 1 stands for, and the shutter.                                          *)
CapProbe ==
  /\ run /\ cap = "probe"
  /\ cap' = "window" /\ capset' = "write" /\ capval' = 1
  /\ sensor' = [r \in Regs |-> 0]
  /\ UNCHANGED dpVars

CapWrite ==
  /\ cap \in Regs /\ capset = "write"
  /\ cmos_rset(cap, capval)
  /\ capset' = "read"
  /\ UNCHANGED <<dpVars, cap, capval>>

(* The arguments of the next call are read when the last one returns.      *)
CapRead ==
  /\ cap \in Regs /\ capset = "read"
  /\ capset' = "write"
  /\ \E ok \in BOOLEAN :
       /\ cmos_rget(cap, capval, ok)
       /\ cap' = IF ~ok THEN cap
                 ELSE IF cap = "window" THEN "gain"
                 ELSE IF cap = "gain" THEN "shutter" ELSE "done"
       /\ capval' = IF cap # "gain" \/ ~ok THEN capval ELSE Exposure(para)
  /\ UNCHANGED <<dpVars, sensor>>

capcamera_task == CapProbe \/ CapWrite \/ CapRead

-----------------------------------------------------------------------------
(* The power fails: the EEPROM keeps its bytes, the program starts again.  *)
(* What the RAM holds does not matter, InitCamParaPacket writes all of it. *)
PowerFail ==
  /\ run' = FALSE /\ todo' = << [op |-> "init"] >> /\ set' = "write"
  /\ sensor' = [r \in Regs |-> 0]
  /\ cap' = "probe" /\ capset' = "write" /\ capval' = 0
  /\ UNCHANGED <<eeprom, own, para>>

Next ==
  \/ InitCamParaPacket
  \/ main
  \/ AT24CXX_WriteOneByte
  \/ StatusCleared
  \/ udp_dataprocess_task
  \/ ShutterWrite
  \/ ShutterRead
  \/ capcamera_task
  \/ PowerFail

Spec == Init /\ [][Next]_vars

-----------------------------------------------------------------------------
Words == 0..BYTE * BYTE - 1

Ops ==
  [op : {"init", "clear"}] \cup [op : {"save", "store"}, key : Keys, val : Byte]
    \cup [op : {"shutter"}, val : Words]

(* Bytes are bytes, register values 16-bit words, and no more is ever left *)
(* to do than the defaults of InitCamParaPacket.                           *)
TypeOK ==
  /\ eeprom \in [Keys -> Byte] /\ para \in [Keys -> Byte]
  /\ own \subseteq Keys /\ run \in BOOLEAN
  /\ todo \in Seq(Ops) /\ Len(todo) <= Len(Defaults)
  /\ set \in {"write", "read"} /\ capset \in {"write", "read"}
  /\ sensor \in [Regs -> Words] /\ capval \in Words
  /\ cap \in {"probe", "done"} \cup Regs

(* The keys that the program both writes and loads: all but status.        *)
Written == Keys \ {"status"}

(* A power failure amid the first InitCamParaPacket (udp_demo.c:701-765)   *)
(* never leaves a marker over bytes of the new chip that a later start     *)
(* would load.  status is the exception: it is loaded (684), but its       *)
(* default (755, 572) is never written.                                    *)
MarkerLast == eeprom["marker"] = MARK => Written \subseteq own

(* Between commands the parameters in use are those a restart would load,  *)
(* whatever power failures came before.  Two are excepted: a new id waits  *)
(* for a restart, and status, whose cleared value is nowhere saved, has    *)
(* after one whatever byte the chip came with.                             *)
LiveIsSaved ==
  run /\ todo = <<>> => \A key \in Written \ {"id", "marker"} : para[key] = eeprom[key]

(* Whatever the EEPROM held at the start, the row at which images begin    *)
(* (MT9P031D.c:484) stays within the frame once the tasks run.             *)
RowInRange == run => para["starty240"] <= ROWMAX

(* An exposure or an AOI start changes byte by byte, with a pause between: *)
(* imgcamera_task may read a pair nobody set (MT9P031D.c:595), and after a *)
(* power failure a start may load one (udp_demo.c:391).  Still its high    *)
(* byte has passed a test, so the pair misses its limit by less than the   *)
(* values of a byte.                                                       *)
PairsBounded ==
  run => Exposure(para) < EXPMAX + BYTE /\ AoiStart(para) < AOIMAX + BYTE

(* Once the sensor is set up and no command is under way, its shutter is   *)
(* the exposure the camera reports, transfers lost on the way or not       *)
(* (udp_demo.c:392, MT9P031D.c:115-120).                                   *)
SensorFollows == cap = "done" /\ todo = <<>> => sensor["shutter"] = Exposure(para)
=============================================================================
