---------------------------- MODULE CamParamProofs ----------------------------
(***************************************************************************)
(* Proofs about CamParam for bytes of any width, any limits and defaults   *)
(* within them, and any losses on the bus.                                 *)
(***************************************************************************)
EXTENDS CamParam, SequenceTheorems, TLAPS

Writes(w, key) == w.op \in {"save", "store"} /\ w.key = key

(* A value that the program writes under a key may be loaded again: a row  *)
(* is within its range, and a high byte alone is within that of its pair.  *)
Fits(key, val) ==
  /\ key = "starty240" => val <= ROWMAX
  /\ key = "exposureh" => val * BYTE <= EXPMAX
  /\ key = "aoishowstartyh" => val * BYTE <= AOIMAX

Checked == {"starty240", "exposureh", "aoishowstartyh"}

Loading == todo # <<>> /\ Head(todo).op = "init"

(* InitCamParaPacket is all there is to do before it has looked at the     *)
(* EEPROM, and it is done when the tasks run.                              *)
LoadInv ==
  \A i \in DOMAIN todo : todo[i].op = "init" => Len(todo) = 1 /\ ~run

(* A marker is written when every other key that is ever written has been, *)
(* or will be before.                                                      *)
MarkerInv ==
  /\ MarkerLast
  /\ \A i \in DOMAIN todo : Writes(todo[i], "marker") =>
       todo[i].val = MARK /\ \A key \in Written \ own : \E j \in 1..i : Writes(todo[j], key)

(* A value in RAM that is not that of the EEPROM is about to be written.   *)
SavedInv ==
  /\ Loading \/ \A key \in Written \ {"id", "marker"} :
       para[key] = eeprom[key] \/ \E i \in DOMAIN todo : Writes(todo[i], key)
  /\ \A i \in DOMAIN todo : todo[i].op = "store" =>
       /\ todo[i].key # "status"
       /\ todo[i].key # "id" => todo[i].val = para[todo[i].key]
       /\ \A j \in DOMAIN todo : todo[j].op # "save"

(* What has been and will be written fits; so does what the tasks use.     *)
FitsInv ==
  /\ \A key \in Checked \ {"starty240"} : key \in own => Fits(key, eeprom[key])
  /\ \A i \in DOMAIN todo : \A key \in Checked :
       Writes(todo[i], key) => Fits(key, todo[i].val)
  /\ \A key \in Checked :
       \/ Loading
       \/ Fits(key, para[key])
       \/ ~run /\ \E i \in DOMAIN todo : todo[i].op = "save" /\ todo[i].key = key

Inv == TypeOK /\ LoadInv /\ MarkerInv /\ SavedInv /\ FitsInv

(* When the operations before the i-th are done on p, key has value val.   *)
Reaches(ops, p, key, val, i) ==
  /\ p[key] = val \/ \E j \in 1..i-1 : ops[j].op = "save" /\ ops[j].key = key
  /\ \A j \in DOMAIN ops : ops[j].op = "save" /\ ops[j].key = key => j < i /\ ops[j].val = val

(* The i-th operation sets the shutter to the exposure p then has.         *)
Follows(ops, p, i) ==
  \E h, l \in Byte : /\ ops[i].val = Word(h, l)
                     /\ Reaches(ops, p, "exposureh", h, i) /\ Reaches(ops, p, "exposurel", l, i)

(* While the sensor is set up no command is taken, and then only commands  *)
(* that set the shutter change the exposure.                               *)
SensorInv ==
  /\ ~run => cap = "probe" /\ \A i \in DOMAIN todo : todo[i].op # "shutter"
  /\ run /\ cap # "done" => todo = <<>>
  /\ cap = "shutter" => capval = Exposure(para)
  /\ \A i \in DOMAIN todo : todo[i].op = "shutter" => Follows(todo, para, i)
  /\ cap = "done" /\ (\A i \in DOMAIN todo : todo[i].op # "shutter") =>
       /\ sensor["shutter"] = Exposure(para)
       /\ \A i \in DOMAIN todo : todo[i].op = "save" => todo[i].key \notin {"exposureh", "exposurel"}

-----------------------------------------------------------------------------
(* Arithmetic of bytes and words.                                          *)
LEMMA Bytes ==
  /\ BYTE \in Nat /\ BYTE >= 2 /\ {0, 1} \subseteq Words
  /\ \A h, l \in Byte : /\ Word(h, l) \in Words
                        /\ h * BYTE \in Nat /\ h * BYTE <= Word(h, l)
                        /\ Word(h, l) < h * BYTE + BYTE
<1>1. BYTE \in Nat /\ BYTE >= 2
  BY ParamAssumption DEF Byte
<1>2. ASSUME NEW h \in Byte, NEW l \in Byte
      PROVE  /\ Word(h, l) \in Words
             /\ h * BYTE \in Nat /\ h * BYTE <= Word(h, l) /\ Word(h, l) < h * BYTE + BYTE
  <2>1. h \in Nat /\ l \in Nat /\ h <= BYTE - 1 /\ l <= BYTE - 1
    BY <1>1 DEF Byte
  <2>2. h * BYTE \in Nat
    BY <1>1, <2>1
  <2>3. h * BYTE <= (BYTE - 1) * BYTE
    BY <1>1, <2>1
  <2>4. (BYTE - 1) * BYTE = BYTE * BYTE - BYTE /\ BYTE * BYTE \in Nat
    BY <1>1
  <2> QED
    BY <1>1, <2>1, <2>2, <2>3, <2>4 DEF Word, Words
<1>3. {0, 1} \subseteq Words
  <2>1. BYTE * BYTE >= 2 * BYTE /\ BYTE * BYTE \in Nat
    BY <1>1
  <2> QED
    BY <1>1, <2>1 DEF Words
<1> QED
  BY <1>1, <1>2, <1>3

(* The records are what they say.                                          *)
LEMMA OpFields ==
  /\ \A key \in Keys, val \in Byte :
       /\ Save(key, val) \in Ops /\ Save(key, val).op = "save"
       /\ Save(key, val).key = key /\ Save(key, val).val = val
       /\ Store(key, val) \in Ops /\ Store(key, val).op = "store"
       /\ Store(key, val).key = key /\ Store(key, val).val = val
  /\ \A val \in Words : /\ Shutter(val) \in Ops /\ Shutter(val).op = "shutter"
                        /\ Shutter(val).val = val
  /\ ClearStatus \in Ops /\ ClearStatus.op = "clear"
  /\ \A key \in Keys : Default[key] \in Byte
BY ParamAssumption DEF Save, Store, Shutter, ClearStatus, Ops

(* The fields of an operation, by its kind.                                *)
LEMMA OpTypes ==
  ASSUME NEW w \in Ops
  PROVE  /\ w.op \in {"init", "clear", "save", "store", "shutter"}
         /\ w.op \in {"save", "store"} => w.key \in Keys /\ w.val \in Byte
         /\ w.op = "shutter" => w.val \in Words
BY DEF Ops

(* The record for a default.                                               *)
LEMMA DefaultFields ==
  ASSUME NEW key \in Keys
  PROVE  /\ SaveDefault(key) \in Ops /\ SaveDefault(key).op = "save"
         /\ SaveDefault(key).key = key /\ SaveDefault(key).val = Default[key]
BY OpFields DEF SaveDefault

(* The defaults, one by one.                                               *)
LEMMA DefaultsList ==
  /\ Defaults \in Seq(Ops) /\ Len(Defaults) = 10 /\ DOMAIN Defaults = 1..10
  /\ Defaults[1] = SaveDefault("id") /\ Defaults[2] = SaveDefault("aoishowheight")
  /\ Defaults[3] = SaveDefault("fixed") /\ Defaults[4] = SaveDefault("aoishowstartyh")
  /\ Defaults[5] = SaveDefault("aoishowstartyl") /\ Defaults[6] = SaveDefault("exposurel")
  /\ Defaults[7] = SaveDefault("exposureh") /\ Defaults[8] = ClearStatus
  /\ Defaults[9] = SaveDefault("starty240") /\ Defaults[10] = SaveDefault("marker")
<1>1. ClearStatus \in Ops /\ \A key \in Keys : SaveDefault(key) \in Ops
  BY DefaultFields, OpFields
<1> QED
  BY <1>1 DEF Defaults, Keys

(* The queue of things to do, when its first entry is done.                *)
LEMMA Rest ==
  ASSUME todo \in Seq(Ops), todo # <<>>, todo' = Tail(todo)
  PROVE  /\ todo' \in Seq(Ops) /\ Len(todo) \in Nat \ {0} /\ Len(todo') = Len(todo) - 1
         /\ DOMAIN todo = 1..Len(todo) /\ DOMAIN todo' = 1..Len(todo)-1
         /\ \A i \in 1..Len(todo)-1 : todo'[i] = todo[i+1]
         /\ Head(todo) = todo[1] /\ todo[1] \in Ops
         /\ todo' # <<>> => Head(todo') = todo[2] /\ Len(todo) >= 2
<1>1. Len(todo) \in Nat \ {0} /\ DOMAIN todo = 1..Len(todo)
  BY EmptySeq, LenProperties
<1>2. /\ todo' \in Seq(Ops) /\ Len(todo') = Len(todo) - 1 /\ Head(todo) = todo[1]
      /\ todo[1] \in Ops /\ \A i \in 1..Len(todo)-1 : todo'[i] = todo[i+1]
  BY <1>1, HeadTailProperties
<1> QED
  BY <1>1, <1>2, EmptySeq, LenProperties, HeadTailProperties

(* A byte is written.                                                      *)
LEMMA WriteStep == Inv /\ AT24CXX_WriteOneByte => Inv'
<1> SUFFICES ASSUME Inv, AT24CXX_WriteOneByte PROVE Inv'
  OBVIOUS
<1> DEFINE w == todo[1]
           n == Len(todo)
<1>0. todo \in Seq(Ops) /\ todo # <<>> /\ todo' = Tail(todo)
  BY DEF Inv, TypeOK, AT24CXX_WriteOneByte
<1>1. /\ todo' \in Seq(Ops) /\ n \in Nat \ {0} /\ Len(todo') = n - 1
      /\ DOMAIN todo = 1..n /\ DOMAIN todo' = 1..n-1
      /\ \A i \in 1..n-1 : todo'[i] = todo[i+1]
      /\ Head(todo) = w /\ w \in Ops
      /\ todo' # <<>> => Head(todo') = todo[2] /\ n >= 2
  BY <1>0, Rest
<1>2. /\ w.op \in {"save", "store"} /\ w.key \in Keys /\ w.val \in Byte
      /\ eeprom' = [eeprom EXCEPT ![w.key] = w.val]
      /\ para' = IF w.op = "save" THEN [para EXCEPT ![w.key] = w.val] ELSE para
      /\ own' = own \cup {w.key}
      /\ UNCHANGED <<run, set, sensor, capVars>>
  BY <1>1, OpTypes DEF AT24CXX_WriteOneByte
<1> HIDE DEF w, n
<1>3. /\ eeprom'[w.key] = w.val
      /\ \A key \in Keys : key # w.key => eeprom'[key] = eeprom[key] /\ para'[key] = para[key]
      /\ para'[w.key] = IF w.op = "save" THEN w.val ELSE para[w.key]
  BY <1>2 DEF Inv, TypeOK
<1>4. TypeOK'
  BY <1>1, <1>2 DEF Inv, TypeOK, capVars, n
<1>5. LoadInv' /\ ~Loading
  <2>1. ~Loading
    BY <1>1, <1>2 DEF Loading
  <2>2. ASSUME NEW i \in 1..n-1, todo'[i].op = "init" PROVE FALSE
    <3>1. i + 1 \in DOMAIN todo /\ todo[i+1].op = "init" /\ n # 1
      BY <1>1, <2>2
    <3> QED
      BY <3>1 DEF Inv, LoadInv, n
  <2> QED
    BY <1>1, <2>1, <2>2 DEF LoadInv
<1>6. MarkerInv'
  <2>1. MarkerLast'
    <3>1. CASE w.key = "marker"
      <4>1. \A key \in Written \ own : Writes(todo[1], key)
        BY <1>1, <1>2, <3>1 DEF Inv, MarkerInv, Writes, w
      <4> QED
        BY <1>2, <3>1, <4>1 DEF MarkerLast, Inv, TypeOK, Writes, w
    <3>2. CASE w.key # "marker"
      BY <1>2, <1>3, <3>2 DEF Inv, MarkerInv, MarkerLast, Keys
    <3> QED
      BY <3>1, <3>2
  <2>2. ASSUME NEW i \in 1..n-1, Writes(todo'[i], "marker")
        PROVE  todo'[i].val = MARK /\ \A key \in Written \ own' : \E j \in 1..i : Writes(todo'[j], key)
    <3>1. i + 1 \in 1..n /\ todo'[i] = todo[i+1]
      BY <1>1
    <3>2. todo[i+1].val = MARK /\ \A key \in Written \ own : \E j \in 1..i+1 : Writes(todo[j], key)
      BY <1>1, <2>2, <3>1 DEF Inv, MarkerInv
    <3>3. ASSUME NEW key \in Written \ own' PROVE \E j \in 1..i : Writes(todo'[j], key)
      <4>1. key \in Written \ own /\ key # w.key
        BY <1>2
      <4>2. PICK j \in 1..i+1 : Writes(todo[j], key)
        BY <3>2, <4>1
      <4>3. j # 1
        BY <4>1, <4>2 DEF Writes, w
      <4>4. j - 1 \in 1..i /\ todo'[j-1] = todo[j]
        BY <1>1, <4>3
      <4> QED
        BY <4>2, <4>4
    <3> QED
      BY <3>1, <3>2, <3>3
  <2> QED
    BY <1>1, <2>1, <2>2 DEF MarkerInv
<1>7. SavedInv'
  <2>1. ASSUME NEW key \in Written \ {"id", "marker"}
        PROVE  para'[key] = eeprom'[key] \/ \E i \in 1..n-1 : Writes(todo'[i], key)
    <3>0. key \in Keys
      BY DEF Written
    <3>1. CASE w.key = key
      <4>1. w.op = "store" => w.val = para[key]
        BY <1>1, <3>1 DEF Inv, SavedInv, w
      <4> QED
        BY <1>2, <1>3, <3>1, <4>1
    <3>2. CASE w.key # key
      <4>1. CASE para[key] = eeprom[key]
        BY <1>3, <3>0, <3>2, <4>1
      <4>2. CASE \E i \in 1..n : Writes(todo[i], key)
        <5>1. PICK i \in 1..n : Writes(todo[i], key)
          BY <4>2
        <5>2. i # 1
          BY <3>2, <5>1 DEF Writes, w
        <5>3. i - 1 \in 1..n-1 /\ todo'[i-1] = todo[i]
          BY <1>1, <5>2
        <5> QED
          BY <5>1, <5>3
      <4> QED
        BY <1>1, <1>5, <4>1, <4>2 DEF Inv, SavedInv
    <3> QED
      BY <3>1, <3>2
  <2>2. ASSUME NEW i \in 1..n-1, todo'[i].op = "store"
        PROVE  /\ todo'[i].key # "status"
               /\ todo'[i].key # "id" => todo'[i].val = para'[todo'[i].key]
               /\ \A j \in 1..n-1 : todo'[j].op # "save"
    <3>1. i + 1 \in DOMAIN todo /\ 1 \in DOMAIN todo /\ todo'[i] = todo[i+1]
      BY <1>1
    <3>2. /\ todo[i+1].key # "status"
          /\ todo[i+1].key # "id" => todo[i+1].val = para[todo[i+1].key]
          /\ \A j \in 1..n : todo[j].op # "save"
      BY <1>1, <2>2, <3>1 DEF Inv, SavedInv
    <3>3. para' = para
      BY <1>1, <1>2, <3>2 DEF w
    <3> QED
      BY <1>1, <3>1, <3>2, <3>3
  <2> QED
    BY <1>1, <2>1, <2>2 DEF SavedInv
<1>8. FitsInv'
  <2>1. \A key \in Checked : w.key = key => Fits(key, w.val)
    BY <1>1, <1>2 DEF Inv, FitsInv, Writes, w
  <2>2. \A key \in Checked \ {"starty240"} : key \in own' => Fits(key, eeprom'[key])
    BY <1>2, <1>3, <2>1 DEF Inv, FitsInv, Checked, Keys
  <2>3. \A i \in 1..n-1 : \A key \in Checked : Writes(todo'[i], key) => Fits(key, todo'[i].val)
    BY <1>1 DEF Inv, FitsInv
  <2>4. ASSUME NEW key \in Checked
        PROVE  \/ Fits(key, para'[key])
               \/ ~run' /\ \E i \in 1..n-1 : todo'[i].op = "save" /\ todo'[i].key = key
    <3>1. key \in Keys
      BY DEF Checked, Keys
    <3>2. CASE w.key = key /\ w.op = "save"
      BY <1>3, <2>1, <3>2
    <3>3. CASE ~(w.key = key /\ w.op = "save")
      <4>1. para'[key] = para[key]
        BY <1>2, <1>3, <3>1, <3>3
      <4>2. CASE Fits(key, para[key])
        BY <4>1, <4>2
      <4>3. CASE ~run /\ \E i \in 1..n : todo[i].op = "save" /\ todo[i].key = key
        <5>1. PICK i \in 1..n : todo[i].op = "save" /\ todo[i].key = key
          BY <4>3
        <5>2. i # 1
          BY <3>3, <5>1 DEF w
        <5>3. i - 1 \in 1..n-1 /\ todo'[i-1] = todo[i]
          BY <1>1, <5>2
        <5> QED
          BY <1>2, <4>3, <5>1, <5>3
      <4> QED
        BY <1>1, <1>5, <4>2, <4>3 DEF Inv, FitsInv
    <3> QED
      BY <3>2, <3>3
  <2> QED
    BY <1>1, <2>2, <2>3, <2>4 DEF FitsInv
<1> QED
  BY <1>4, <1>5, <1>6, <1>7, <1>8 DEF Inv

(* The defaults may be loaded again.                                       *)
LEMMA DefaultsFit == \A key \in Checked : Fits(key, Default[key])
<1>1. \A key \in Keys : Default[key] \in Byte
  BY OpFields
<1>2. /\ Default["exposureh"] * BYTE <= Exposure(Default) /\ Default["exposureh"] * BYTE \in Nat
      /\ Default["aoishowstartyh"] * BYTE <= AoiStart(Default)
      /\ Default["aoishowstartyh"] * BYTE \in Nat
      /\ Exposure(Default) \in Nat /\ AoiStart(Default) \in Nat
  BY <1>1, Bytes DEF Keys, Exposure, AoiStart, Words
<1> QED
  BY <1>2, ParamAssumption DEF Checked, Fits

(* InitCamParaPacket looks at the EEPROM.                                  *)
LEMMA LoadStep == Inv /\ InitCamParaPacket => Inv'
<1> SUFFICES ASSUME Inv, InitCamParaPacket PROVE Inv'
  OBVIOUS
<1>0. /\ todo \in Seq(Ops) /\ todo # <<>> /\ Head(todo).op = "init" /\ Len(todo) = 1 /\ ~run
      /\ UNCHANGED <<eeprom, own, run, set, sensor, capVars>>
  <2>1. todo \in Seq(Ops) /\ todo # <<>> /\ Head(todo).op = "init"
    BY DEF Inv, TypeOK, InitCamParaPacket
  <2>2. 1 \in DOMAIN todo /\ Head(todo) = todo[1]
    BY <2>1, EmptySeq, LenProperties
  <2> QED
    BY <2>1, <2>2 DEF Inv, LoadInv, InitCamParaPacket
<1>1. MarkerLast'
  BY <1>0 DEF Inv, MarkerInv, MarkerLast
<1>2. CASE eeprom["marker"] = MARK
  <2>1. /\ para' = eeprom
        /\ todo' = IF eeprom["starty240"] > ROWMAX THEN << Save("starty240", ROWMAX) >> ELSE <<>>
    BY <1>2 DEF InitCamParaPacket
  <2>2. Written \subseteq own /\ \A key \in Checked \ {"starty240"} : Fits(key, eeprom[key])
    <3>1. Written \subseteq own
      BY <1>2 DEF Inv, MarkerInv, MarkerLast
    <3>2. Checked \subseteq Written
      BY DEF Checked, Written, Keys
    <3> QED
      BY <3>1, <3>2 DEF Inv, FitsInv
  <2>3. CASE eeprom["starty240"] > ROWMAX
    <3> DEFINE w == Save("starty240", ROWMAX)
    <3>1. w \in Ops /\ w.op = "save" /\ w.key = "starty240" /\ w.val = ROWMAX
      BY OpFields, ParamAssumption DEF Keys
    <3> HIDE DEF w
    <3>2. /\ todo' = << w >> /\ todo' \in Seq(Ops) /\ Len(todo') = 1 /\ DOMAIN todo' = {1}
          /\ todo'[1] = w
      BY <2>1, <2>3, <3>1 DEF w
    <3>3. TypeOK'
      BY <1>0, <2>1, <3>2, DefaultsList DEF Inv, TypeOK, capVars
    <3>4. LoadInv' /\ MarkerInv' /\ SavedInv'
      BY <1>1, <2>1, <3>1, <3>2, <1>0 DEF LoadInv, MarkerInv, SavedInv, Writes
    <3>5. Fits("starty240", ROWMAX)
      BY ParamAssumption DEF Fits
    <3>6. FitsInv'
      BY <1>0, <2>1, <2>2, <3>1, <3>2, <3>5 DEF FitsInv, Writes, Checked
    <3> QED
      BY <3>3, <3>4, <3>6 DEF Inv
  <2>4. CASE ~(eeprom["starty240"] > ROWMAX)
    <3>1. todo' = <<>> /\ todo' \in Seq(Ops) /\ Len(todo') = 0 /\ DOMAIN todo' = {}
      BY <2>1, <2>4
    <3>2. TypeOK'
      BY <1>0, <2>1, <3>1, DefaultsList DEF Inv, TypeOK, capVars
    <3>3. Fits("starty240", eeprom["starty240"])
      <4>1. eeprom["starty240"] \in Nat /\ ROWMAX \in Nat
        BY ParamAssumption DEF Inv, TypeOK, Keys, Byte
      <4> QED
        BY <2>4, <4>1 DEF Fits
    <3>4. LoadInv' /\ MarkerInv' /\ SavedInv'
      BY <1>0, <1>1, <2>1, <3>1 DEF LoadInv, MarkerInv, SavedInv
    <3>5. FitsInv'
      BY <1>0, <2>1, <2>2, <3>1, <3>3 DEF FitsInv, Checked
    <3> QED
      BY <3>2, <3>4, <3>5 DEF Inv
  <2> QED
    BY <2>3, <2>4
<1>3. CASE eeprom["marker"] # MARK
  <2>1. para' = para /\ todo' = Defaults
    BY <1>3 DEF InitCamParaPacket
  <2>2. TypeOK'
    BY <1>0, <2>1, DefaultsList DEF Inv, TypeOK, capVars
  <2>3. /\ Defaults[8].op = "clear"
        /\ \A i \in 1..10 \ {8} : \E key \in Keys :
             /\ Defaults[i].op = "save" /\ Defaults[i].key = key /\ Defaults[i].val = Default[key]
             /\ key = "marker" => i = 10
    <3>1. Defaults[8].op = "clear"
      BY DefaultsList, OpFields
    <3>2. ASSUME NEW i \in 1..10 \ {8}
          PROVE  \E key \in Keys : Defaults[i] = SaveDefault(key) /\ (key = "marker" => i = 10)
      BY DefaultsList DEF Keys
    <3> QED
      BY <3>1, <3>2, DefaultFields
  <2>4. \A key \in Written : \E i \in 1..10 : Defaults[i].op = "save" /\ Defaults[i].key = key
    <3>1. \A i \in 1..10 \ {8} : Defaults[i].op = "save"
      BY <2>3
    <3>2. /\ Defaults[1].key = "id" /\ Defaults[2].key = "aoishowheight"
          /\ Defaults[3].key = "fixed" /\ Defaults[4].key = "aoishowstartyh"
          /\ Defaults[5].key = "aoishowstartyl" /\ Defaults[6].key = "exposurel"
          /\ Defaults[7].key = "exposureh" /\ Defaults[9].key = "starty240"
          /\ Defaults[10].key = "marker"
      BY DefaultsList, DefaultFields DEF Keys
    <3> DEFINE S == 1..10 \ {8}
               At(key) == \E i \in S : Defaults[i].key = key
    <3>3. /\ 1 \in S /\ 2 \in S /\ 3 \in S /\ 4 \in S /\ 5 \in S
          /\ 6 \in S /\ 7 \in S /\ 9 \in S /\ 10 \in S
      OBVIOUS
    <3> HIDE DEF S
    <3>4. /\ At("id") /\ At("aoishowheight") /\ At("fixed") /\ At("aoishowstartyh")
          /\ At("aoishowstartyl") /\ At("exposurel") /\ At("exposureh") /\ At("starty240")
          /\ At("marker")
      BY <3>2, <3>3
    <3> HIDE DEF At
    <3>5. \A key \in Written : At(key)
      BY <3>4 DEF Keys, Written
    <3> QED
      BY <3>1, <3>5 DEF At, S
  <2>5. LoadInv' /\ SavedInv'
    BY <2>1, <2>3, <2>4, DefaultsList DEF LoadInv, SavedInv, Writes
  <2>6. \A i \in 1..10 : Writes(Defaults[i], "marker") => i = 10 /\ Defaults[i].val = MARK
    BY <2>3, ParamAssumption DEF Writes
  <2>7. MarkerInv'
    BY <1>0, <1>1, <2>1, <2>4, <2>6, DefaultsList DEF MarkerInv, Writes
  <2>8. \A i \in 1..10 : \A key \in Checked : Writes(Defaults[i], key) => Fits(key, Defaults[i].val)
    BY <2>3, DefaultsFit DEF Writes
  <2>9. FitsInv'
    BY <1>0, <2>1, <2>4, <2>8, DefaultsList DEF FitsInv, Inv, Checked, Written, Keys
  <2> QED
    BY <2>2, <2>5, <2>7, <2>9 DEF Inv
<1> QED
  BY <1>2, <1>3

-----------------------------------------------------------------------------
(* A command finds nothing to do and leaves bytes to write that fit, none  *)
(* of them the marker.  Those it stores are already in RAM.                *)
Proper(ops, p) ==
  /\ ops \in Seq(Ops) /\ Len(ops) <= Len(Defaults)
  /\ \A i \in DOMAIN ops :
       /\ ops[i].op # "init" /\ ~Writes(ops[i], "marker")
       /\ \A key \in Checked : Writes(ops[i], key) => Fits(key, ops[i].val)
       /\ ops[i].op = "store" => /\ ops[i].key # "status"
                                 /\ ops[i].key # "id" => ops[i].val = p[ops[i].key]
                                 /\ \A j \in DOMAIN ops : ops[j].op # "save"
  /\ \A key \in Keys : p[key] = para[key] \/ \E i \in DOMAIN ops : Writes(ops[i], key)
  /\ p \in [Keys -> Byte]
  /\ \A key \in Checked : Fits(key, para[key]) => Fits(key, p[key])

(* A command with proper operations keeps the invariant.                   *)
LEMMA CommandStep ==
  ASSUME NEW ops, Inv, Command(ops), Proper(ops, para')
  PROVE  Inv'
<1>1. /\ run /\ todo = <<>> /\ todo' = ops
      /\ UNCHANGED <<eeprom, own, run, set, sensor, capVars>>
  BY DEF Command
<1>2. ops \in Seq(Ops) /\ Len(ops) \in Nat /\ DOMAIN ops = 1..Len(ops)
  BY LenProperties DEF Proper
<1>3. TypeOK'
  BY <1>1, <1>2 DEF Inv, TypeOK, capVars, Proper
<1>4. LoadInv' /\ MarkerInv'
  BY <1>1 DEF Inv, LoadInv, MarkerInv, MarkerLast, Proper
<1>5. DOMAIN todo = {} /\ ~Loading
  BY <1>1 DEF Loading
<1>6. SavedInv'
  BY <1>1, <1>5 DEF Inv, SavedInv, Proper, Written
<1>7. \A key \in Checked : Fits(key, para[key])
  BY <1>1, <1>5 DEF Inv, FitsInv
<1>8. FitsInv'
  BY <1>1, <1>7 DEF Inv, FitsInv, Proper
<1> QED
  BY <1>3, <1>4, <1>6, <1>8 DEF Inv

(* Bytes that leave the exposure alone are saved one after the other.      *)
Plain == {w \in Ops : /\ w.op = "save" /\ w.key \notin {"marker", "exposureh", "exposurel"}
                      /\ Fits(w.key, w.val)}

(* Saving a byte that fits is Plain.                                       *)
LEMMA PlainSave ==
  ASSUME NEW key \in Keys \ {"marker", "exposureh", "exposurel"}, NEW val \in Byte, Fits(key, val)
  PROVE  Save(key, val) \in Plain
<1>1. /\ Save(key, val) \in Ops /\ Save(key, val).op = "save"
      /\ Save(key, val).key = key /\ Save(key, val).val = val
  BY OpFields
<1> QED
  BY <1>1 DEF Plain

(* Plain operations are proper ones of a command.                          *)
LEMMA PlainProper ==
  ASSUME Inv, NEW ops \in Seq(Plain), Len(ops) <= 9
  PROVE  Proper(ops, para)
<1>1. \A i \in DOMAIN ops : ops[i] \in Plain
  BY LenProperties
<1>2. ops \in Seq(Ops)
  BY SeqMonotonic DEF Plain
<1> QED
  BY <1>1, <1>2, DefaultsList DEF Proper, Plain, Writes, Inv, TypeOK

(* The operations of a new window are Plain.                               *)
LEMMA AoiPlain ==
  ASSUME NEW h \in Byte, NEW l \in Byte, NEW height \in Byte
  PROVE  AoiOps(h, l, height) \in Seq(Plain) /\ Len(AoiOps(h, l, height)) <= 3
<1> DEFINE a == IF Word(h, l) <= AOIMAX /\ Word(h, l) # AoiStart(para)
                THEN << Save("aoishowstartyh", h), Save("aoishowstartyl", l) >> ELSE <<>>
           b == IF height >= HMIN /\ height # para["aoishowheight"]
                THEN << Save("aoishowheight", height) >> ELSE <<>>
<1>1. Word(h, l) <= AOIMAX => Save("aoishowstartyh", h) \in Plain
  <2>1. h * BYTE \in Nat /\ Word(h, l) \in Nat /\ AOIMAX \in Nat /\ h * BYTE <= Word(h, l)
    BY Bytes, ParamAssumption DEF Words
  <2>2. Word(h, l) <= AOIMAX => Fits("aoishowstartyh", h)
    BY <2>1 DEF Fits
  <2> QED
    BY <2>2, PlainSave DEF Keys
<1>2. Save("aoishowstartyl", l) \in Plain /\ Save("aoishowheight", height) \in Plain
  <2>1. Fits("aoishowstartyl", l) /\ Fits("aoishowheight", height)
    BY DEF Fits
  <2> QED
    BY <2>1, PlainSave DEF Keys
<1>3. a \in Seq(Plain) /\ Len(a) \in 0..2
  BY <1>1, <1>2
<1>4. b \in Seq(Plain) /\ Len(b) \in 0..1
  BY <1>2
<1> HIDE DEF a, b
<1>5. a \o b \in Seq(Plain) /\ Len(a \o b) = Len(a) + Len(b)
  BY <1>3, <1>4, ConcatProperties
<1>6. AoiOps(h, l, height) = a \o b
  BY DEF AoiOps, a, b
<1> QED
  BY <1>3, <1>4, <1>5, <1>6

(* So is that of a new row.                                                *)
LEMMA RowPlain ==
  ASSUME NEW row \in Byte
  PROVE  RowOps(row) \in Seq(Plain) /\ Len(RowOps(row)) <= 1
<1>1. row <= ROWMAX => Save("starty240", row) \in Plain
  <2>1. row <= ROWMAX => Fits("starty240", row)
    BY DEF Fits
  <2> QED
    BY <2>1, PlainSave DEF Keys
<1> QED
  BY <1>1 DEF RowOps

(* What SET_PARA_RESET leaves to do.                                       *)
ResetOps ==
  << SaveDefault("aoishowheight"), SaveDefault("fixed"),
     SaveDefault("aoishowstartyh"), SaveDefault("aoishowstartyl"),
     SaveDefault("exposurel"), SaveDefault("exposureh"),
     Shutter(Exposure(Default)), SaveDefault("fixed"), ClearStatus >>

(* The operations of a reset, one by one: the exposure is saved before the *)
(* shutter is set to it.                                                   *)
LEMMA ResetList ==
  /\ ResetOps \in Seq(Ops) /\ Len(ResetOps) = 9 /\ DOMAIN ResetOps = 1..9
  /\ \A i \in 1..8 \ {7} : /\ ResetOps[i].op = "save" /\ ResetOps[i].key \in Keys \ {"marker"}
                           /\ ResetOps[i].val = Default[ResetOps[i].key]
  /\ ResetOps[7].op = "shutter" /\ ResetOps[7].val = Exposure(Default)
  /\ ResetOps[9].op = "clear"
  /\ ResetOps[5].key = "exposurel" /\ ResetOps[6].key = "exposureh"
  /\ ResetOps[8].key \notin {"exposureh", "exposurel"}
<1>1. \A key \in Keys : SaveDefault(key) \in Ops
  BY DefaultFields
<1>2. Exposure(Default) \in Words
  BY OpFields, Bytes DEF Exposure, Keys
<1>3. /\ Shutter(Exposure(Default)) \in Ops /\ Shutter(Exposure(Default)).op = "shutter"
      /\ Shutter(Exposure(Default)).val = Exposure(Default)
  BY <1>2, OpFields
<1>4. /\ ResetOps \in Seq(Ops) /\ Len(ResetOps) = 9 /\ DOMAIN ResetOps = 1..9
      /\ ResetOps[1] = SaveDefault("aoishowheight") /\ ResetOps[2] = SaveDefault("fixed")
      /\ ResetOps[3] = SaveDefault("aoishowstartyh") /\ ResetOps[4] = SaveDefault("aoishowstartyl")
      /\ ResetOps[5] = SaveDefault("exposurel") /\ ResetOps[6] = SaveDefault("exposureh")
      /\ ResetOps[7] = Shutter(Exposure(Default)) /\ ResetOps[8] = SaveDefault("fixed")
      /\ ResetOps[9] = ClearStatus
  BY <1>1, <1>3, OpFields DEF ResetOps, Keys
<1>5. \A i \in 1..8 \ {7} : \E key \in Keys \ {"marker"} : ResetOps[i] = SaveDefault(key)
  BY <1>4 DEF Keys
<1>6. \A i \in 1..8 \ {7} : /\ ResetOps[i].op = "save" /\ ResetOps[i].key \in Keys \ {"marker"}
                            /\ ResetOps[i].val = Default[ResetOps[i].key]
  BY <1>5, DefaultFields
<1>7. ResetOps[9].op = "clear"
  BY <1>4, OpFields
<1>8. /\ ResetOps[5].key = "exposurel" /\ ResetOps[6].key = "exposureh"
      /\ ResetOps[8].key \notin {"exposureh", "exposurel"}
  BY <1>4, DefaultFields DEF Keys
<1> QED
  BY <1>3, <1>4, <1>6, <1>7, <1>8

(* What SET_DETECTPARA leaves to do.                                       *)
ShutterOps(h, l) == << Store("exposureh", h), Store("exposurel", l), Shutter(Word(h, l)) >>

(* The operations of a new exposure, one by one.                           *)
LEMMA ShutterList ==
  ASSUME NEW h \in Byte, NEW l \in Byte
  PROVE  /\ ShutterOps(h, l) \in Seq(Ops) /\ Len(ShutterOps(h, l)) = 3
         /\ DOMAIN ShutterOps(h, l) = 1..3
         /\ ShutterOps(h, l)[1] = Store("exposureh", h)
         /\ ShutterOps(h, l)[2] = Store("exposurel", l)
         /\ ShutterOps(h, l)[3] = Shutter(Word(h, l)) /\ Word(h, l) \in Words
<1>1. Word(h, l) \in Words
  BY Bytes
<1>2. Store("exposureh", h) \in Ops /\ Store("exposurel", l) \in Ops /\ Shutter(Word(h, l)) \in Ops
  BY <1>1, OpFields DEF Keys
<1> QED
  BY <1>1, <1>2 DEF ShutterOps

(* Every command keeps the invariant.                                      *)
LEMMA CommandsStep == Inv /\ udp_dataprocess_task => Inv'
<1> SUFFICES ASSUME Inv, udp_dataprocess_task PROVE Inv'
  OBVIOUS
<1>1. ASSUME NEW h \in Byte, NEW l \in Byte, SET_DETECTPARA(h, l) PROVE Inv'
  <2> DEFINE ops == ShutterOps(h, l)
  <2>1. /\ Command(ops) /\ Word(h, l) \in EXPMIN..EXPMAX
        /\ para' = [para EXCEPT !["exposureh"] = h, !["exposurel"] = l]
    BY <1>1 DEF SET_DETECTPARA, ShutterOps
  <2>2. /\ ops \in Seq(Ops) /\ Len(ops) = 3 /\ DOMAIN ops = 1..3
        /\ ops[1] = Store("exposureh", h) /\ ops[2] = Store("exposurel", l)
        /\ ops[3] = Shutter(Word(h, l)) /\ Word(h, l) \in Words
    BY ShutterList
  <2> HIDE DEF ops
  <2>3. /\ ops[1].op = "store" /\ ops[1].key = "exposureh" /\ ops[1].val = h
        /\ ops[2].op = "store" /\ ops[2].key = "exposurel" /\ ops[2].val = l
        /\ ops[3].op = "shutter"
    <3>1. "exposureh" \in Keys /\ "exposurel" \in Keys
      BY DEF Keys
    <3> QED
      BY <2>2, <3>1, OpFields
  <2>4. /\ para' \in [Keys -> Byte] /\ para'["exposureh"] = h /\ para'["exposurel"] = l
        /\ \A key \in Keys \ {"exposureh", "exposurel"} : para'[key] = para[key]
    BY <2>1 DEF Inv, TypeOK, Keys
  <2>5. Fits("exposureh", h)
    <3>1. h * BYTE \in Nat /\ Word(h, l) \in Nat /\ EXPMAX \in Nat /\ EXPMIN \in Nat
          /\ h * BYTE <= Word(h, l)
      BY Bytes, ParamAssumption DEF Words
    <3> QED
      BY <2>1, <3>1 DEF Fits
  <2>6. \A i \in 1..3 :
          /\ ops[i].op # "init" /\ ~Writes(ops[i], "marker") /\ ops[i].op # "save"
          /\ \A key \in Checked : Writes(ops[i], key) => Fits(key, ops[i].val)
          /\ ops[i].op = "store" => ops[i].key # "status" /\ ops[i].val = para'[ops[i].key]
    BY <2>3, <2>4, <2>5 DEF Writes, Checked
  <2>7. \A key \in Keys : para'[key] = para[key] \/ \E i \in 1..3 : Writes(ops[i], key)
    BY <2>3, <2>4 DEF Writes
  <2>8. \A key \in Checked : Fits(key, para[key]) => Fits(key, para'[key])
    BY <2>4, <2>5 DEF Checked, Keys
  <2>9. Proper(ops, para')
    BY <2>2, <2>4, <2>6, <2>7, <2>8, DefaultsList DEF Proper
  <2> QED
    BY <2>1, <2>9, CommandStep
<1>2. ASSUME NEW c \in Byte, SET_CAMID(c) PROVE Inv'
  <2> DEFINE ops == << Store("id", c) >>
  <2>1. Store("id", c) \in Ops /\ Store("id", c).op = "store" /\ Store("id", c).key = "id"
    BY OpFields DEF Keys
  <2>2. ops \in Seq(Ops) /\ Len(ops) = 1 /\ DOMAIN ops = {1} /\ ops[1] = Store("id", c)
    BY <2>1
  <2>3. Command(ops) /\ para' = para
    BY <1>2 DEF SET_CAMID
  <2> HIDE DEF ops
  <2>4. Proper(ops, para')
    BY <2>1, <2>2, <2>3, DefaultsList DEF Proper, Writes, Checked, Inv, TypeOK
  <2> QED
    BY <2>3, <2>4, CommandStep
<1>3. ASSUME NEW ops \in Seq(Plain), Len(ops) <= 9, Command(ops), UNCHANGED para PROVE Inv'
  <2>1. Proper(ops, para')
    BY <1>3, PlainProper
  <2> QED
    BY <1>3, <2>1, CommandStep
<1>4. ASSUME NEW h \in Byte, NEW l \in Byte, NEW height \in Byte, SET_AOI(h, l, height) PROVE Inv'
  BY <1>3, <1>4, AoiPlain DEF SET_AOI
<1>5. ASSUME NEW row \in Byte, SET_STARTY240(row) PROVE Inv'
  BY <1>3, <1>5, RowPlain DEF SET_STARTY240
<1>6. ASSUME NEW h \in Byte, NEW l \in Byte, NEW height \in Byte, NEW row \in Byte,
             GET_CAMINFO(h, l, height, row) PROVE Inv'
  <2> DEFINE ops == AoiOps(h, l, height) \o RowOps(row)
  <2>1. ops \in Seq(Plain) /\ Len(ops) <= 9
    BY AoiPlain, RowPlain, ConcatProperties, LenProperties
  <2>2. Command(ops) /\ UNCHANGED para
    BY <1>6 DEF GET_CAMINFO
  <2> HIDE DEF ops
  <2> QED
    BY <1>3, <2>1, <2>2
<1>7. ASSUME SET_PARA_RESET PROVE Inv'
  <2>1. Command(ResetOps) /\ para' = para
    BY <1>7 DEF SET_PARA_RESET, ResetOps
  <2>2. \A i \in 1..9 : /\ ResetOps[i].op \notin {"init", "store"} /\ ~Writes(ResetOps[i], "marker")
                        /\ \A key \in Checked : Writes(ResetOps[i], key) => Fits(key, ResetOps[i].val)
    BY ResetList, DefaultsFit DEF Writes
  <2>3. Proper(ResetOps, para')
    BY <2>1, <2>2, ResetList, DefaultsList DEF Proper, Inv, TypeOK
  <2> QED
    BY <2>1, <2>3, CommandStep
<1> QED
  BY <1>1, <1>2, <1>4, <1>5, <1>6, <1>7 DEF udp_dataprocess_task

(* An operation that leaves the EEPROM alone is done, a call of            *)
(* cmos_set_Shutter or the clearing of status.                             *)
LEMMA PopStep ==
  ASSUME Inv, todo # <<>>, Head(todo).op \in {"shutter", "clear"}, todo' = Tail(todo),
         set' \in {"write", "read"}, UNCHANGED <<eeprom, own, run, sensor, capVars>>,
         para' \in [Keys -> Byte], \A key \in Written : para'[key] = para[key]
  PROVE  Inv'
<1> DEFINE n == Len(todo)
<1>1. /\ todo' \in Seq(Ops) /\ n \in Nat \ {0} /\ Len(todo') = n - 1
      /\ DOMAIN todo = 1..n /\ DOMAIN todo' = 1..n-1
      /\ \A i \in 1..n-1 : todo'[i] = todo[i+1]
      /\ Head(todo) = todo[1]
      /\ todo' # <<>> => Head(todo') = todo[2] /\ n >= 2
  BY Rest DEF Inv, TypeOK
<1>2. todo[1].op \in {"shutter", "clear"}
  BY <1>1
<1> HIDE DEF n
<1>3. TypeOK'
  BY <1>1 DEF Inv, TypeOK, capVars, n
<1>4. LoadInv' /\ ~Loading
  <2>1. ASSUME NEW i \in 1..n-1, todo'[i].op = "init" PROVE FALSE
    BY <1>1, <2>1 DEF Inv, LoadInv, n
  <2> QED
    BY <1>1, <1>2, <2>1 DEF LoadInv, Loading
<1>5. ASSUME NEW i \in 1..n, todo[i].op \notin {"shutter", "clear"}
      PROVE  i - 1 \in 1..n-1 /\ todo'[i-1] = todo[i]
  BY <1>1, <1>2, <1>5
<1>6. MarkerInv'
  <2>1. MarkerLast'
    BY DEF Inv, MarkerInv, MarkerLast
  <2>2. ASSUME NEW i \in 1..n-1, Writes(todo'[i], "marker"), NEW key \in Written \ own'
        PROVE  \E j \in 1..i : Writes(todo'[j], key)
    <3>1. PICK j \in 1..i+1 : Writes(todo[j], key)
      BY <1>1, <2>2 DEF Inv, MarkerInv
    <3>2. j # 1
      BY <1>2, <3>1 DEF Writes
    <3>3. j - 1 \in 1..i /\ todo'[j-1] = todo[j]
      BY <1>1, <3>2
    <3> QED
      BY <3>1, <3>3
  <2>3. \A i \in 1..n-1 : Writes(todo'[i], "marker") => todo'[i].val = MARK
    BY <1>1 DEF Inv, MarkerInv
  <2> QED
    BY <1>1, <2>1, <2>2, <2>3 DEF MarkerInv
<1>7. SavedInv'
  <2>1. ASSUME NEW key \in Written \ {"id", "marker"}
        PROVE  para'[key] = eeprom[key] \/ \E i \in 1..n-1 : Writes(todo'[i], key)
    <3>1. CASE para[key] = eeprom[key]
      BY <3>1
    <3>2. CASE \E i \in 1..n : Writes(todo[i], key)
      <4>1. PICK i \in 1..n : Writes(todo[i], key)
        BY <3>2
      <4>2. i - 1 \in 1..n-1 /\ todo'[i-1] = todo[i]
        BY <1>5, <4>1 DEF Writes
      <4> QED
        BY <4>1, <4>2
    <3> QED
      BY <1>1, <1>4, <3>1, <3>2 DEF Inv, SavedInv
  <2>2. ASSUME NEW i \in 1..n-1, todo'[i].op = "store"
        PROVE  /\ todo'[i].key # "status"
               /\ todo'[i].key # "id" => todo'[i].val = para'[todo'[i].key]
               /\ \A j \in 1..n-1 : todo'[j].op # "save"
    <3>1. i + 1 \in 1..n /\ todo'[i] = todo[i+1]
      BY <1>1
    <3>2. /\ todo[i+1].key # "status"
          /\ todo[i+1].key # "id" => todo[i+1].val = para[todo[i+1].key]
          /\ \A j \in 1..n : todo[j].op # "save"
      BY <1>1, <2>2, <3>1 DEF Inv, SavedInv
    <3>3. ASSUME NEW j \in 1..n-1 PROVE todo'[j].op # "save"
      <4>1. j + 1 \in 1..n /\ todo'[j] = todo[j+1]
        BY <1>1
      <4> QED
        BY <3>2, <4>1
    <3>4. todo[i+1].key \in Written
      BY <1>1, <2>2, <3>1, <3>2, OpTypes DEF Inv, TypeOK, Written
    <3> QED
      BY <3>1, <3>2, <3>3, <3>4
  <2> QED
    BY <1>1, <2>1, <2>2 DEF SavedInv
<1>8. FitsInv'
  <2>1. ASSUME NEW key \in Checked
        PROVE  \/ Fits(key, para'[key])
               \/ ~run /\ \E i \in 1..n-1 : todo'[i].op = "save" /\ todo'[i].key = key
    <3>1. para'[key] = para[key]
      BY DEF Checked, Written, Keys
    <3> QED
      <4>1. CASE Fits(key, para[key])
        BY <3>1, <4>1
      <4>2. CASE ~run /\ \E i \in 1..n : todo[i].op = "save" /\ todo[i].key = key
        <5>1. PICK i \in 1..n : todo[i].op = "save" /\ todo[i].key = key
          BY <4>2
        <5>2. i - 1 \in 1..n-1 /\ todo'[i-1] = todo[i]
          BY <1>5, <5>1
        <5> QED
          BY <4>2, <5>1, <5>2
      <4> QED
        BY <1>1, <1>4, <4>1, <4>2 DEF Inv, FitsInv
  <2>2. \A i \in 1..n-1 : \A key \in Checked : Writes(todo'[i], key) => Fits(key, todo'[i].val)
    BY <1>1 DEF Inv, FitsInv
  <2>3. \A key \in Checked \ {"starty240"} : key \in own' => Fits(key, eeprom'[key])
    BY DEF Inv, FitsInv
  <2>4. ~run => ~run'
    OBVIOUS
  <2>5. ASSUME NEW key \in Checked
        PROVE  \/ Fits(key, para'[key])
               \/ ~run' /\ \E i \in DOMAIN todo' : todo'[i].op = "save" /\ todo'[i].key = key
    BY <1>1, <2>1, <2>4
  <2> QED
    BY <1>1, <2>2, <2>3, <2>5 DEF FitsInv
<1> QED
  BY <1>3, <1>4, <1>6, <1>7, <1>8 DEF Inv

(* status is cleared.                                                      *)
LEMMA ClearStep == Inv /\ StatusCleared => Inv'
<1> SUFFICES ASSUME Inv, StatusCleared PROVE Inv'
  OBVIOUS
<1>1. para \in [Keys -> Byte] /\ Default["status"] \in Byte
  BY OpFields DEF Inv, TypeOK, Keys
<1>2. para' \in [Keys -> Byte] /\ \A key \in Written : para'[key] = para[key]
  BY <1>1 DEF StatusCleared, Written
<1> QED
  BY <1>2, PopStep DEF StatusCleared, Inv, TypeOK

(* The calls of cmos_set_Shutter and the steps of capcamera_task.          *)
LEMMA SensorStep == Inv /\ (ShutterWrite \/ ShutterRead \/ capcamera_task) => Inv'
<1> SUFFICES ASSUME Inv, ShutterWrite \/ ShutterRead \/ capcamera_task PROVE Inv'
  OBVIOUS
<1>1. ASSUME NEW reg \in Regs, NEW val \in Words, cmos_rset(reg, val) PROVE sensor' \in [Regs -> Words]
  BY <1>1 DEF cmos_rset, Inv, TypeOK
<1>2. UNCHANGED <<eeprom, own, para, run, todo>> => LoadInv' /\ MarkerInv' /\ SavedInv' /\ FitsInv'
  BY DEF Inv, LoadInv, MarkerInv, MarkerLast, SavedInv, FitsInv, Loading, Writes
<1>3. CASE ShutterWrite
  <2>1. todo \in Seq(Ops) /\ todo # <<>>
    BY <1>3 DEF ShutterWrite, Inv, TypeOK
  <2>2. Head(todo) \in Ops /\ Head(todo).op = "shutter"
    BY <1>3, <2>1, HeadTailProperties DEF ShutterWrite
  <2>3. sensor' \in [Regs -> Words]
    BY <1>1, <1>3, <2>2, OpTypes DEF ShutterWrite, Regs
  <2>4. TypeOK'
    BY <1>3, <2>3 DEF ShutterWrite, Inv, TypeOK, capVars
  <2> QED
    BY <1>2, <1>3, <2>4 DEF ShutterWrite, Inv
<1>4. CASE ShutterRead
  <2>1. /\ todo \in Seq(Ops) /\ todo # <<>> /\ Head(todo).op = "shutter" /\ set' = "write"
        /\ UNCHANGED <<eeprom, own, para, run, sensor, capVars>>
        /\ todo' = Tail(todo) \/ todo' = todo
    BY <1>4 DEF ShutterRead, Inv, TypeOK
  <2>2. CASE todo' = todo
    <3>1. TypeOK'
      BY <2>1, <2>2 DEF Inv, TypeOK, capVars
    <3> QED
      BY <1>2, <2>1, <2>2, <3>1 DEF Inv
  <2>3. CASE todo' = Tail(todo)
    <3>1. para' \in [Keys -> Byte] /\ \A key \in Written : para'[key] = para[key]
      BY <2>1 DEF Inv, TypeOK
    <3> QED
      BY <2>1, <2>3, <3>1, PopStep
  <2> QED
    BY <2>1, <2>2, <2>3
<1>5. CASE capcamera_task
  <2>1. UNCHANGED dpVars
    BY <1>5 DEF capcamera_task, CapProbe, CapWrite, CapRead
  <2>2. Exposure(para) \in Words
    BY Bytes DEF Exposure, Inv, TypeOK, Keys
  <2>3. sensor' \in [Regs -> Words]
    <3>1. CASE CapProbe
      BY <3>1, Bytes DEF CapProbe
    <3>2. CASE CapWrite
      BY <1>1, <3>2 DEF CapWrite, Inv, TypeOK
    <3>3. CASE CapRead
      BY <3>3 DEF CapRead, Inv, TypeOK
    <3> QED
      BY <1>5, <3>1, <3>2, <3>3 DEF capcamera_task
  <2>4. capval' \in Words /\ cap' \in {"probe", "done"} \cup Regs /\ capset' \in {"write", "read"}
    BY <1>5, <2>2, Bytes DEF capcamera_task, CapProbe, CapWrite, CapRead, Inv, TypeOK, Regs
  <2>5. TypeOK'
    BY <2>1, <2>3, <2>4 DEF dpVars, Inv, TypeOK
  <2> QED
    BY <1>2, <2>1, <2>5 DEF dpVars, Inv
<1> QED
  BY <1>3, <1>4, <1>5

(* Init.                                                                   *)
LEMMA InvInit == Init => Inv
<1> SUFFICES ASSUME Init PROVE Inv
  OBVIOUS
<1>1. [op |-> "init"] \in Ops
  BY DEF Ops
<1>2. /\ todo \in Seq(Ops) /\ todo # <<>> /\ Len(todo) = 1 /\ DOMAIN todo = {1}
      /\ todo[1].op = "init" /\ Head(todo).op = "init" /\ ~run
  BY <1>1 DEF Init
<1>3. BYTE - 1 \in Byte /\ BYTE - 1 # MARK
  BY ParamAssumption, Bytes DEF Byte
<1>4. eeprom \in [Keys -> Byte] /\ own \subseteq Keys /\ para = eeprom
  BY <1>3, ParamAssumption DEF Init
<1>5. TypeOK
  <2>1. 0 \in Words /\ sensor \in [Regs -> Words]
    BY Bytes DEF Init
  <2>2. run \in BOOLEAN /\ set = "write" /\ cap = "probe" /\ capset = "write" /\ capval = 0
    BY DEF Init
  <2> QED
    BY <1>2, <1>4, <2>1, <2>2, DefaultsList DEF TypeOK
<1>6. LoadInv
  BY <1>2 DEF LoadInv
<1>7. MarkerInv
  BY <1>2, <1>3 DEF Init, MarkerInv, MarkerLast, Writes, Written, Keys
<1>8. SavedInv
  BY <1>2 DEF SavedInv, Loading
<1>9. \A key \in Checked \ {"starty240"} : key \in own => Fits(key, eeprom[key])
  BY DefaultsFit, ParamAssumption DEF Init, Checked, Keys
<1>10. FitsInv
  BY <1>2, <1>9 DEF FitsInv, Loading, Writes
<1> QED
  BY <1>5, <1>6, <1>7, <1>8, <1>10 DEF Inv

(* The program starts, or starts again.                                    *)
LEMMA PowerStep == Inv /\ (main \/ PowerFail \/ UNCHANGED vars) => Inv'
<1> SUFFICES ASSUME Inv, main \/ PowerFail \/ UNCHANGED vars PROVE Inv'
  OBVIOUS
<1>1. CASE main
  <2>1. /\ todo = <<>> /\ DOMAIN todo = {} /\ run' = TRUE
        /\ UNCHANGED <<eeprom, own, para, todo, set, sensor, capVars>>
    BY <1>1 DEF main
  <2>2. TypeOK' /\ LoadInv' /\ MarkerInv' /\ SavedInv'
    BY <2>1 DEF Inv, TypeOK, LoadInv, MarkerInv, MarkerLast, SavedInv, Loading, capVars
  <2>3. FitsInv'
    BY <2>1 DEF Inv, FitsInv, Loading
  <2> QED
    BY <2>2, <2>3 DEF Inv
<1>2. CASE PowerFail
  <2>1. [op |-> "init"] \in Ops
    BY DEF Ops
  <2>2. /\ todo' \in Seq(Ops) /\ todo' # <<>> /\ Len(todo') = 1 /\ DOMAIN todo' = {1}
        /\ todo'[1].op = "init" /\ Head(todo').op = "init" /\ run' = FALSE
    BY <1>2, <2>1 DEF PowerFail
  <2>3. TypeOK'
    <3>1. 0 \in Words /\ sensor' \in [Regs -> Words]
      BY <1>2, Bytes DEF PowerFail
    <3>2. /\ run' \in BOOLEAN /\ set' = "write" /\ cap' = "probe" /\ capset' = "write"
          /\ capval' = 0 /\ UNCHANGED <<eeprom, own, para>>
      BY <1>2 DEF PowerFail
    <3> QED
      BY <2>2, <3>1, <3>2, DefaultsList DEF Inv, TypeOK
  <2>4. LoadInv' /\ MarkerInv' /\ SavedInv' /\ FitsInv'
    BY <1>2, <2>2 DEF PowerFail, Inv, LoadInv, MarkerInv, MarkerLast, SavedInv, FitsInv,
                      Loading, Writes
  <2> QED
    BY <2>3, <2>4 DEF Inv
<1>3. CASE UNCHANGED vars
  BY <1>3 DEF vars, dpVars, capVars, Inv, TypeOK, LoadInv, MarkerInv, MarkerLast, SavedInv,
              FitsInv, Loading
<1> QED
  BY <1>1, <1>2, <1>3

(* Every step keeps the invariant, also one in which the power fails.      *)
LEMMA InvStep == Inv /\ [Next]_vars => Inv'
BY WriteStep, ClearStep, LoadStep, CommandsStep, SensorStep, PowerStep DEF Next

(* The invariant holds of parameters, EEPROM and pending operations at all *)
(* times, through power failures and lost transfers.                       *)
THEOREM InvCorrect == Spec => []Inv
<1> QED
  BY InvInit, InvStep, PTL DEF Spec

(* Bytes stay bytes and register values words, and the queue of things to  *)
(* do stays short.                                                         *)
THEOREM TypeCorrect == Spec => []TypeOK
<1>1. Inv => TypeOK
  BY DEF Inv
<1> QED
  BY <1>1, InvCorrect, PTL

(* Power may fail at any byte of the first InitCamParaPacket: a marker     *)
(* never stands over bytes of a new chip, but for that of status.          *)
THEOREM MarkerIsLast == Spec => []MarkerLast
<1>1. Inv => MarkerLast
  BY DEF Inv, MarkerInv
<1> QED
  BY <1>1, InvCorrect, PTL

(* Between commands the parameters in use, but for the id and status, are  *)
(* those a restart would load.                                             *)
THEOREM LiveAreSaved == Spec => []LiveIsSaved
<1>1. Inv => LiveIsSaved
  BY DEF Inv, SavedInv, LiveIsSaved, Loading
<1> QED
  BY <1>1, InvCorrect, PTL

(* When the tasks run, the parameters have been loaded.                    *)
LEMMA Loaded ==
  ASSUME Inv, run
  PROVE  ~Loading
<1>1. todo # <<>> => 1 \in DOMAIN todo /\ Head(todo) = todo[1]
  BY EmptySeq, LenProperties DEF Inv, TypeOK
<1> QED
  BY <1>1 DEF Inv, LoadInv, Loading

(* The tasks never see a row outside the frame.                            *)
THEOREM RowsInRange == Spec => []RowInRange
<1>1. Inv => RowInRange
  BY Loaded DEF Inv, FitsInv, Fits, Checked, RowInRange
<1> QED
  BY <1>1, InvCorrect, PTL

(* A pair of bytes caught half changed, or half written when power failed, *)
(* misses its limit by less than the values of a byte.                     *)
THEOREM PairsAreBounded == Spec => []PairsBounded
<1>1. ASSUME Inv, run PROVE Exposure(para) < EXPMAX + BYTE /\ AoiStart(para) < AOIMAX + BYTE
  <2>1. para["exposureh"] * BYTE <= EXPMAX /\ para["aoishowstartyh"] * BYTE <= AOIMAX
    BY <1>1, Loaded DEF Inv, FitsInv, Fits, Checked
  <2>2. \A key \in Keys : para[key] \in Byte
    BY <1>1 DEF Inv, TypeOK
  <2>3. /\ para["exposureh"] * BYTE \in Nat /\ para["aoishowstartyh"] * BYTE \in Nat
        /\ Exposure(para) \in Nat /\ AoiStart(para) \in Nat
        /\ Exposure(para) < para["exposureh"] * BYTE + BYTE
        /\ AoiStart(para) < para["aoishowstartyh"] * BYTE + BYTE
    BY <2>2, Bytes DEF Exposure, AoiStart, Keys, Words
  <2> QED
    BY <2>1, <2>3, Bytes, ParamAssumption
<1>2. Inv => PairsBounded
  BY <1>1 DEF PairsBounded
<1> QED
  BY <1>2, InvCorrect, PTL

-----------------------------------------------------------------------------
(* A list that saves no exposure and sets no shutter.                      *)
LEMMA NoShutter ==
  /\ \A i \in DOMAIN Defaults : Defaults[i].op # "shutter"
  /\ \A ops \in Seq(Plain) : \A i \in DOMAIN ops :
       /\ ops[i].op = "save" /\ ops[i].key \notin {"exposureh", "exposurel"}
<1>1. \A key \in Keys : SaveDefault(key).op = "save"
  BY DefaultFields
<1>2. \A i \in DOMAIN Defaults : Defaults[i].op \in {"save", "clear"}
  <2>1. ClearStatus.op = "clear"
    BY OpFields
  <2>2. ASSUME NEW i \in 1..10
        PROVE  Defaults[i] = ClearStatus \/ \E key \in Keys : Defaults[i] = SaveDefault(key)
    BY DefaultsList DEF Keys
  <2> QED
    BY <1>1, <2>1, <2>2, DefaultsList
<1>3. \A ops \in Seq(Plain) : \A i \in DOMAIN ops : ops[i] \in Plain
  BY LenProperties, ElementOfSeq
<1> QED
  BY <1>2, <1>3 DEF Plain

(* A command that is taken once the sensor is set up.                      *)
LEMMA SensorCommand ==
  ASSUME SensorInv, ~EarlyCommands, NEW ops, Command(ops),
         \A i \in DOMAIN ops : ops[i].op = "shutter" => Follows(ops, para', i),
         (\A i \in DOMAIN ops : ops[i].op # "shutter") =>
           /\ UNCHANGED para
           /\ \A i \in DOMAIN ops : ops[i].op = "save" => ops[i].key \notin {"exposureh", "exposurel"}
  PROVE  SensorInv'
<1>1. run /\ cap = "done" /\ todo = <<>> /\ todo' = ops /\ UNCHANGED <<run, sensor, capVars>>
  BY DEF Command
<1>2. sensor["shutter"] = Exposure(para)
  BY <1>1 DEF SensorInv
<1>3. run' /\ cap' = "done" /\ sensor' = sensor
  BY <1>1 DEF capVars
<1> QED
  BY <1>1, <1>2, <1>3 DEF SensorInv

(* A command that changes the exposure also sets the shutter.              *)
LEMMA SensorCommands == ~EarlyCommands /\ Inv /\ SensorInv /\ udp_dataprocess_task => SensorInv'
<1> SUFFICES ASSUME ~EarlyCommands, Inv, SensorInv, udp_dataprocess_task PROVE SensorInv'
  OBVIOUS
<1>1. ASSUME NEW h \in Byte, NEW l \in Byte, SET_DETECTPARA(h, l) PROVE SensorInv'
  <2> DEFINE ops == ShutterOps(h, l)
  <2>1. Command(ops) /\ para' = [para EXCEPT !["exposureh"] = h, !["exposurel"] = l]
    BY <1>1 DEF SET_DETECTPARA, ShutterOps
  <2>2. /\ DOMAIN ops = 1..3 /\ ops[1] = Store("exposureh", h) /\ ops[2] = Store("exposurel", l)
        /\ ops[3] = Shutter(Word(h, l)) /\ Word(h, l) \in Words
    BY ShutterList
  <2> HIDE DEF ops
  <2>3. ops[1].op = "store" /\ ops[2].op = "store" /\ ops[3].op = "shutter" /\ ops[3].val = Word(h, l)
    <3>1. "exposureh" \in Keys /\ "exposurel" \in Keys
      BY DEF Keys
    <3> QED
      BY <2>2, <3>1, OpFields
  <2>4. para'["exposureh"] = h /\ para'["exposurel"] = l
    BY <2>1 DEF Inv, TypeOK, Keys
  <2>5. Follows(ops, para', 3)
    BY <2>2, <2>3, <2>4 DEF Follows, Reaches
  <2> QED
    <3>1. \A i \in DOMAIN ops : ops[i].op = "shutter" => i = 3
      BY <2>2, <2>3
    <3>2. ~\A i \in DOMAIN ops : ops[i].op # "shutter"
      BY <2>2, <2>3
    <3> QED
      BY <2>1, <2>5, <3>1, <3>2, SensorCommand
<1>2. ASSUME NEW c \in Byte, SET_CAMID(c) PROVE SensorInv'
  <2> DEFINE ops == << Store("id", c) >>
  <2>1. Store("id", c).op = "store"
    BY OpFields DEF Keys
  <2>2. DOMAIN ops = {1} /\ ops[1] = Store("id", c)
    OBVIOUS
  <2>3. Command(ops) /\ para' = para
    BY <1>2 DEF SET_CAMID
  <2> HIDE DEF ops
  <2> QED
    BY <2>1, <2>2, <2>3, SensorCommand
<1>3. ASSUME NEW ops \in Seq(Plain), Command(ops), UNCHANGED para PROVE SensorInv'
  <2>1. \A i \in DOMAIN ops : ops[i].op = "save" /\ ops[i].key \notin {"exposureh", "exposurel"}
    BY NoShutter
  <2> QED
    BY <1>3, <2>1, SensorCommand
<1>4. ASSUME NEW h \in Byte, NEW l \in Byte, NEW height \in Byte, SET_AOI(h, l, height) PROVE SensorInv'
  BY <1>3, <1>4, AoiPlain DEF SET_AOI
<1>5. ASSUME NEW row \in Byte, SET_STARTY240(row) PROVE SensorInv'
  BY <1>3, <1>5, RowPlain DEF SET_STARTY240
<1>6. ASSUME NEW h \in Byte, NEW l \in Byte, NEW height \in Byte, NEW row \in Byte,
             GET_CAMINFO(h, l, height, row) PROVE SensorInv'
  <2> DEFINE ops == AoiOps(h, l, height) \o RowOps(row)
  <2>1. ops \in Seq(Plain)
    BY AoiPlain, RowPlain, ConcatProperties
  <2>2. Command(ops) /\ UNCHANGED para
    BY <1>6 DEF GET_CAMINFO
  <2> HIDE DEF ops
  <2> QED
    BY <1>3, <2>1, <2>2
<1>7. ASSUME SET_PARA_RESET PROVE SensorInv'
  <2>1. Command(ResetOps)
    BY <1>7 DEF SET_PARA_RESET, ResetOps
  <2>2. Default["exposureh"] \in Byte /\ Default["exposurel"] \in Byte
    BY OpFields DEF Keys
  <2>3. ASSUME NEW key \in {"exposureh", "exposurel"} PROVE Reaches(ResetOps, para', key, Default[key], 7)
    <3>1. \E j \in 1..6 : ResetOps[j].op = "save" /\ ResetOps[j].key = key
      BY ResetList
    <3>2. ASSUME NEW j \in 1..9, ResetOps[j].op = "save", ResetOps[j].key = key
          PROVE  j < 7 /\ ResetOps[j].val = Default[key]
      BY <3>2, ResetList
    <3> QED
      BY <3>1, <3>2, ResetList DEF Reaches
  <2>4. Follows(ResetOps, para', 7)
    BY <2>2, <2>3, ResetList DEF Follows, Exposure
  <2> QED
    <3>1. \A i \in DOMAIN ResetOps : ResetOps[i].op = "shutter" => i = 7
      BY ResetList
    <3>2. ~\A i \in DOMAIN ResetOps : ResetOps[i].op # "shutter"
      BY ResetList
    <3> QED
      BY <2>1, <2>4, <3>1, <3>2, SensorCommand
<1> QED
  BY <1>1, <1>2, <1>4, <1>5, <1>6, <1>7 DEF udp_dataprocess_task

(* Done entries leave the queue, and those behind mean what they meant.    *)
LEMMA FollowsRest ==
  ASSUME Inv, todo # <<>>, todo' = Tail(todo), NEW i \in 1..Len(todo)-1,
         Follows(todo, para, i+1),
         todo[1].op = "save" => para' = [para EXCEPT ![todo[1].key] = todo[1].val],
         todo[1].op # "save" => \A key \in {"exposureh", "exposurel"} : para'[key] = para[key]
  PROVE  Follows(todo', para', i)
<1> DEFINE n == Len(todo)
<1>1. /\ n \in Nat \ {0} /\ DOMAIN todo = 1..n /\ DOMAIN todo' = 1..n-1
      /\ \A j \in 1..n-1 : todo'[j] = todo[j+1]
  BY Rest DEF Inv, TypeOK
<1>2. PICK h \in Byte, l \in Byte :
        /\ todo[i+1].val = Word(h, l)
        /\ Reaches(todo, para, "exposureh", h, i+1) /\ Reaches(todo, para, "exposurel", l, i+1)
  BY DEF Follows
<1>3. ASSUME NEW key \in {"exposureh", "exposurel"}, NEW val \in Byte, Reaches(todo, para, key, val, i+1)
      PROVE  Reaches(todo', para', key, val, i)
  <2> HIDE DEF n
  <2>0. key \in Keys
    BY DEF Keys
  <2>1. \A j \in 1..n-1 : todo'[j].op = "save" /\ todo'[j].key = key => j < i /\ todo'[j].val = val
    BY <1>1, <1>3 DEF Reaches
  <2>2. para'[key] = val \/ \E j \in 1..i-1 : todo'[j].op = "save" /\ todo'[j].key = key
    <3>1. CASE todo[1].op = "save" /\ todo[1].key = key
      BY <1>1, <1>3, <2>0, <3>1 DEF Reaches, Inv, TypeOK
    <3>2. CASE ~(todo[1].op = "save" /\ todo[1].key = key)
      <4>1. para'[key] = para[key]
        BY <2>0, <3>2 DEF Inv, TypeOK
      <4>2. CASE \E j \in 1..i : todo[j].op = "save" /\ todo[j].key = key
        <5>1. PICK j \in 1..i : todo[j].op = "save" /\ todo[j].key = key
          BY <4>2
        <5>2. j # 1
          BY <3>2, <5>1
        <5>3. j - 1 \in 1..i-1 /\ todo'[j-1] = todo[j]
          BY <1>1, <5>2
        <5> QED
          BY <5>1, <5>3
      <4>3. para[key] = val \/ \E j \in 1..i : todo[j].op = "save" /\ todo[j].key = key
        <5>1. (i + 1) - 1 = i
          BY <1>1
        <5> QED
          BY <1>3, <5>1 DEF Reaches
      <4> QED
        BY <4>1, <4>2, <4>3
    <3> QED
      BY <3>1, <3>2
  <2> QED
    BY <1>1, <2>1, <2>2 DEF Reaches
<1>4. todo'[i].val = Word(h, l)
  BY <1>1, <1>2
<1> QED
  BY <1>2, <1>3, <1>4 DEF Follows, Keys

(* Every step keeps SensorInv, if no command is taken during set-up.       *)
LEMMA SensorInvStep == ~EarlyCommands /\ Inv /\ SensorInv /\ [Next]_vars => SensorInv'
<1> SUFFICES ASSUME ~EarlyCommands, Inv, SensorInv, [Next]_vars PROVE SensorInv'
  OBVIOUS
<1>1. CASE InitCamParaPacket
  <2>1. todo # <<>> /\ Head(todo).op = "init"
    BY <1>1 DEF InitCamParaPacket
  <2>2. 1 \in DOMAIN todo /\ Head(todo) = todo[1]
    BY <2>1, EmptySeq, LenProperties DEF Inv, TypeOK
  <2>3. ~run /\ cap = "probe" /\ run' = run /\ cap' = cap
    BY <1>1, <2>1, <2>2 DEF Inv, LoadInv, SensorInv, InitCamParaPacket, capVars
  <2>4. \A i \in DOMAIN todo' : todo'[i].op # "shutter"
    <3>1. Save("starty240", ROWMAX).op = "save"
      BY OpFields, ParamAssumption DEF Keys
    <3>2. todo' \in {<<>>, << Save("starty240", ROWMAX) >>, Defaults}
      BY <1>1 DEF InitCamParaPacket
    <3>3. CASE todo' = <<>>
      BY <3>3
    <3>4. CASE todo' = << Save("starty240", ROWMAX) >>
      BY <3>1, <3>4
    <3>5. CASE todo' = Defaults
      BY <3>5, NoShutter
    <3> QED
      BY <3>2, <3>3, <3>4, <3>5
  <2> QED
    BY <2>3, <2>4 DEF SensorInv
<1>2. CASE main
  <2>1. todo = <<>> /\ ~run /\ run' = TRUE /\ UNCHANGED <<todo, para, sensor, cap, capval>>
    BY <1>2 DEF main, capVars
  <2>2. cap = "probe" /\ DOMAIN todo = {}
    BY <2>1 DEF SensorInv
  <2> QED
    BY <2>1, <2>2 DEF SensorInv
<1>3. CASE AT24CXX_WriteOneByte \/ StatusCleared
  <2> DEFINE w == todo[1]
             n == Len(todo)
  <2>0. todo \in Seq(Ops) /\ todo # <<>> /\ todo' = Tail(todo)
    BY <1>3 DEF Inv, TypeOK, AT24CXX_WriteOneByte, StatusCleared
  <2>1. /\ n \in Nat \ {0} /\ DOMAIN todo = 1..n /\ DOMAIN todo' = 1..n-1
        /\ \A i \in 1..n-1 : todo'[i] = todo[i+1]
        /\ Head(todo) = w /\ w \in Ops
    BY <2>0, Rest
  <2>2. /\ w.op \in {"save", "store", "clear"}
        /\ w.op # "clear" => w.key \in Keys
        /\ w.op = "save" => para' = [para EXCEPT ![w.key] = w.val]
        /\ w.op # "save" => \A key \in {"exposureh", "exposurel"} : para'[key] = para[key]
        /\ UNCHANGED <<run, sensor, cap, capval>>
    BY <1>3, <2>1, OpTypes DEF AT24CXX_WriteOneByte, StatusCleared, capVars, Inv, TypeOK, Keys
  <2>3. \A i \in 1..n-1 : todo'[i].op = "shutter" => Follows(todo', para', i)
    <3>1. ASSUME NEW i \in 1..n-1, todo'[i].op = "shutter" PROVE Follows(todo', para', i)
      <4>1. Follows(todo, para, i+1)
        BY <2>1, <3>1 DEF SensorInv
      <4> QED
        BY <2>0, <2>2, <4>1, FollowsRest
    <3> QED
      BY <3>1
  <2> HIDE DEF w, n
  <2>4. CASE ~run
    <3>1. cap = "probe" /\ \A i \in 1..n-1 : todo'[i].op # "shutter"
      BY <2>1, <2>4 DEF SensorInv
    <3> QED
      BY <2>1, <2>2, <2>4, <3>1 DEF SensorInv
  <2>5. CASE run
    <3>1. cap = "done"
      BY <2>0, <2>5 DEF SensorInv
    <3>2. ASSUME \A i \in 1..n-1 : todo'[i].op # "shutter"
          PROVE  /\ sensor["shutter"] = Exposure(para')
                 /\ \A i \in 1..n-1 : todo'[i].op = "save" =>
                      todo'[i].key \notin {"exposureh", "exposurel"}
      <4>1. \A i \in 1..n : todo[i].op # "shutter"
        <5>1. ASSUME NEW i \in 1..n, i # 1 PROVE todo[i].op # "shutter"
          <6>1. i - 1 \in 1..n-1 /\ todo'[i-1] = todo[i]
            BY <2>1, <5>1
          <6> QED
            BY <3>2, <6>1
        <5> QED
          BY <2>2, <5>1 DEF w
      <4>2. /\ sensor["shutter"] = Exposure(para)
            /\ \A i \in 1..n : todo[i].op = "save" => todo[i].key \notin {"exposureh", "exposurel"}
        BY <2>1, <3>1, <4>1 DEF SensorInv
      <4>3. para'["exposureh"] = para["exposureh"] /\ para'["exposurel"] = para["exposurel"]
        BY <2>1, <2>2, <4>2 DEF w, Inv, TypeOK, Keys
      <4> QED
        BY <2>1, <4>2, <4>3 DEF Exposure
    <3> QED
      BY <2>1, <2>2, <2>3, <2>5, <3>1, <3>2 DEF SensorInv
  <2> QED
    BY <2>4, <2>5
<1>4. CASE ShutterWrite \/ ShutterRead
  <2> DEFINE n == Len(todo)
  <2>1. /\ todo \in Seq(Ops) /\ todo # <<>> /\ Head(todo).op = "shutter"
        /\ UNCHANGED <<para, run, cap, capval>>
    BY <1>4 DEF ShutterWrite, ShutterRead, Inv, TypeOK, capVars
  <2>2. n \in Nat \ {0} /\ DOMAIN todo = 1..n /\ Head(todo) = todo[1]
    BY <2>1, EmptySeq, LenProperties
  <2>3. run /\ cap = "done"
    BY <2>1, <2>2 DEF SensorInv
  <2>4. CASE todo' = todo
    BY <2>1, <2>2, <2>3, <2>4 DEF SensorInv
  <2>5. CASE todo' = Tail(todo) /\ ShutterRead /\ sensor["shutter"] = Head(todo).val
    <3>1. DOMAIN todo' = 1..n-1 /\ \A i \in 1..n-1 : todo'[i] = todo[i+1]
      BY <2>1, <2>5, Rest
    <3>2. ASSUME NEW i \in 1..n-1, todo'[i].op = "shutter" PROVE Follows(todo', para', i)
      <4>1. Follows(todo, para, i+1)
        BY <2>2, <3>1, <3>2 DEF SensorInv
      <4> QED
        BY <2>1, <2>2, <2>5, <4>1, FollowsRest
    <3> HIDE DEF n
    <3>3. Follows(todo, para, 1)
      BY <2>1, <2>2 DEF SensorInv
    <3>4. PICK h \in Byte, l \in Byte :
            /\ todo[1].val = Word(h, l)
            /\ Reaches(todo, para, "exposureh", h, 1) /\ Reaches(todo, para, "exposurel", l, 1)
      BY <3>3 DEF Follows
    <3>5. para["exposureh"] = h /\ para["exposurel"] = l
      BY <3>4 DEF Reaches
    <3>6. \A j \in 1..n : todo[j].op = "save" => todo[j].key \notin {"exposureh", "exposurel"}
      BY <2>2, <3>4 DEF Reaches
    <3>7. sensor' = sensor /\ sensor["shutter"] = Exposure(para)
      BY <2>2, <2>5, <3>4, <3>5 DEF Exposure, ShutterRead
    <3> QED
      BY <2>1, <2>2, <2>3, <3>1, <3>2, <3>6, <3>7 DEF SensorInv
  <2> QED
    BY <1>4, <2>4, <2>5 DEF ShutterWrite, ShutterRead, cmos_rget
<1>5. CASE capcamera_task
  <2>1. UNCHANGED <<para, run, todo>> /\ cap # "done"
    BY <1>5 DEF capcamera_task, CapProbe, CapWrite, CapRead, dpVars, Regs
  <2>2. run /\ todo = <<>>
    BY <1>5, <2>1 DEF capcamera_task, CapProbe, CapWrite, CapRead, SensorInv, Regs
  <2>3. DOMAIN todo' = {}
    BY <2>1, <2>2
  <2>4. CASE CapProbe
    BY <2>1, <2>2, <2>3, <2>4 DEF CapProbe, SensorInv
  <2>5. CASE CapWrite
    BY <2>1, <2>2, <2>3, <2>5 DEF CapWrite, SensorInv
  <2>6. CASE CapRead
    <3>1. sensor' = sensor
      BY <2>6 DEF CapRead
    <3>2. cap' = "shutter" => capval' = Exposure(para')
      BY <2>1, <2>6 DEF CapRead, SensorInv, Regs
    <3>3. cap' = "done" => sensor["shutter"] = capval /\ cap = "shutter"
      BY <2>6 DEF CapRead, cmos_rget, Regs
    <3> QED
      BY <2>1, <2>2, <2>3, <3>1, <3>2, <3>3 DEF SensorInv
  <2> QED
    BY <1>5, <2>4, <2>5, <2>6 DEF capcamera_task
<1>6. CASE PowerFail
  <2>1. DOMAIN todo' = {1} /\ todo'[1].op = "init" /\ run' = FALSE /\ cap' = "probe"
    BY <1>6 DEF PowerFail
  <2> QED
    BY <2>1 DEF SensorInv
<1>7. CASE UNCHANGED vars
  BY <1>7 DEF vars, dpVars, capVars, SensorInv
<1> QED
  BY <1>1, <1>2, <1>3, <1>4, <1>5, <1>6, <1>7, SensorCommands DEF Next

(* If no command comes before the sensor is set up, its shutter is the     *)
(* exposure the camera reports, transfers lost on the way or not.          *)
THEOREM SensorAgrees == ~EarlyCommands /\ Spec => []SensorFollows
<1>1. Init => SensorInv
  <2> SUFFICES ASSUME Init PROVE SensorInv
    OBVIOUS
  <2>1. DOMAIN todo = {1} /\ todo[1].op = "init" /\ ~run /\ cap = "probe"
    BY DEF Init
  <2> QED
    BY <2>1 DEF SensorInv
<1>2. SensorInv => SensorFollows
  BY DEF SensorInv, SensorFollows
<1>3. CASE ~EarlyCommands
  <2>1. Inv /\ SensorInv /\ [Next]_vars => SensorInv'
    BY <1>3, SensorInvStep
  <2> QED
    BY <1>1, <1>2, <2>1, InvCorrect, PTL DEF Spec
<1> QED
  BY <1>3
=============================================================================
