--------------------------- MODULE AlsaPluginProofs ----------------------------
(***************************************************************************)
(* Theorems about AlsaPlugin: the inductive invariant PluginInv, one lemma *)
(* for each action, and what follows from it.  They hold for every block   *)
(* size, modulus, transfer size and layout of the areas, and for every     *)
(* slave whose channel map, if it has eight channels, is one of eight      *)
(* different positions.                                                    *)
(***************************************************************************)
EXTENDS AlsaPlugin, TLAPS
--------------------------------------------------------------------------------
(* Arithmetic. *)

(* A product with a greater factor is greater by at least m. *)
LEMMA ProductBounds ==
  ASSUME NEW a \in Int, NEW b \in Int, NEW m \in Nat \ {0}, a < b
  PROVE  m * a + m <= m * b
<1>1. b - a - 1 \in Nat OBVIOUS
<1>2. m * (b - a - 1) >= 0 BY <1>1
<1>3. m * (b - a - 1) = m * b - m * a - m OBVIOUS
<1> QED BY <1>2, <1>3

(* What \div and % mean. *)
LEMMA Division ==
  ASSUME NEW x \in Int, NEW m \in Nat \ {0}
  PROVE  /\ x \div m \in Int /\ x % m \in 0 .. m - 1
         /\ x = m * (x \div m) + (x % m)
OBVIOUS

(* Quotient and remainder are the only ones. *)
LEMMA Remainder ==
  ASSUME NEW q \in Int, NEW m \in Nat \ {0}, NEW r \in 0 .. m - 1
  PROVE  /\ (m * q + r) % m = r
         /\ (m * q + r) \div m = q
<1> DEFINE x == m * q + r
           p == x \div m
           s == x % m
<1>1. x \in Int /\ p \in Int /\ s \in 0 .. m - 1 /\ x = m * p + s BY Division
<1> HIDE DEF p, s
<1>2. CASE p < q
  <2>1. m * p + m <= m * q BY <1>1, <1>2, ProductBounds
  <2> QED BY <1>1, <2>1
<1>3. CASE q < p
  <2>1. m * q + m <= m * p BY <1>1, <1>3, ProductBounds
  <2> QED BY <1>1, <2>1
<1>4. CASE p = q
  <2>1. s = r BY <1>1, <1>4
  <2> QED BY <1>4, <2>1 DEF p, s
<1> QED BY <1>1, <1>2, <1>3, <1>4

(* Taking the remainder before an addition changes nothing (streamPos_). *)
LEMMA ModuloSum ==
  ASSUME NEW x \in Nat, NEW b \in Nat, NEW m \in Nat \ {0}
  PROVE  ((x % m) + b) % m = (x + b) % m
<1> DEFINE y == (x % m) + b
           q == x \div m
           p == y \div m
<1>1. q \in Int /\ x % m \in Int /\ x = m * q + (x % m) BY Division
<1>2. y \in Int /\ p \in Int /\ y % m \in 0 .. m - 1 /\ y = m * p + (y % m) BY <1>1, Division
<1>3. x + b = m * (q + p) + (y % m)
  <2>1. y = (x % m) + b OBVIOUS
  <2> HIDE DEF q, p, y
  <2>2. m * (q + p) = m * q + m * p BY <1>1, <1>2
  <2> QED BY <1>1, <1>2, <2>1, <2>2
<1>4. (m * (q + p) + (y % m)) % m = y % m
  <2>1. q + p \in Int BY <1>1, <1>2
  <2> HIDE DEF q, p, y
  <2> QED BY <1>2, <2>1, Remainder
<1> QED BY <1>3, <1>4

(* Nor does it before taking that by a divisor (dxo_pointer). *)
LEMMA ModuloDivisor ==
  ASSUME NEW x \in Nat, NEW m \in Nat \ {0}, NEW h \in Nat \ {0}, m % h = 0
  PROVE  (x % m) % h = x % h
<1> DEFINE k == m \div h
           q == x \div m
           r == x % m
           p == r \div h
<1>1. k \in Int /\ m = h * k BY Division
<1>2. q \in Int /\ r \in Int /\ x = m * q + r BY Division
<1>3. p \in Int /\ r % h \in 0 .. h - 1 /\ r = h * p + (r % h)
  <2> HIDE DEF r, q
  <2> QED BY <1>2, Division DEF p
<1>4. x = h * (k * q + p) + (r % h)
  <2> HIDE DEF k, q, r, p
  <2>1. m * q = h * (k * q) BY <1>1, <1>2
  <2>2. h * (k * q + p) = h * (k * q) + h * p BY <1>1, <1>2, <1>3
  <2> QED BY <1>2, <1>3, <2>1, <2>2
<1>5. k * q + p \in Int BY <1>1, <1>2, <1>3
<1>6. (h * (k * q + p) + (r % h)) % h = r % h
  <2> HIDE DEF k, q, r, p
  <2> QED BY <1>3, <1>5, Remainder
<1> QED BY <1>4, <1>6

--------------------------------------------------------------------------------
(* The initial states and the steps. *)

(* The minimum of two numbers (the size of a segment). *)
LEMMA MinOfTwo ==
  ASSUME NEW a \in Nat, NEW b \in Nat
  PROVE  Min({a, b}) = IF a <= b THEN a ELSE b
<1>1. PICK x \in {a, b} : \A y \in {a, b} : x <= y OBVIOUS
<1>2. Min({a, b}) \in {a, b} /\ \A y \in {a, b} : Min({a, b}) <= y
  BY <1>1 DEF Min
<1> QED BY <1>2

(* The table of alsa_plugin.h only has numbers of filters. *)
LEMMA MapRange ==
  ASSUME NEW p \in PositionNames
  PROVE  MapAlsaChannel[p] \in Filters
BY DEF PositionNames, MapAlsaChannel, Filters

(* So has channelMap_ before a slave is opened. *)
LEMMA MapInitial == InitialChannelMap \in [0 .. 7 -> Filters]
BY DEF InitialChannelMap, DefaultMap, MapAlsaChannel, PositionNames, Filters

(* The invariant holds when the plugin is created. *)
LEMMA InitCorrect == Init => PluginInv
<1> SUFFICES ASSUME Init PROVE PluginInv OBVIOUS
<1> USE PluginAssumption
<1>1. TypeOK
  <2>1. <<0, 0, 0>> \in Samples BY DEF Samples, Mix
  <2>2. \A c \in Inputs : \A j \in 0 .. BlockSize - 1 : inputs[c][j] \in Samples
    BY <2>1 DEF Init
  <2>3. 0 \in Filters BY DEF Filters
  <2>4. \A k \in 0 .. BlockSize * NumOutputChannels - 1 : outputBuffer[k] \in Filters \X Samples
    BY <2>1, <2>3 DEF Init
  <2>5. channelMap \in [0 .. 7 -> Filters] BY MapInitial DEF Init
  <2>6. areas.offset \in Nat /\ areas.step \in Nat \ {0} BY DEF Init, NoAreas
  <2>7. /\ io \in {"open", "setup", "prepared", "closed"}
        /\ pc \in {"idle", "copy", "filter", "write", "advance"}
        /\ device \in BOOLEAN /\ handles \in Nat /\ addr \in Nat
    BY DEF Init
  <2>8. /\ inputOffset \in 0 .. BlockSize /\ streamPos \in 0 .. Modulus - 1
        /\ todo \in 0 .. MaxTransfer /\ session \in 0 .. 2
        /\ {taken, delivered, lost} \subseteq 0 .. MaxFrames
    BY DEF Init
  <2> QED BY <2>2, <2>4, <2>5, <2>6, <2>7, <2>8 DEF TypeOK
<1>2. WhereOK BY DEF Init, WhereOK, Ready
<1>3. FramesAccounted
  <2>1. 0 % Modulus = 0 BY Remainder
  <2> QED BY <2>1 DEF Init, FramesAccounted, Advanced, Filtered
<1>4. DeviceSound BY DEF Init, DeviceSound
<1>5. AddrOK BY DEF Init, AddrOK
<1>6. Filled BY DEF Init, Filled
<1>7. MapOK BY DEF Init, MapOK
<1>8. WrittenOK BY DEF Init, WrittenOK
<1> QED BY <1>1, <1>2, <1>3, <1>4, <1>5, <1>6, <1>7, <1>8 DEF PluginInv

(* dxo_prepare keeps it: a new session starts with an empty block. *)
LEMMA PrepareStep == PluginInv /\ Prepare => PluginInv'
<1> SUFFICES ASSUME PluginInv, Prepare PROVE PluginInv' OBVIOUS
<1> USE PluginAssumption DEF PluginInv, Prepare, setup, buffers, source
<1>1. TypeOK' BY DEF TypeOK
<1>2. WhereOK' BY DEF WhereOK, Ready, TypeOK
<1>3. FramesAccounted'
  <2>1. 0 % Modulus = 0 BY Remainder
  <2> QED BY <2>1 DEF FramesAccounted, Advanced, Filtered
<1>4. DeviceSound' BY DEF DeviceSound
<1>5. AddrOK' BY DEF AddrOK
<1>6. Filled' BY DEF Filled
<1>7. MapOK' BY DEF MapOK, Positions
<1>8. WrittenOK' BY DEF WrittenOK
<1> QED BY <1>1, <1>2, <1>3, <1>4, <1>5, <1>6, <1>7, <1>8

(* A step that changes nothing keeps it. *)
LEMMA StutterStep == PluginInv /\ UNCHANGED vars => PluginInv'
<1> SUFFICES ASSUME PluginInv, UNCHANGED vars PROVE PluginInv' OBVIOUS
<1> USE DEF PluginInv, vars, setup, buffers, source, counts, history
<1>1. TypeOK' BY DEF TypeOK
<1>2. WhereOK' BY DEF WhereOK, Ready, Filtered
<1>3. FramesAccounted' BY DEF FramesAccounted, Advanced, Filtered
<1>4. DeviceSound' BY DEF DeviceSound
<1>5. AddrOK' BY DEF AddrOK
<1>6. Filled' BY DEF Filled, HasLFE
<1>7. MapOK' BY DEF MapOK, Positions
<1>8. WrittenOK' BY DEF WrittenOK, Output
<1> QED BY <1>1, <1>2, <1>3, <1>4, <1>5, <1>6, <1>7, <1>8

(* hw_params with an open device keeps it. *)
LEMMA KeepDeviceStep == PluginInv /\ KeepDevice => PluginInv'
<1> SUFFICES ASSUME PluginInv, KeepDevice PROVE PluginInv' OBVIOUS
<1> USE PluginAssumption DEF PluginInv, KeepDevice, Negotiate, buffers, source, counts, history
<1>1. TypeOK' BY DEF TypeOK
<1>2. WhereOK' BY DEF WhereOK, Ready
<1>3. FramesAccounted' BY DEF FramesAccounted, Advanced, Filtered
<1>4. DeviceSound' BY DEF DeviceSound
<1>5. AddrOK' BY DEF AddrOK
<1>6. Filled' BY DEF Filled
<1>7. MapOK' BY DEF MapOK, Positions
<1>8. WrittenOK' BY DEF WrittenOK
<1> QED BY <1>1, <1>2, <1>3, <1>4, <1>5, <1>6, <1>7, <1>8

(* hw_params that opens the slave keeps it: channelMap_ becomes its map. *)
LEMMA OpenDeviceStep == PluginInv /\ OpenDevice => PluginInv'
<1> SUFFICES ASSUME PluginInv, OpenDevice PROVE PluginInv' OBVIOUS
<1> USE PluginAssumption DEF PluginInv, OpenDevice, Negotiate, buffers, source, counts, history
<1>0. slave' \in Slaves /\ slave'.map \in Seq(PositionNames) OBVIOUS
<1>1. channelMap' \in [0 .. 7 -> Filters]
  <2>1. ASSUME NEW p \in 0 .. 7, p < Len(slave'.map)
        PROVE  MapAlsaChannel[slave'.map[p + 1]] \in Filters
    <3>1. slave'.map[p + 1] \in PositionNames BY <1>0, <2>1
    <3> QED BY <3>1, MapRange
  <2>2. channelMap \in [0 .. 7 -> Filters] BY DEF TypeOK
  <2> QED BY <2>1, <2>2
<1>2. TypeOK' BY <1>1 DEF TypeOK
<1>3. WhereOK' BY DEF WhereOK, Ready
<1>4. FramesAccounted' BY DEF FramesAccounted, Advanced, Filtered
<1>5. DeviceSound' BY DEF DeviceSound
<1>6. AddrOK' BY DEF AddrOK
<1>7. Filled' BY DEF Filled
<1>8. MapOK'
  <2>1. SUFFICES ASSUME slave'.channels = 8, NEW p \in 1 .. 8
                 PROVE  channelMap'[p - 1] = MapAlsaChannel[Positions'[p]]
    BY <1>0 DEF MapOK
  <2>2. channelMap = InitialChannelMap BY DEF MapOK
  <2>3. CASE slave'.map = <<>>
    <3>1. Len(slave'.map) = 0 BY <2>3
    <3>2. channelMap'[p - 1] = InitialChannelMap[p - 1] BY <2>1, <2>2, <3>1
    <3>3. Positions' = <<"FL", "FR", "RL", "RR", "FC", "LFE", "SL", "SR">>
      BY <2>3 DEF Positions
    <3>4. InitialChannelMap[p - 1] = MapAlsaChannel[DefaultMap[p]] BY DEF InitialChannelMap
    <3>5. MapAlsaChannel["UNKNOWN"] = 0 /\ MapAlsaChannel["FC"] = 0
      BY DEF MapAlsaChannel, PositionNames
    <3> QED BY <3>2, <3>3, <3>4, <3>5 DEF DefaultMap
  <2>4. CASE slave'.map # <<>>
    <3>1. Len(slave'.map) = 8 BY <1>0, <2>1, <2>4
    <3> QED BY <2>1, <2>4, <3>1 DEF Positions
  <2> QED BY <2>3, <2>4
<1>9. WrittenOK' BY DEF WrittenOK, WhereOK
<1> QED BY <1>2, <1>3, <1>4, <1>5, <1>6, <1>7, <1>8, <1>9

(* hw_params that fails keeps it. *)
LEMMA OpenFailsStep == PluginInv /\ (OpenFails \/ ParamsFail) => PluginInv'
<1> SUFFICES ASSUME PluginInv, OpenFails \/ ParamsFail PROVE PluginInv' OBVIOUS
<1> USE PluginAssumption
    DEF PluginInv, OpenFails, ParamsFail, Negotiate, buffers, source, counts, history
<1>1. TypeOK'
  <2>1. device' \in BOOLEAN BY DEF TypeOK
  <2>2. handles' \in Nat BY DEF TypeOK
  <2> QED BY <2>1, <2>2 DEF TypeOK
<1>2. WhereOK' BY DEF WhereOK, Ready
<1>3. FramesAccounted' BY DEF FramesAccounted, Advanced, Filtered
<1>4. DeviceSound' BY DEF DeviceSound, TypeOK
<1>5. AddrOK' BY DEF AddrOK
<1>6. Filled' BY DEF Filled
<1>7. MapOK' BY DEF MapOK
<1>8. WrittenOK' BY DEF WrittenOK
<1> QED BY <1>1, <1>2, <1>3, <1>4, <1>5, <1>6, <1>7, <1>8

(* dxo_close keeps it. *)
LEMMA CloseStep == PluginInv /\ Close => PluginInv'
<1> SUFFICES ASSUME PluginInv, Close PROVE PluginInv' OBVIOUS
<1> USE DEF PluginInv, Close, buffers, source, counts, history
<1>1. TypeOK'
  <2>1. handles' = 0
    <3>1. CASE device BY <3>1 DEF DeviceSound
    <3>2. CASE ~device BY <3>2 DEF DeviceSound
    <3> QED BY <3>1, <3>2
  <2>2. device' \in BOOLEAN OBVIOUS
  <2> QED BY <2>1, <2>2 DEF TypeOK
<1>2. WhereOK' BY DEF WhereOK, Ready
<1>3. FramesAccounted' BY DEF FramesAccounted, Advanced, Filtered
<1>4. DeviceSound' BY DEF DeviceSound
<1>5. AddrOK' BY DEF AddrOK
<1>6. Filled' BY DEF Filled
<1>7. MapOK' BY DEF MapOK
<1>8. WrittenOK' BY DEF WrittenOK
<1> QED BY <1>1, <1>2, <1>3, <1>4, <1>5, <1>6, <1>7, <1>8

(* After a successful hw_params the parameters are in the offered ranges. *)
LEMMA ReadyParams ==
  ASSUME PluginInv, io \in {"setup", "prepared"}
  PROVE  params \in Params /\ params.channels \in {2, 3} /\ params.buffer \in Nat \ {0, 1}
<1>1. params \in Params BY DEF PluginInv, WhereOK, Ready
<1> QED BY <1>1, PluginAssumption

(* dxo_transfer begins at the first frame of the areas. *)
LEMMA TransferStep ==
  ASSUME PluginInv, NEW size \in 0 .. MaxTransfer, Transfer(size)
  PROVE  PluginInv'
<1> USE PluginAssumption DEF PluginInv, Transfer, setup, buffers, counts, history
<1>1. params.channels \in {2, 3} BY ReadyParams
<1>2. PICK l \in Layouts :
        /\ areas' = [first |-> taken, offset |-> l.offset, step |-> params.channels + l.extra]
        /\ addr' = l.offset * (params.channels + l.extra)
  OBVIOUS
<1>3. l.offset \in Nat /\ l.extra \in Nat OBVIOUS
<1>4. taken \in Nat BY DEF TypeOK
<1>5. /\ areas'.first = taken /\ areas'.offset = l.offset
      /\ areas'.step = params.channels + l.extra
  BY <1>2
<1>6. params.channels + l.extra \in Nat \ {0} BY <1>1, <1>3
<1>7. addr' \in Nat BY <1>2, <1>3, <1>6
<1>8. TypeOK' BY <1>3, <1>5, <1>6, <1>7 DEF TypeOK
<1>9. WhereOK' BY DEF WhereOK, Ready, Filtered
<1>10. FramesAccounted' BY DEF FramesAccounted, Advanced, Filtered
<1>11. DeviceSound' BY DEF DeviceSound
<1>12. AddrOK' BY <1>1, <1>2, <1>3, <1>4, <1>5 DEF AddrOK
<1>13. Filled' BY DEF Filled, HasLFE
<1>14. MapOK' BY DEF MapOK, Positions
<1>15. WrittenOK' BY DEF WrittenOK
<1> QED BY <1>8, <1>9, <1>10, <1>11, <1>12, <1>13, <1>14, <1>15

(* dxo_transfer returns. *)
LEMMA TransferDoneStep == PluginInv /\ TransferDone => PluginInv'
<1> SUFFICES ASSUME PluginInv, TransferDone PROVE PluginInv' OBVIOUS
<1> USE DEF PluginInv, TransferDone, setup, buffers, counts, history
<1>1. TypeOK' BY DEF TypeOK, NoAreas
<1>2. WhereOK' BY DEF WhereOK, Ready
<1>3. FramesAccounted' BY DEF FramesAccounted, Advanced, Filtered
<1>4. DeviceSound' BY DEF DeviceSound
<1>5. AddrOK' BY DEF AddrOK
<1>6. Filled' BY DEF Filled, HasLFE
<1>7. MapOK' BY DEF MapOK, Positions
<1>8. WrittenOK' BY DEF WrittenOK
<1> QED BY <1>1, <1>2, <1>3, <1>4, <1>5, <1>6, <1>7, <1>8

(* The sample of channel r at the frame q steps into the areas. *)
LEMMA SampleAt ==
  ASSUME NEW q \in Int, areas.step \in Nat \ {0}, NEW r \in 0 .. areas.step - 1
  PROVE  Memory(areas.step * q + r) = <<session, areas.first + q - areas.offset, r>>
BY Remainder DEF Memory

(* A segment of update keeps it: what is copied are the next frames, and
   addr_ moves on by as many. *)
LEMMA CopyStep == PluginInv /\ CopySegment => PluginInv'
<1> SUFFICES ASSUME PluginInv, CopySegment PROVE PluginInv' OBVIOUS
<1> DEFINE n == Min({todo, BlockSize - inputOffset})
<1> USE PluginAssumption DEF PluginInv, setup, buffers, counts, history
<1>1. /\ inputOffset \in Nat /\ inputOffset < BlockSize /\ todo \in Nat /\ todo > 0
      /\ io = "prepared" /\ taken \in Nat /\ taken + todo <= MaxFrames
  BY DEF CopySegment, TypeOK, WhereOK
<1>2. n \in Nat \ {0} /\ n <= todo /\ inputOffset + n <= BlockSize
  <2>1. n = IF todo <= BlockSize - inputOffset THEN todo ELSE BlockSize - inputOffset
    BY <1>1, MinOfTwo
  <2> QED BY <1>1, <2>1
<1>3. Copy(n) /\ addr' = addr + n * areas.step /\ pc = "copy" BY DEF CopySegment
<1> HIDE DEF n
<1>4. /\ inputOffset' = inputOffset + n /\ todo' = todo - n /\ taken' = taken + n
      /\ pc' = IF inputOffset + n = BlockSize THEN "filter" ELSE "copy"
      /\ UNCHANGED <<io, setup, outputBuffer, streamPos, areas, session, delivered, lost>>
      /\ inputs' = [c \in Inputs |-> [j \in 0 .. BlockSize - 1 |->
                      IF j \in inputOffset .. inputOffset + n - 1
                        THEN Copied(c, j) ELSE inputs[c][j]]]
  BY <1>3 DEF Copy
<1>5. params.channels \in {2, 3} BY <1>1, ReadyParams
<1>6. /\ areas.first \in 0 .. taken /\ areas.offset \in Nat
      /\ areas.step \in Nat \ {0} /\ areas.step >= params.channels
      /\ addr \in Nat /\ addr = (areas.offset + taken - areas.first) * areas.step
  BY <1>3 DEF AddrOK, TypeOK
<1>7. ASSUME NEW c \in Inputs, NEW j \in inputOffset .. inputOffset + n - 1
      PROVE  Copied(c, j) = <<session, taken - inputOffset + j,
                              IF c = 2 /\ ~HasLFE THEN Mix ELSE c>>
  <2> DEFINE q == areas.offset + taken - areas.first + (j - inputOffset)
             frame == addr + (j - inputOffset) * areas.step
  <2>1. q \in Int /\ j \in Int BY <1>1, <1>2, <1>6
  <2>2. frame = areas.step * q
    <3>1. areas.offset + taken - areas.first \in Int BY <1>1, <1>6
    <3>2. j - inputOffset \in Int BY <1>1, <2>1
    <3>3. \A x, y, m \in Int : x * m + y * m = m * (x + y) OBVIOUS
    <3>4. areas.step \in Int BY <1>6
    <3> QED BY <1>6, <3>1, <3>2, <3>3, <3>4
  <2>3. areas.first + q - areas.offset = taken - inputOffset + j BY <1>1, <1>6, <2>1
  <2> HIDE DEF q
  <2>4. CASE c = 2 /\ ~HasLFE
    <3>1. frame = areas.step * q + 0 BY <1>6, <2>1, <2>2
    <3>2. 0 \in 0 .. areas.step - 1 BY <1>6
    <3>3. Memory(frame) = <<session, taken - inputOffset + j, 0>>
      BY <1>6, <2>1, <2>3, <3>1, <3>2, SampleAt
    <3> QED BY <2>4, <3>3 DEF Copied
  <2>5. CASE ~(c = 2 /\ ~HasLFE)
    <3>1. c \in 0 .. areas.step - 1 BY <1>5, <1>6, <2>5 DEF HasLFE, Inputs
    <3>2. Memory(areas.step * q + c) = <<session, taken - inputOffset + j, c>>
      BY <1>6, <2>1, <2>3, <3>1, SampleAt
    <3> QED BY <2>2, <2>5, <3>2 DEF Copied
  <2> QED BY <2>4, <2>5
<1>8. TypeOK'
  <2>1. ASSUME NEW c \in Inputs, NEW j \in 0 .. BlockSize - 1
        PROVE  inputs'[c][j] \in Samples
    <3>1. CASE j \in inputOffset .. inputOffset + n - 1
      <4>1. inputs'[c][j] = <<session, taken - inputOffset + j,
                              IF c = 2 /\ ~HasLFE THEN Mix ELSE c>>
        BY <1>4, <1>7, <3>1
      <4>2. taken >= inputOffset
        <5>1. taken = Advanced * BlockSize + inputOffset BY DEF FramesAccounted
        <5>2. Advanced \in Nat BY <1>3 DEF Advanced, Filtered, TypeOK
        <5>3. Advanced * BlockSize \in Nat BY <5>2
        <5> QED BY <1>1, <5>1, <5>3
      <4>3. taken - inputOffset + j \in 0 .. MaxFrames BY <1>1, <1>2, <3>1, <4>2
      <4>4. session \in 0 .. 2 BY DEF TypeOK
      <4>5. (IF c = 2 /\ ~HasLFE THEN Mix ELSE c) \in 0 .. Mix BY DEF Inputs, Mix
      <4> QED BY <4>1, <4>3, <4>4, <4>5 DEF Samples
    <3>2. CASE j \notin inputOffset .. inputOffset + n - 1
      <4>1. inputs'[c][j] = inputs[c][j] BY <1>4, <3>2
      <4> QED BY <4>1 DEF TypeOK
    <3> QED BY <3>1, <3>2
  <2>2. n * areas.step \in Nat BY <1>2, <1>6
  <2>3. addr' \in Nat BY <1>3, <1>6, <2>2
  <2>4. inputOffset' \in 0 .. BlockSize /\ todo' \in 0 .. MaxTransfer /\ taken' \in 0 .. MaxFrames
    BY <1>1, <1>2, <1>4 DEF TypeOK
  <2> QED BY <1>4, <2>1, <2>3, <2>4 DEF TypeOK
<1>9. WhereOK'
  <2>1. pc' \in {"filter", "copy"} BY <1>4
  <2>2. pc' = "copy" => inputOffset' < BlockSize BY <1>1, <1>2, <1>4
  <2>3. pc' = "filter" => inputOffset' = BlockSize BY <1>1, <1>2, <1>4
  <2>4. taken' + todo' = taken + todo BY <1>1, <1>2, <1>4
  <2>5. Ready' => device' /\ params' \in Params BY <1>4 DEF WhereOK, Ready
  <2> QED BY <1>1, <1>4, <2>1, <2>2, <2>3, <2>4, <2>5 DEF WhereOK
<1>10. FramesAccounted'
  <2>1. Advanced' = Advanced BY <1>3, <1>4 DEF Advanced, Filtered
  <2>2. Advanced * BlockSize \in Int BY DEF Advanced, Filtered, TypeOK
  <2> QED BY <1>1, <1>2, <1>4, <2>1, <2>2 DEF FramesAccounted
<1>11. DeviceSound' BY <1>4 DEF DeviceSound
<1>12. AddrOK'
  <2>1. \A x, y, m \in Int : x * m + y * m = (x + y) * m OBVIOUS
  <2>2. areas.offset + taken - areas.first \in Int BY <1>1, <1>6
  <2>3. addr' = (areas.offset + taken - areas.first + n) * areas.step
    BY <1>2, <1>3, <1>6, <2>1, <2>2
  <2>4. areas.offset + taken - areas.first + n = areas.offset + taken' - areas.first
    <3>1. taken' = taken + n /\ areas.first \in Int /\ areas.offset \in Int
      BY <1>1, <1>4, <1>6
    <3> QED BY <1>1, <1>2, <3>1
  <2>5. areas.first \in 0 .. taken' BY <1>1, <1>2, <1>4, <1>6
  <2> QED BY <1>4, <1>6, <2>3, <2>4, <2>5 DEF AddrOK
<1>13. Filled'
  <2>1. SUFFICES ASSUME NEW c \in Inputs, NEW j \in 0 .. BlockSize - 1, j < inputOffset + n
                 PROVE  inputs'[c][j] = <<session, taken - inputOffset + j,
                                          IF c = 2 /\ ~HasLFE THEN Mix ELSE c>>
    <3>1. taken' - inputOffset' = taken - inputOffset BY <1>1, <1>2, <1>4
    <3> QED BY <1>4, <3>1 DEF Filled, HasLFE
  <2>2. CASE j < inputOffset
    <3>1. inputs'[c][j] = inputs[c][j] BY <1>1, <1>4, <2>2
    <3> QED BY <1>1, <2>2, <3>1 DEF Filled
  <2>3. CASE ~(j < inputOffset)
    <3>1. j \in inputOffset .. inputOffset + n - 1 BY <1>1, <1>2, <2>1, <2>3
    <3> QED BY <1>4, <1>7, <3>1
  <2> QED BY <2>2, <2>3
<1>14. MapOK' BY <1>4 DEF MapOK, Positions
<1>15. WrittenOK' BY <1>4 DEF WrittenOK
<1> QED BY <1>8, <1>9, <1>10, <1>11, <1>12, <1>13, <1>14, <1>15

(* An index of outputBuffer_ is a frame of the block and a channel. *)
LEMMA BufferIndex ==
  ASSUME NEW k \in 0 .. BlockSize * NumOutputChannels - 1
  PROVE  k % NumOutputChannels \in 0 .. 7 /\ k \div NumOutputChannels \in 0 .. BlockSize - 1
BY PluginAssumption DEF NumOutputChannels

(* An output of the crossover is made from a sample of its input buffers. *)
LEMMA OutputType ==
  ASSUME PluginInv, NEW f \in Filters, NEW k \in 0 .. BlockSize - 1
  PROVE  Output(f, k) \in Filters \X Samples
<1>1. InputOf[f] \in Inputs BY DEF InputOf, Filters, Inputs
<1>2. inputs[InputOf[f]][k] \in Samples BY <1>1 DEF PluginInv, TypeOK
<1> QED BY <1>2 DEF Output

(* updateInputs and loadInterleaved keep it. *)
LEMMA FilterStep == PluginInv /\ FilterBlock => PluginInv'
<1> SUFFICES ASSUME PluginInv, FilterBlock PROVE PluginInv' OBVIOUS
<1> USE PluginAssumption DEF PluginInv, FilterBlock, setup, buffers, source, counts, history
<1>0. /\ DOMAIN outputBuffer = 0 .. BlockSize * NumOutputChannels - 1
      /\ channelMap \in [0 .. 7 -> Filters]
  BY DEF WrittenOK, TypeOK
<1>1. TypeOK'
  <2>1. ASSUME NEW k \in 0 .. BlockSize * NumOutputChannels - 1
        PROVE  outputBuffer'[k] \in Filters \X Samples
    <3>1. outputBuffer'[k] = Output(channelMap[k % NumOutputChannels], k \div NumOutputChannels)
      BY <1>0
    <3>2. channelMap[k % NumOutputChannels] \in Filters BY <1>0, BufferIndex
    <3> QED BY <3>1, <3>2, BufferIndex, OutputType
  <2> QED BY <2>1 DEF TypeOK
<1>2. WhereOK' BY DEF WhereOK, Ready, Filtered
<1>3. FramesAccounted' BY DEF FramesAccounted, Advanced, Filtered
<1>4. DeviceSound' BY DEF DeviceSound, WhereOK, Ready
<1>5. AddrOK' BY DEF AddrOK
<1>6. Filled' BY DEF Filled, HasLFE
<1>7. MapOK' BY DEF MapOK, Positions
<1>8. WrittenOK' BY <1>0 DEF WrittenOK, Output
<1> QED BY <1>1, <1>2, <1>3, <1>4, <1>5, <1>6, <1>7, <1>8

(* writePcm keeps it, also when the slave does not take the block. *)
LEMMA WriteStep == PluginInv /\ WriteBlock => PluginInv'
<1> SUFFICES ASSUME PluginInv, WriteBlock PROVE PluginInv' OBVIOUS
<1> USE PluginAssumption DEF PluginInv, WriteBlock, setup, buffers, source, counts, history
<1>1. delivered \in Nat /\ lost \in Nat /\ taken \in 0 .. MaxFrames BY DEF TypeOK
<1>2. Filtered \in Nat /\ Filtered' = Filtered + 1 BY <1>1 DEF Filtered
<1>3. Filtered + 1 <= MaxFrames
  <2>1. taken = Filtered * BlockSize + BlockSize BY DEF FramesAccounted, Advanced, WhereOK
  <2>2. \A x \in Nat, m \in Nat \ {0} : x * m + m >= x + 1
    <3>1. SUFFICES ASSUME NEW x \in Nat, NEW m \in Nat \ {0} PROVE x * m + m >= x + 1
      OBVIOUS
    <3>2. x * (m - 1) >= 0 OBVIOUS
    <3>3. x * (m - 1) = x * m - x OBVIOUS
    <3>4. x * m \in Int OBVIOUS
    <3> QED BY <3>2, <3>3, <3>4
  <2>3. Filtered * BlockSize + BlockSize >= Filtered + 1 BY <1>2, <2>2
  <2> QED BY <1>1, <1>2, <2>1, <2>3
<1>4. delivered' \in 0 .. MaxFrames /\ lost' \in 0 .. MaxFrames
  BY <1>1, <1>3 DEF Filtered
<1>5. TypeOK' BY <1>4 DEF TypeOK
<1>6. WhereOK' BY <1>2 DEF WhereOK, Ready
<1>7. FramesAccounted' BY <1>2 DEF FramesAccounted, Advanced
<1>8. DeviceSound' BY DEF DeviceSound
<1>9. AddrOK' BY DEF AddrOK
<1>10. Filled' BY DEF Filled, HasLFE
<1>11. MapOK' BY DEF MapOK, Positions
<1>12. WrittenOK' BY DEF WrittenOK
<1> QED BY <1>5, <1>6, <1>7, <1>8, <1>9, <1>10, <1>11, <1>12

(* The end of a block keeps it: streamPos_ still counts the blocks. *)
LEMMA AdvanceStep == PluginInv /\ Advance => PluginInv'
<1> SUFFICES ASSUME PluginInv, Advance PROVE PluginInv' OBVIOUS
<1> USE PluginAssumption DEF PluginInv, Advance, setup, buffers, source, history
<1>1. delivered \in Nat /\ lost \in Nat /\ taken \in Nat /\ BlockSize \in Nat BY DEF TypeOK
<1>2. Filtered > 0 /\ inputOffset = BlockSize /\ Filtered \in Nat
  BY <1>1 DEF WhereOK, Filtered
<1>3. Advanced \in Nat /\ Advanced' = Advanced + 1
  BY <1>2 DEF Advanced, Filtered
<1>4. Advanced * BlockSize \in Nat BY <1>1, <1>3
<1>5. Advanced * BlockSize + BlockSize = Advanced' * BlockSize
  <2>1. \A x, m \in Int : x * m + m = (x + 1) * m OBVIOUS
  <2> QED BY <1>1, <1>3, <2>1
<1>6. streamPos' = (Advanced' * BlockSize) % Modulus
  <2>1. streamPos' = (((Advanced * BlockSize) % Modulus) + BlockSize) % Modulus
    BY DEF FramesAccounted
  <2> QED BY <1>1, <1>4, <1>5, <2>1, ModuloSum
<1>7. TypeOK'
  <2>1. Advanced' * BlockSize \in Int BY <1>1, <1>4, <1>5
  <2>2. streamPos' \in 0 .. Modulus - 1 BY <1>6, <2>1, Division
  <2> QED BY <2>2 DEF TypeOK
<1>8. WhereOK' BY DEF WhereOK, Ready
<1>9. FramesAccounted'
  <2>1. taken = Advanced * BlockSize + inputOffset BY DEF FramesAccounted
  <2>2. taken' = Advanced' * BlockSize + inputOffset' BY <1>1, <1>2, <1>4, <1>5, <2>1
  <2> QED BY <1>6, <2>2 DEF FramesAccounted
<1>10. DeviceSound' BY DEF DeviceSound
<1>11. AddrOK' BY DEF AddrOK
<1>12. Filled' BY DEF Filled
<1>13. MapOK' BY DEF MapOK, Positions
<1>14. WrittenOK' BY DEF WrittenOK
<1> QED BY <1>7, <1>8, <1>9, <1>10, <1>11, <1>12, <1>13, <1>14

--------------------------------------------------------------------------------
(* The theorems. *)

(* The inductive invariant: what the block, the buffers, the channel map
   and the counters have to do with the frames the application has given. *)
THEOREM InvCorrect == Spec => []PluginInv
<1>1. PluginInv /\ [Next]_vars => PluginInv'
  <2> SUFFICES ASSUME PluginInv, [Next]_vars PROVE PluginInv' OBVIOUS
  <2>1. CASE UNCHANGED vars BY <2>1, StutterStep
  <2>2. CASE KeepDevice BY <2>2, KeepDeviceStep
  <2>3. CASE OpenDevice BY <2>3, OpenDeviceStep
  <2>4. CASE OpenFails \/ ParamsFail BY <2>4, OpenFailsStep
  <2>5. CASE Prepare BY <2>5, PrepareStep
  <2>6. CASE Close BY <2>6, CloseStep
  <2>7. ASSUME NEW size \in 0 .. MaxTransfer, Transfer(size) PROVE PluginInv'
    BY <2>7, TransferStep
  <2>8. CASE CopySegment BY <2>8, CopyStep
  <2>9. CASE TransferDone BY <2>9, TransferDoneStep
  <2>10. CASE FilterBlock BY <2>10, FilterStep
  <2>11. CASE WriteBlock BY <2>11, WriteStep
  <2>12. CASE Advance BY <2>12, AdvanceStep
  <2>13. CASE Closed BY <2>13, StutterStep DEF Closed
  <2> QED BY <2>1, <2>2, <2>3, <2>4, <2>5, <2>6, <2>7, <2>8, <2>9, <2>10, <2>11, <2>12,
            <2>13 DEF Next
<1> QED BY <1>1, InitCorrect, PTL DEF Spec

(* Every variable has its type. *)
THEOREM TypeCorrect == Spec => []TypeOK
<1>1. PluginInv => TypeOK BY DEF PluginInv
<1> QED BY <1>1, InvCorrect, PTL

(* Every frame of the session is in a filtered block or in the one that
   is being collected, for every block size, transfer size and wrap. *)
THEOREM FramesCorrect == Spec => []FramesAccounted
<1>1. PluginInv => FramesAccounted BY DEF PluginInv
<1> QED BY <1>1, InvCorrect, PTL

(* A block is only written to an open device, and no handle of the slave
   is forgotten when opening fails, when hw_params comes again, on close. *)
THEOREM DeviceCorrect == Spec => []DeviceSound
<1>1. PluginInv => DeviceSound BY DEF PluginInv
<1> QED BY <1>1, InvCorrect, PTL

(* What the input buffers hold when a block is filtered and written. *)
LEMMA WholeBlock ==
  ASSUME PluginInv, pc \in {"filter", "write"}, NEW c \in Inputs, NEW j \in 0 .. BlockSize - 1
  PROVE  inputs[c][j] = <<session, Filtered * BlockSize + j,
                          IF c = 2 /\ ~HasLFE THEN Mix ELSE c>>
<1> USE DEF PluginInv
<1>1. io = "prepared" /\ inputOffset = BlockSize BY DEF WhereOK
<1>2. delivered \in Nat /\ lost \in Nat /\ taken \in Nat BY DEF TypeOK
<1>3. Filtered * BlockSize \in Int BY <1>2, PluginAssumption DEF Filtered
<1>4. taken = Filtered * BlockSize + inputOffset BY DEF FramesAccounted, Advanced
<1>5. j < inputOffset BY <1>1, PluginAssumption
<1>6. taken - inputOffset + j = Filtered * BlockSize + j
  BY <1>1, <1>3, <1>4, PluginAssumption
<1> QED BY <1>1, <1>5, <1>6 DEF Filled

(* A filtered block holds consecutive frames of this session, in all
   channels, however the application cuts and lays out its transfers. *)
THEOREM BlocksCorrect == Spec => []BlocksInOrder
<1>1. PluginInv => BlocksInOrder
  <2> SUFFICES ASSUME PluginInv, pc \in {"filter", "write"},
                      NEW c \in Inputs, NEW j \in 0 .. BlockSize - 1
               PROVE  /\ inputs[c][j] \in {<<session, Filtered * BlockSize + j, c>>,
                                           <<session, Filtered * BlockSize + j, Mix>>}
                      /\ inputs[c][j][3] = Mix => c = 2
    BY DEF BlocksInOrder
  <2> DEFINE frame == Filtered * BlockSize + j
  <2>1. inputs[c][j] = <<session, frame, IF c = 2 /\ ~HasLFE THEN Mix ELSE c>>
    BY WholeBlock
  <2> HIDE DEF frame
  <2>2. inputs[c][j] = <<session, frame, c>> \/ (inputs[c][j] = <<session, frame, Mix>> /\ c = 2)
    BY <2>1
  <2>3. c # Mix BY DEF Inputs, Mix
  <2>4. inputs[c][j] = <<session, frame, c>> => inputs[c][j][3] = c OBVIOUS
  <2> QED BY <2>2, <2>3, <2>4 DEF frame
<1> QED BY <1>1, InvCorrect, PTL

(* dxo_pointer follows the blocks without a jump where streamPos_ wraps,
   if half the buffer size divides the modulus. *)
THEOREM PointerCorrect == Spec => []PointerFollows
<1>1. PluginInv => PointerFollows
  <2> DEFINE half == params.buffer \div 2
  <2> SUFFICES ASSUME PluginInv, io = "prepared", Modulus % half = 0
               PROVE  Pointer = (Advanced * BlockSize) % half
    BY DEF PointerFollows
  <2>1. half \in Nat \ {0} BY ReadyParams
  <2>2. Advanced * BlockSize \in Nat
    <3>1. Advanced \in Nat
      BY DEF PluginInv, Advanced, Filtered, WhereOK, TypeOK
    <3> QED BY <3>1, PluginAssumption
  <2>3. streamPos = (Advanced * BlockSize) % Modulus BY DEF PluginInv, FramesAccounted
  <2>4. Pointer = streamPos % half BY DEF Pointer
  <2> HIDE DEF half
  <2> QED BY <2>1, <2>2, <2>3, <2>4, ModuloDivisor, PluginAssumption
<1> QED BY <1>1, InvCorrect, PTL

(* No two speakers share a filter. *)
LEMMA OwnFilter ==
  ASSUME NEW s \in Speakers, NEW t \in PositionNames, MapAlsaChannel[s] = MapAlsaChannel[t],
         t \in Speakers
  PROVE  s = t
BY DEF Speakers, PositionNames, MapAlsaChannel

(* The filter of a speaker is on the input of its side. *)
LEMMA SpeakerInput ==
  ASSUME NEW s \in Speakers
  PROVE  /\ MapAlsaChannel[s] \in Filters
         /\ InputOf[MapAlsaChannel[s]] =
              IF Side(s) = "FL" THEN 0 ELSE IF Side(s) = "FR" THEN 1 ELSE 2
         /\ Side(s) \in {"FL", "FR", "LFE"}
BY DEF Speakers, PositionNames, MapAlsaChannel, InputOf, Filters, Side

(* Each speaker gets its own filter, made from its own frame and from the
   application's channel of its side, for every channel map of a slave. *)
THEOREM SpeakersCorrect == Spec => []SpeakersRight
<1>1. PluginInv => SpeakersRight
  <2> DEFINE from(p) == {c \in DOMAIN GetChmap : GetChmap[c] = Side(Positions[p])}
             written(k, p) == outputBuffer[k * NumOutputChannels + p - 1]
  <2> SUFFICES ASSUME PluginInv, pc = "write", slave.channels = 8,
                      NEW k \in 0 .. BlockSize - 1, NEW p \in DOMAIN Positions,
                      Positions[p] \in Speakers
               PROVE  /\ written(k, p)[2][1] = session
                      /\ written(k, p)[2][2] = Filtered * BlockSize + k
                      /\ written(k, p)[2][3] \in IF from(p) = {} THEN {Mix}
                                                 ELSE {c - 1 : c \in from(p)}
                      /\ \A q \in DOMAIN Positions \ {p} :
                            written(k, p)[1] = written(k, q)[1] => Positions[q] \notin Speakers
    BY DEF SpeakersRight
  <2>1. device /\ slave \in Slaves /\ io = "prepared"
    BY DEF PluginInv, DeviceSound, MapOK, WhereOK
  <2>2. /\ DOMAIN Positions = 1 .. 8 /\ \A q \in 1 .. 8 : Positions[q] \in PositionNames
        /\ \A q, r \in 1 .. 8 : Positions[q] = Positions[r] => q = r
    <3>1. CASE slave.map = <<>>
      <4>1. Positions = <<"FL", "FR", "RL", "RR", "FC", "LFE", "SL", "SR">>
        BY <3>1 DEF Positions
      <4> QED BY <4>1 DEF PositionNames
    <3>2. CASE slave.map # <<>>
      <4>1. Positions = slave.map BY <3>2 DEF Positions
      <4>2. slave.map \in Seq(PositionNames) /\ Len(slave.map) = 8
        BY <2>1, <3>2, PluginAssumption
      <4>3. \A q, r \in 1 .. 8 : slave.map[q] = slave.map[r] => q = r
        BY <2>1, <3>2, PluginAssumption
      <4> QED BY <4>1, <4>2, <4>3
    <3> QED BY <3>1, <3>2
  <2>3. ASSUME NEW q \in 1 .. 8
        PROVE  written(k, q) = Output(MapAlsaChannel[Positions[q]], k)
    <3> DEFINE i == k * NumOutputChannels + q - 1
    <3>1. i \in 0 .. BlockSize * NumOutputChannels - 1
      BY PluginAssumption DEF NumOutputChannels
    <3>2. i % NumOutputChannels = q - 1 /\ i \div NumOutputChannels = k
      BY PluginAssumption DEF NumOutputChannels
    <3>3. channelMap[q - 1] = MapAlsaChannel[Positions[q]] BY <2>1 DEF PluginInv, MapOK
    <3> QED BY <3>1, <3>2, <3>3 DEF PluginInv, WrittenOK
  <2> DEFINE f == MapAlsaChannel[Positions[p]]
             c == InputOf[f]
  <2>4. f \in Filters /\ c \in Inputs BY SpeakerInput DEF Inputs
  <2>5. written(k, p)[2] = <<session, Filtered * BlockSize + k,
                             IF c = 2 /\ ~HasLFE THEN Mix ELSE c>>
    BY <2>2, <2>3, <2>4, WholeBlock DEF Output
  <2>6. (IF c = 2 /\ ~HasLFE THEN Mix ELSE c) \in IF from(p) = {} THEN {Mix}
                                                 ELSE {d - 1 : d \in from(p)}
    <3>1. params.channels \in {2, 3} BY <2>1, ReadyParams
    <3>2. CASE Side(Positions[p]) = "FL"
      <4>1. c = 0 BY <3>2, SpeakerInput
      <4>2. 1 \in from(p) BY <3>1, <3>2 DEF GetChmap
      <4>3. c = 1 - 1 BY <4>1
      <4> HIDE DEF c, from
      <4> QED BY <4>1, <4>2, <4>3
    <3>3. CASE Side(Positions[p]) = "FR"
      <4>1. c = 1 BY <3>3, SpeakerInput
      <4>2. 2 \in from(p) BY <3>1, <3>3 DEF GetChmap
      <4>3. c = 2 - 1 BY <4>1
      <4> HIDE DEF c, from
      <4> QED BY <4>1, <4>2, <4>3
    <3>4. CASE Side(Positions[p]) = "LFE"
      <4>1. c = 2 BY <3>4, SpeakerInput
      <4>2. CASE params.channels = 2
        <5>1. from(p) = {} BY <3>4, <4>2 DEF GetChmap
        <5> QED BY <4>1, <4>2, <5>1 DEF HasLFE
      <4>3. CASE params.channels = 3
        <5>1. 3 \in from(p) BY <3>4, <4>3 DEF GetChmap
        <5>2. c = 3 - 1 BY <4>1
        <5> HIDE DEF c, from
        <5> QED BY <4>1, <4>3, <5>1, <5>2 DEF HasLFE
      <4> QED BY <3>1, <4>2, <4>3
    <3> QED BY <3>2, <3>3, <3>4, SpeakerInput
  <2>7. ASSUME NEW q \in DOMAIN Positions \ {p}, written(k, p)[1] = written(k, q)[1]
        PROVE  Positions[q] \notin Speakers
    <3>1. MapAlsaChannel[Positions[p]] = MapAlsaChannel[Positions[q]]
      BY <2>2, <2>3, <2>7 DEF Output
    <3> QED BY <2>2, <3>1, OwnFilter
  <2> QED BY <2>5, <2>6, <2>7
<1> QED BY <1>1, InvCorrect, PTL
================================================================================
