------------------------------ MODULE AlsaPlugin -------------------------------
(***************************************************************************)
(* AlsaPluginDxO (src/alsa_plugin.h, src/alsa_plugin.cpp): the callbacks   *)
(* of the ALSA ioplug.  Frames come in transfers of any size, are          *)
(* collected to blocks, filtered, and written to a slave device that may   *)
(* fail to open, to take its parameters, or to take a block.  The loops    *)
(* over the memory of the application and over the output buffer are those *)
(* of src/pcm_stream.h.                                                    *)
(*                                                                         *)
(* A sample is <<session, frame, channel>>: frames are counted from each   *)
(* dxo_prepare.  The crossover is exact (see module Crossover), so a       *)
(* sample of an output is <<filter, the sample it was made from>>.         *)
(* alsa-lib is external: it calls transfer only after a successful         *)
(* hw_params and a prepare.                                                *)
(***************************************************************************)
EXTENDS Integers, Sequences, FiniteSetsExt

CONSTANTS
  BlockSize,    \* blockSize_
  Modulus,      \* streamPos_ counts modulo this (2^32 in the code)
  Params,       \* the channels and buffer sizes an application may choose
  Slaves,       \* external: the channels and channel maps a slave may have
  Layouts,      \* external: [offset, step] of a transfer's areas, see Transfer
  MaxTransfer,  \* bound: frames of one transfer
  MaxFrames     \* bound: frames of one session

(* The positions of alsa-lib that the table has an entry for.               *)
PositionNames == {"UNKNOWN", "NA", "MONO", "FL", "FR", "RL", "RR", "FC", "LFE", "SL",
                  "SR", "RC", "FLC", "FRC", "RLC", "RRC", "FLW", "FRW", "FLH", "FCH"}

(* The filter that a position of the slave's channel map gets. *)
MapAlsaChannel ==
  [p \in PositionNames |->
     CASE p = "RL"                   -> 1
       [] p \in {"SL", "FLC", "RLC"} -> 2
       [] p = "FR"                   -> 3
       [] p = "RR"                   -> 4
       [] p \in {"SR", "FRC", "RRC"} -> 5
       [] p = "LFE"                  -> 6
       [] OTHER                      -> 0]

ASSUME PluginAssumption ==
  /\ BlockSize \in Nat \ {0} /\ Modulus \in Nat \ {0}
  /\ Params \subseteq [channels : {2, 3}, buffer : Nat \ {0, 1}]
  /\ Layouts \subseteq [offset : Nat, extra : Nat]
  /\ Slaves \subseteq [channels : Nat, map : Seq(PositionNames)]
  /\ \A s \in Slaves : s.channels = 8 /\ s.map # <<>> =>
       Len(s.map) = 8 /\ \A p, q \in 1 .. 8 : s.map[p] = s.map[q] => p = q
  /\ MaxTransfer \in Nat /\ MaxFrames \in Nat

VARIABLES
  io,           \* what alsa-lib may call: "open", "setup", "prepared", "closed"
  pc,           \* where dxo_transfer is
  params,       \* channels and buffer_size of the ioplug
  device,       \* pcm_output_device_ is not null
  handles,      \* external: open handles of the slave device
  slave,        \* external: the slave as it was opened
  channelMap,   \* channelMap_
  inputs,       \* the input buffers of the crossover
  inputOffset,  \* inputOffset_
  streamPos,    \* streamPos_
  outputBuffer, \* outputBuffer_
  todo,         \* frames of the transfer still to copy
  addr,         \* addr_ of the PcmStream the transfer is read from
  areas,        \* external: what the transfer's memory holds
  session,      \* history: number of the session, 0 before dxo_prepare
  taken,        \* history: frames of this session copied
  delivered,    \* history: blocks of this session the slave has taken
  lost          \* history: blocks of this session the slave has not taken

setup   == <<params, device, handles, slave, channelMap>>
buffers == <<inputs, outputBuffer>>
source  == <<todo, addr, areas>>
counts  == <<inputOffset, streamPos>>
history == <<session, taken, delivered, lost>>
vars    == <<io, pc, setup, buffers, source, counts, history>>

NumOutputChannels == 8
Inputs  == 0 .. 2
Filters == 0 .. 6
Mix     == 3   \* the channel number of (left + right) / 2

(* The input each filter of the crossover is on. *)
InputOf == [f \in Filters |-> IF f <= 2 THEN 0 ELSE IF f <= 5 THEN 1 ELSE 2]

DefaultMap == <<"FL", "FR", "RL", "RR", "UNKNOWN", "LFE", "SL", "SR">>

InitialChannelMap == [p \in 0 .. 7 |-> MapAlsaChannel[DefaultMap[p + 1]]]

(* dxo_get_chmap: the positions of the application's channels. *)
GetChmap == IF params.channels = 2 THEN <<"FL", "FR">> ELSE <<"FL", "FR", "LFE">>

HasLFE == params.channels = 3

NoAreas == [first |-> 0, offset |-> 0, step |-> 1]

Init ==
  /\ io = "open"
  /\ pc = "idle"
  /\ params = [channels |-> 0, buffer |-> 0]
  /\ device = FALSE
  /\ handles = 0
  /\ slave = [channels |-> 0, map |-> <<>>]
  /\ channelMap = InitialChannelMap
  /\ inputs = [c \in Inputs |-> [j \in 0 .. BlockSize - 1 |-> <<0, 0, 0>>]]
  /\ outputBuffer = [k \in 0 .. BlockSize * NumOutputChannels - 1 |-> <<0, <<0, 0, 0>>>>]
  /\ inputOffset = 0
  /\ streamPos = 0
  /\ todo = 0
  /\ addr = 0
  /\ areas = NoAreas
  /\ session = 0
  /\ taken = 0
  /\ delivered = 0
  /\ lost = 0
--------------------------------------------------------------------------------
(* dxo_hw_params, and dxo_try_open_device if no device is open. *)
Negotiate ==
  /\ io \in {"open", "setup", "prepared"}
  /\ pc = "idle"
  /\ params' \in Params
  /\ UNCHANGED <<pc, buffers, source, counts, history>>

KeepDevice ==
  /\ device
  /\ Negotiate
  /\ io' = "setup"
  /\ UNCHANGED <<device, handles, slave, channelMap>>

(* The slave says how many channels it has granted (a refusal of eight is   *)
(* only logged) and, perhaps, where they are.                               *)
OpenDevice ==
  /\ ~device
  /\ Negotiate
  /\ io' = "setup"
  /\ device' = TRUE
  /\ handles' = handles + 1
  /\ slave' \in Slaves
  /\ channelMap' = [p \in 0 .. 7 |->
                      IF p < Len(slave'.map) THEN MapAlsaChannel[slave'.map[p + 1]]
                                             ELSE channelMap[p]]

(* snd_pcm_open fails: -EBUSY. *)
OpenFails ==
  /\ ~device
  /\ Negotiate
  /\ io' = "open"
  /\ UNCHANGED <<device, handles, slave, channelMap>>

(* Mutant: the device stays open when it does not take the parameters. *)
Mut_ParamsFailLeaks ==
  /\ ~device
  /\ Negotiate
  /\ io' = "open"
  /\ handles' = handles + 1
  /\ UNCHANGED <<device, slave, channelMap>>

(* snd_pcm_hw_params fails: the device is closed again, -EINVAL. *)
ParamsFail ==
  /\ ~device
  /\ Negotiate
  /\ io' = "open"
  /\ device' = FALSE
  /\ handles' = (handles + 1) - 1
  /\ UNCHANGED <<slave, channelMap>>

(* Mutant: dxo_prepare keeps the frames of the block it was collecting. *)
Mut_PrepareKeepsOffset ==
  /\ io \in {"setup", "prepared"}
  /\ pc = "idle"
  /\ streamPos' = 0
  /\ io' = "prepared"
  /\ session' = IF session = 1 THEN 2 ELSE 1
  /\ taken' = 0 /\ delivered' = 0 /\ lost' = 0
  /\ UNCHANGED <<pc, setup, buffers, inputOffset, source>>

Prepare ==
  /\ io \in {"setup", "prepared"}
  /\ pc = "idle"
  /\ streamPos' = 0
  /\ inputOffset' = 0
  /\ io' = "prepared"
  /\ session' = IF session = 1 THEN 2 ELSE 1
  /\ taken' = 0 /\ delivered' = 0 /\ lost' = 0
  /\ UNCHANGED <<pc, setup, buffers, source>>

Close ==
  /\ io # "closed"
  /\ pc = "idle"
  /\ io' = "closed"
  /\ device' = FALSE
  /\ handles' = IF device THEN handles - 1 ELSE handles
  /\ UNCHANGED <<pc, params, slave, channelMap, buffers, source, counts, history>>
--------------------------------------------------------------------------------
(* dxo_transfer: the areas of the application's memory are interleaved,     *)
(* with an offset in frames and perhaps more channels than the plugin uses. *)
Transfer(size) ==
  /\ io = "prepared"
  /\ pc = "idle"
  /\ taken + size <= MaxFrames
  /\ \E l \in Layouts :
        /\ areas' = [first |-> taken, offset |-> l.offset, step |-> params.channels + l.extra]
        /\ addr' = l.offset * (params.channels + l.extra)
  /\ todo' = size
  /\ pc' = "copy"
  /\ UNCHANGED <<io, setup, buffers, counts, history>>

(* External: the sample at an address of the areas. *)
Memory(a) ==
  <<session, areas.first + a \div areas.step - areas.offset, a % areas.step>>

(* What a channel's buffer gets at position j of a segment: the n-th sample *)
(* of the frame at addr_, or half the sum of left and right.                *)
Copied(c, j) ==
  LET frame == addr + (j - inputOffset) * areas.step
  IN  IF c = 2 /\ ~HasLFE
        THEN LET left == Memory(frame) IN <<left[1], left[2], Mix>>
        ELSE Memory(frame + c)

(* The loop body of update up to the block's end, for n frames. *)
Copy(n) ==
  /\ inputs' = [c \in Inputs |-> [j \in 0 .. BlockSize - 1 |->
                  IF j \in inputOffset .. inputOffset + n - 1
                    THEN Copied(c, j) ELSE inputs[c][j]]]
  /\ inputOffset' = inputOffset + n
  /\ todo' = todo - n
  /\ taken' = taken + n
  /\ pc' = IF inputOffset + n = BlockSize THEN "filter" ELSE "copy"
  /\ UNCHANGED <<io, setup, outputBuffer, streamPos, areas, session, delivered, lost>>

(* Mutant: a segment is not cut at the end of the block in progress. *)
Mut_CopyWholeBlock ==
  /\ pc = "copy"
  /\ todo > 0
  /\ LET n == Min({todo, BlockSize})
     IN  Copy(n) /\ addr' = addr + n * areas.step

(* Mutant: the next segment is read from the start of the areas again. *)
Mut_CopyFromStart ==
  /\ pc = "copy"
  /\ todo > 0
  /\ LET n == Min({todo, BlockSize - inputOffset})
     IN  Copy(n) /\ addr' = addr

(* A segment of update: extractInterleaved moves addr_ on. *)
CopySegment ==
  /\ pc = "copy"
  /\ todo > 0
  /\ LET n == Min({todo, BlockSize - inputOffset})
     IN  Copy(n) /\ addr' = addr + n * areas.step

TransferDone ==
  /\ pc = "copy"
  /\ todo = 0
  /\ pc' = "idle"
  /\ addr' = 0
  /\ areas' = NoAreas
  /\ UNCHANGED <<io, setup, buffers, todo, counts, history>>

(* Output f of the crossover at frame k of the block. *)
Output(f, k) == <<f, inputs[InputOf[f]][k]>>

(* Mutant: the outputs go to the buffer in the order of the filters. *)
Mut_FilterBlockUnmapped ==
  /\ pc = "filter"
  /\ outputBuffer' = [k \in DOMAIN outputBuffer |->
                        Output(Min({k % NumOutputChannels, 6}), k \div NumOutputChannels)]
  /\ pc' = "write"
  /\ UNCHANGED <<io, setup, inputs, source, counts, history>>

(* updateInputs, and loadInterleaved with a step of eight. *)
FilterBlock ==
  /\ pc = "filter"
  /\ outputBuffer' = [k \in DOMAIN outputBuffer |->
                        Output(channelMap[k % NumOutputChannels], k \div NumOutputChannels)]
  /\ pc' = "write"
  /\ UNCHANGED <<io, setup, inputs, source, counts, history>>

(* writePcm: the slave takes the block, or not, or only a part of it; then  *)
(* it is recovered and the rest of the block is dropped.                    *)
WriteBlock ==
  /\ pc = "write"
  /\ \/ delivered' = delivered + 1 /\ lost' = lost
     \/ delivered' = delivered /\ lost' = lost + 1
  /\ pc' = "advance"
  /\ UNCHANGED <<io, setup, buffers, source, counts, session, taken>>

(* Mutant: the position only advances by blocks the slave has taken. *)
Mut_AdvanceDelivered ==
  /\ pc = "advance"
  /\ streamPos' = (delivered * BlockSize) % Modulus
  /\ inputOffset' = 0
  /\ pc' = "copy"
  /\ UNCHANGED <<io, setup, buffers, source, history>>

(* Mutant: streamPos_ wraps one too early, at a value that is not 2^n. *)
Mut_AdvanceWrapsEarly ==
  /\ pc = "advance"
  /\ streamPos' = (streamPos + BlockSize) % (Modulus - 1)
  /\ inputOffset' = 0
  /\ pc' = "copy"
  /\ UNCHANGED <<io, setup, buffers, source, history>>

(* The position advances whether the slave has taken the block or not. *)
Advance ==
  /\ pc = "advance"
  /\ streamPos' = (streamPos + BlockSize) % Modulus
  /\ inputOffset' = 0
  /\ pc' = "copy"
  /\ UNCHANGED <<io, setup, buffers, source, history>>

Closed == io = "closed" /\ UNCHANGED vars

Next ==
  \/ KeepDevice \/ OpenDevice \/ OpenFails \/ ParamsFail
  \/ Prepare \/ Close
  \/ \E size \in 0 .. MaxTransfer : Transfer(size)
  \/ CopySegment \/ TransferDone \/ FilterBlock \/ WriteBlock \/ Advance
  \/ Closed

Spec == Init /\ [][Next]_vars

(* dxo_pointer *)
Pointer == streamPos % (params.buffer \div 2)
--------------------------------------------------------------------------------
(* Properties. *)

Samples == (0 .. 2) \X (0 .. MaxFrames) \X (0 .. Mix)

(* The type of every variable. *)
TypeOK ==
  /\ io \in {"open", "setup", "prepared", "closed"}
  /\ pc \in {"idle", "copy", "filter", "write", "advance"}
  /\ device \in BOOLEAN
  /\ handles \in Nat
  /\ channelMap \in [0 .. 7 -> Filters]
  /\ \A c \in Inputs : \A j \in 0 .. BlockSize - 1 : inputs[c][j] \in Samples
  /\ \A k \in 0 .. BlockSize * NumOutputChannels - 1 :
        outputBuffer[k] \in Filters \X Samples
  /\ inputOffset \in 0 .. BlockSize
  /\ streamPos \in 0 .. Modulus - 1
  /\ todo \in 0 .. MaxTransfer
  /\ addr \in Nat /\ areas.offset \in Nat /\ areas.step \in Nat \ {0}
  /\ session \in 0 .. 2
  /\ {taken, delivered, lost} \subseteq 0 .. MaxFrames

(* The blocks of this session that have been filtered, and those of them    *)
(* that streamPos_ counts.                                                  *)
Filtered == delivered + lost
Advanced == IF pc = "advance" THEN Filtered - 1 ELSE Filtered

(***************************************************************************)
(* A block that is filtered holds consecutive frames, starting where the   *)
(* block before ended, each in all its channels and from this session:     *)
(* nothing depends on how the application cuts and lays out its transfers, *)
(* and dxo_prepare leaves no old frame in the block.                       *)
(***************************************************************************)
BlocksInOrder ==
  pc \in {"filter", "write"} =>
    \A c \in Inputs : \A j \in 0 .. BlockSize - 1 :
       /\ inputs[c][j] \in {<<session, Filtered * BlockSize + j, c>>,
                            <<session, Filtered * BlockSize + j, Mix>>}
       /\ inputs[c][j][3] = Mix => c = 2

(***************************************************************************)
(* Every frame of the session is in a filtered block or in the block that  *)
(* is being collected: streamPos_ and inputOffset_ account for all of      *)
(* them, also when the slave drops blocks and when streamPos_ wraps.       *)
(***************************************************************************)
FramesAccounted ==
  /\ streamPos = (Advanced * BlockSize) % Modulus
  /\ taken = Advanced * BlockSize + inputOffset

(***************************************************************************)
(* The pointer that alsa-lib reads, also from another thread during a      *)
(* transfer, moves on by one block for each block, with no jump where      *)
(* streamPos_ wraps, if half the buffer size divides 2^32.                 *)
(***************************************************************************)
PointerFollows ==
  io = "prepared" /\ Modulus % (params.buffer \div 2) = 0 =>
    Pointer = (Advanced * BlockSize) % (params.buffer \div 2)

(* The positions of a slave with eight channels; without a channel map they *)
(* are in the order ALSA has for eight.                                     *)
Positions ==
  IF slave.map = <<>> THEN <<"FL", "FR", "RL", "RR", "FC", "LFE", "SL", "SR">> ELSE slave.map

(* The speakers the crossover has a filter for. *)
Speakers == {"FL", "RL", "SL", "FR", "RR", "SR", "LFE"}

(* The filters are low, middle and high of left and of right, and LFE; what *)
(* a speaker plays comes from the application's channel of its side.        *)
Side(position) ==
  CASE position \in {"FL", "RL", "SL"} -> "FL"
    [] position \in {"FR", "RR", "SR"} -> "FR"
    [] position = "LFE"                -> "LFE"

(***************************************************************************)
(* Each speaker gets its own filter, made from the frame it is written     *)
(* with and from the channel that dxo_get_chmap gives the application for  *)
(* its side, wherever the slave's channel map has put it; the subwoofer    *)
(* gets the mix if the application has no LFE.  Only for a slave that has  *)
(* granted eight channels, and for speakers the plugin knows.              *)
(***************************************************************************)
SpeakersRight ==
  pc = "write" /\ slave.channels = 8 =>
    \A k \in 0 .. BlockSize - 1, p \in DOMAIN Positions :
      Positions[p] \in Speakers =>
        LET written == outputBuffer[k * NumOutputChannels + p - 1]
            from    == {c \in DOMAIN GetChmap : GetChmap[c] = Side(Positions[p])}
        IN  /\ written[2][1] = session
            /\ written[2][2] = Filtered * BlockSize + k
            /\ written[2][3] \in IF from = {} THEN {Mix} ELSE {c - 1 : c \in from}
            /\ \A q \in DOMAIN Positions \ {p} :
                  written[1] = outputBuffer[k * NumOutputChannels + q - 1][1] =>
                    Positions[q] \notin Speakers

(***************************************************************************)
(* A block is only written to a device that is open, and no handle of the  *)
(* slave is ever forgotten: not when opening fails half way, not when      *)
(* hw_params is called again, not on close.                                *)
(***************************************************************************)
DeviceSound ==
  /\ pc = "write" => device
  /\ handles = IF device THEN 1 ELSE 0
  /\ io = "closed" => ~device
--------------------------------------------------------------------------------
(* The inductive invariant of the proofs in AlsaPluginProofs. *)

Ready == io \in {"setup", "prepared"}

(* Where the transfer is, and what is left of it. *)
WhereOK ==
  /\ pc # "idle" => io = "prepared"
  /\ pc \in {"idle", "copy"} => inputOffset < BlockSize
  /\ pc \in {"filter", "write", "advance"} => inputOffset = BlockSize
  /\ pc = "advance" => Filtered > 0
  /\ taken + todo <= MaxFrames
  /\ Ready => device /\ params \in Params

(* addr_ is the address of the next frame to take. *)
AddrOK ==
  pc # "idle" =>
    /\ areas.first \in 0 .. taken
    /\ areas.step >= params.channels
    /\ addr = (areas.offset + taken - areas.first) * areas.step

(* The block in progress holds the latest frames of the session. *)
Filled ==
  io = "prepared" =>
    \A c \in Inputs : \A j \in 0 .. BlockSize - 1 :
      j < inputOffset =>
        inputs[c][j] = <<session, taken - inputOffset + j,
                         IF c = 2 /\ ~HasLFE THEN Mix ELSE c>>

(* channelMap_ is the one of the slave. *)
MapOK ==
  /\ ~device /\ io # "closed" => channelMap = InitialChannelMap
  /\ device => slave \in Slaves
  /\ device /\ slave.channels = 8 =>
       \A p \in 1 .. 8 : channelMap[p - 1] = MapAlsaChannel[Positions[p]]

(* The output buffer holds the block in progress. *)
WrittenOK ==
  /\ DOMAIN outputBuffer = 0 .. BlockSize * NumOutputChannels - 1
  /\ pc = "write" =>
       \A k \in 0 .. BlockSize * NumOutputChannels - 1 :
         outputBuffer[k] = Output(channelMap[k % NumOutputChannels], k \div NumOutputChannels)

(***************************************************************************)
(* What the theorems rest on: how the transfer's position in the areas,    *)
(* the block in progress, the channel map and the written block relate to  *)
(* the frames taken.                                                       *)
(***************************************************************************)
PluginInv ==
  /\ TypeOK /\ WhereOK /\ FramesAccounted /\ DeviceSound
  /\ AddrOK /\ Filled /\ MapOK /\ WrittenOK
================================================================================
