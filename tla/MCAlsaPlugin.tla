---------------------------- MODULE MCAlsaPlugin -------------------------------
(***************************************************************************)
(* Blocks of three frames and transfers of up to seven, so that a transfer *)
(* may end inside a block, fill one or fill several.  streamPos_ wraps at  *)
(* 16 and a session has up to 25 frames.  Half of the buffer size of 8     *)
(* divides 16, half of 10 does not.  The slaves have no channel map, one   *)
(* in another order, the one of a sound card with front and rear in pairs  *)
(* but side before centre, or six channels only.  Areas start at their     *)
(* first frame or later, and may have a channel the plugin does not read.  *)
(***************************************************************************)
EXTENDS AlsaPlugin

MCParams == { [channels |-> 2, buffer |-> 8], [channels |-> 3, buffer |-> 8],
              [channels |-> 3, buffer |-> 10] }

MCSlaves ==
  { [channels |-> 8, map |-> <<>>],
    [channels |-> 8, map |-> <<"SL", "LFE", "FR", "RL", "FC", "RR", "FL", "SR">>],
    [channels |-> 8, map |-> <<"FL", "FR", "RL", "RR", "SL", "SR", "FC", "LFE">>],
    [channels |-> 6, map |-> <<"FL", "FR", "RL", "RR", "FC", "LFE">>] }

MCLayouts == {[offset |-> 0, extra |-> 0], [offset |-> 2, extra |-> 1]}
================================================================================
