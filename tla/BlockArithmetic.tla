---------------------------- MODULE BlockArithmetic ----------------------------
(***************************************************************************)
(* The loops of multiply, multiplyAdd and add (src/crossover/convolution.h *)
(* and the kernels of src/crossover/neon.h): in which order they go        *)
(* through the bins of a spectrum.  All three have the same two loops; a   *)
(* spectrum of 8 k + 1 bins takes the unrolled one.                        *)
(***************************************************************************)
EXTENDS Integers, Sequences

Unrolled(size) == size % 2 = 1 /\ (size - 1) % 8 = 0

(* Mutant: the bin after the groups of eight is left out. *)
Mut_NoLastBin(size) ==
  LET From[r \in 0 .. size + 7] ==
        IF r < size - 1 THEN [k \in 1 .. 8 |-> r + k - 1] \o From[r + 8] ELSE <<>>
  IN  From[0]

(* Eight bins at a time (two kernels of four on ARM), then the last one. *)
Groups(size) ==
  LET From[r \in 0 .. size + 7] ==
        IF r < size - 1 THEN [k \in 1 .. 8 |-> r + k - 1] \o From[r + 8] ELSE <<r>>
  IN  From[0]

OneByOne(size) == [k \in 1 .. size |-> k - 1]

(* The bins a call works on, in order. *)
Bins(size) == IF Unrolled(size) THEN Groups(size) ELSE OneByOne(size)
================================================================================
