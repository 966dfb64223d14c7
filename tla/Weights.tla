------------------------------ MODULE Weights -------------------------------
(***************************************************************************)
(* The way of the trained weights to the browser: the extraction tool      *)
(* reads edax's eval.dat (wasm/edax-eval/src/bin/extract_weights.rs) and   *)
(* encodes its plies 2..53 (weights_transform.rs::encode); the wasm module *)
(* decodes the blob it is given (weights_transform.rs::decode).            *)
(*                                                                         *)
(* A ply has N_W words of 16 bits (114364 in the program).  Arrays are     *)
(* functions from 0; compression is the identity on the blob.              *)
(***************************************************************************)
EXTENDS Integers, Sequences

CONSTANT N_W
ASSUME NWAssumption == N_W \in Nat \ {0, 1}

EVAL_N_PLY == 54
FIRST_PLY == 2
N_PLIES == 52

Wrap16(v) == ((v + 32768) % 65536) - 32768
LowByte(v) == v % 256
HighByte(v) == (v \div 256) % 256
FromBytes(low, high) == Wrap16(256 * high + low)

-----------------------------------------------------------------------------
(* eval.dat: two magic words, then blocks of N_W pairs of bytes, one block *)
(* per ply from ply 0.  complete: the file is long enough for the header.  *)
(* A program writes both in its own byte order.                            *)
Written(words, order, blocks) ==
  [complete |-> TRUE,
   magic |-> IF order = "little" THEN <<"EDAX", "EVAL">> ELSE <<"XADE", "LAVE">>,
   blocks |-> [ply \in 0..blocks - 1 |->
     [i \in 0..N_W - 1 |->
        LET v == words[ply][i]
        IN  IF order = "little" THEN <<LowByte(v), HighByte(v)>>
            ELSE <<HighByte(v), LowByte(v)>>]]]

parse_header(f) ==
  LET normal  == f.magic[1] = "EDAX" \/ f.magic[2] = "EVAL"
      swapped == f.magic[1] = "XADE" \/ f.magic[2] = "LAVE"
  IN  [ok |-> f.complete /\ (normal \/ swapped), byte_swapped |-> f.magic[1] = "XADE"]

(* The file holds every block the tool reads. *)
Extractable(f) == parse_header(f).ok /\ EVAL_N_PLY - 1 \in DOMAIN f.blocks

extract_raw_slice(f) ==
  [k \in 0..N_PLIES * N_W - 1 |->
    LET bytes == f.blocks[FIRST_PLY + k \div N_W][k % N_W]
    IN  IF parse_header(f).byte_swapped THEN FromBytes(bytes[2], bytes[1])
        ELSE FromBytes(bytes[1], bytes[2])]

-----------------------------------------------------------------------------
(* Weight by weight instead of ply by ply, each as its difference from the *)
(* ply before, all low bytes before all high bytes                         *)
encode(raw, n_w, n_plies) ==
  LET len == n_w * n_plies
      delta(i) == LET w == i \div n_plies  p == i % n_plies
                      v == raw[p * n_w + w]
                  IN  IF p = 0 THEN v ELSE Wrap16(v - raw[(p - 1) * n_w + w])
  IN  [i \in 0..2 * len - 1 |-> IF i < len THEN LowByte(delta(i)) ELSE HighByte(delta(i - len))]

decode(encoded, n_w, n_plies) ==
  LET len == n_w * n_plies
      delta(w, p) == FromBytes(encoded[w * n_plies + p], encoded[len + w * n_plies + p])
      series(w) ==
        LET x[p \in 0..n_plies - 1] == IF p = 0 THEN delta(w, p) ELSE Wrap16(x[p - 1] + delta(w, p))
        IN  x
      words == [w \in 0..n_w - 1 |-> series(w)]
  IN  [k \in 0..len - 1 |-> words[k % n_w][k \div n_w]]
=============================================================================
