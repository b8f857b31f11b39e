---------------------------- MODULE SPPSignature ----------------------------
(***************************************************************************)
(* The rolling signature, bit by bit: the sign-magnitude code of a delta   *)
(* (spp_encode_sig_delta) and the shift, xor and mask that mix it in.      *)
(* This is what the constant NextSig of SPPParameters stands for.          *)
(***************************************************************************)
EXTENDS Integers, Bitwise

EncodeSigDelta(delta, delta_bits) ==
  IF delta < 0 THEN -delta + 2^(delta_bits - 1) ELSE delta

MixSig(sig, delta, sig_shift, sig_bits, delta_bits) ==
  ((sig * 2^sig_shift) ^^ EncodeSigDelta(delta, delta_bits)) % 2^sig_bits
=============================================================================
