--------------------------------- MODULE S2K ---------------------------------
(***************************************************************************)
(* The iteration count of iterated-and-salted S2K and its one-byte         *)
(* encoding. Only the prototypes (src/src/lib/crypto/s2k.h) are in src:    *)
(* pgp_s2k_decode_iterations, pgp_s2k_encode_iterations and                *)
(* pgp_s2k_round_iterations are modelled from spec 3 and 4.4. A code c     *)
(* stands for (16 + c mod 16) * 2^(c div 16 + 6) iterations; encoding      *)
(* scans the codes upwards for the first one that reaches the request and  *)
(* then takes the nearer of it and the one below, the larger on a tie.     *)
(* Context uses it for the iteration byte of each pass info.               *)
(***************************************************************************)
EXTENDS Integers

(* s2k.h: the count rnp_encrypt_add_password asks for.                     *)
PGP_S2K_DEFAULT_ITERATIONS == 524288

IterationCodes == 0..255

pgp_s2k_decode_iterations(c) == (16 + (c % 16)) * 2^((c \div 16) + 6)

(* The first code whose count reaches n, 256 when none does: the least    *)
(* exponent whose largest count (mantissa 31) reaches n, then the least    *)
(* mantissa of that exponent that does.                                    *)
FirstCodeReaching(n) ==
  IF n > pgp_s2k_decode_iterations(255) THEN 256
  ELSE LET e == CHOOSE x \in 0..15 : 31 * 2^(x + 6) >= n /\ (x = 0 \/ 31 * 2^(x + 5) < n)
           unit == 2^(e + 6)
       IN 16 * e + (IF n <= 16 * unit THEN 0 ELSE (n + unit - 1) \div unit - 16)

pgp_s2k_encode_iterations(n) ==
  LET up == FirstCodeReaching(n)
  IN CASE up > 255 -> 255
       [] up > 0 /\ n - pgp_s2k_decode_iterations(up - 1) < pgp_s2k_decode_iterations(up) - n
             -> up - 1
       [] OTHER -> up

pgp_s2k_round_iterations(n) == pgp_s2k_decode_iterations(pgp_s2k_encode_iterations(n))

=============================================================================
