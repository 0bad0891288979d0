---------------------------------- MODULE Aes ----------------------------------
(***************************************************************************)
(* AES-128 in CBC mode with a zero IV and PKCS7 padding, as                *)
(* src/pi/appmode/appmode_proto.py writes it out: a message is padded,     *)
(* encrypted block by block, decrypted block by block and unpadded, one    *)
(* round a step.  A block is 16 bytes, its columns one after the other.    *)
(***************************************************************************)
EXTENDS Integers, SequencesExt

CONSTANTS
  AesInputs    \* pairs [key, message] of byte sequences, keys of 16

VARIABLES
  aes,         \* what is being done: the phases of Phases below
  input,
  rks,         \* the round keys made so far, the first being the key
  data,        \* the padded message
  cipher,      \* the blocks encrypted
  plain,       \* the bytes decrypted
  block,       \* the block in the rounds
  round

aesVars == <<aes, input, rks, data, cipher, plain, block, round>>

Phases == {"expand", "encrypt", "decrypt", "done"}

-----------------------------------------------------------------------------
(***************************************************************************)
(* Bytes.  Exclusive or by nibbles, the table being computed once.         *)
(***************************************************************************)
Bit(n, i) == (n \div 2^i) % 2
NibbleXor == [a, b \in 0..15 |->
                LET differ(i) == IF Bit(a, i) # Bit(b, i) THEN 2^i ELSE 0
                IN  differ(0) + differ(1) + differ(2) + differ(3)]
Xor(a, b)    == 16 * NibbleXor[a \div 16, b \div 16] + NibbleXor[a % 16, b % 16]
XorSeq(s, t) == [i \in DOMAIN s |-> Xor(s[i], t[i])]

xtime(a) == IF a < 128 THEN 2 * a ELSE Xor((2 * a) % 256, 27)

\* _mul, for the factors of the two mixings.
Times(a, factor) ==
  LET two == xtime(a)  four == xtime(two)  eight == xtime(four)
  IN CASE factor = 1  -> a
       [] factor = 2  -> two
       [] factor = 3  -> Xor(two, a)
       [] factor = 9  -> Xor(eight, a)
       [] factor = 11 -> Xor(Xor(eight, two), a)
       [] factor = 13 -> Xor(Xor(eight, four), a)
       [] factor = 14 -> Xor(Xor(eight, four), two)

SBOX == <<
  99, 124, 119, 123, 242, 107, 111, 197, 48, 1, 103, 43, 254, 215, 171, 118,
  202, 130, 201, 125, 250, 89, 71, 240, 173, 212, 162, 175, 156, 164, 114, 192,
  183, 253, 147, 38, 54, 63, 247, 204, 52, 165, 229, 241, 113, 216, 49, 21,
  4, 199, 35, 195, 24, 150, 5, 154, 7, 18, 128, 226, 235, 39, 178, 117,
  9, 131, 44, 26, 27, 110, 90, 160, 82, 59, 214, 179, 41, 227, 47, 132,
  83, 209, 0, 237, 32, 252, 177, 91, 106, 203, 190, 57, 74, 76, 88, 207,
  208, 239, 170, 251, 67, 77, 51, 133, 69, 249, 2, 127, 80, 60, 159, 168,
  81, 163, 64, 143, 146, 157, 56, 245, 188, 182, 218, 33, 16, 255, 243, 210,
  205, 12, 19, 236, 95, 151, 68, 23, 196, 167, 126, 61, 100, 93, 25, 115,
  96, 129, 79, 220, 34, 42, 144, 136, 70, 238, 184, 20, 222, 94, 11, 219,
  224, 50, 58, 10, 73, 6, 36, 92, 194, 211, 172, 98, 145, 149, 228, 121,
  231, 200, 55, 109, 141, 213, 78, 169, 108, 86, 244, 234, 101, 122, 174, 8,
  186, 120, 37, 46, 28, 166, 180, 198, 232, 221, 116, 31, 75, 189, 139, 138,
  112, 62, 181, 102, 72, 3, 246, 14, 97, 53, 87, 185, 134, 193, 29, 158,
  225, 248, 152, 17, 105, 217, 142, 148, 155, 30, 135, 233, 206, 85, 40, 223,
  140, 161, 137, 13, 191, 230, 66, 104, 65, 153, 45, 15, 176, 84, 187, 22>>
SubByte    == [v \in 0..255 |-> SBOX[v + 1]]
INV_SBOX   == [v \in 0..255 |-> CHOOSE i \in 0..255 : SBOX[i + 1] = v]
RCON       == <<1, 2, 4, 8, 16, 32, 64, 128, 27, 54>>

-----------------------------------------------------------------------------
(***************************************************************************)
(* The parts of a round.  Cell(c, r) is row r of column c, both from 0.    *)
(***************************************************************************)
Cell(c, r) == 4 * c + r + 1
Column(i)  == (i - 1) \div 4
RowOf(i)   == (i - 1) % 4

sub_bytes(s, box) == [i \in 1..16 |-> box[s[i]]]

\* Mutant: a row is shifted the other way.
shift_rows_right(s) == [i \in 1..16 |-> s[Cell((Column(i) + 4 - RowOf(i)) % 4, RowOf(i))]]
shift_rows(s)     == [i \in 1..16 |-> s[Cell((Column(i) + RowOf(i)) % 4, RowOf(i))]]
inv_shift_rows(s) == [i \in 1..16 |-> s[Cell((Column(i) + 4 - RowOf(i)) % 4, RowOf(i))]]

\* A cell is its column's bytes times the factors, turned by its row.
Mixed(s, factors) ==
  [i \in 1..16 |->
     LET term(r) == Times(s[Cell(Column(i), r)], factors[1 + ((r + 4 - RowOf(i)) % 4)])
     IN  Xor(Xor(term(0), term(1)), Xor(term(2), term(3)))]
mix_columns(s)     == Mixed(s, <<2, 3, 1, 1>>)
inv_mix_columns(s) == Mixed(s, <<14, 11, 13, 9>>)

\* _key_expansion: the next round key from the last one, word by word.
NextRoundKey(rk, r) ==
  LET word(k, j)  == SubSeq(k, 4 * j + 1, 4 * j + 4)
      last        == word(rk, 3)
      turned      == [i \in 1..4 |-> SubByte[last[1 + (i % 4)]]]
      w0 == XorSeq(word(rk, 0), [turned EXCEPT ![1] = Xor(@, RCON[r])])
      w1 == XorSeq(word(rk, 1), w0)
      w2 == XorSeq(word(rk, 2), w1)
  IN  w0 \o w1 \o w2 \o XorSeq(word(rk, 3), w2)

EncryptRound(s, r) ==
  LET shifted == shift_rows(sub_bytes(s, SubByte))
  IN  XorSeq(IF r = 10 THEN shifted ELSE mix_columns(shifted), rks[r + 1])

\* Round r of decryption undoes round 10 - r + 1 of encryption but for its key.
DecryptRound(s, r) ==
  LET keyed == XorSeq(sub_bytes(inv_shift_rows(s), INV_SBOX), rks[11 - r])
  IN  IF r = 10 THEN keyed ELSE inv_mix_columns(keyed)

-----------------------------------------------------------------------------
(***************************************************************************)
(* Padding and chaining.                                                   *)
(***************************************************************************)
\* Mutant: a whole number of blocks is not padded.
PadOfRest(n) == (16 - (n % 16)) % 16
PadLength(n) == 16 - (n % 16)

pkcs7_pad(message) == message \o [i \in 1..PadLength(Len(message)) |-> PadLength(Len(message))]

\* What does not look padded is left as it is.
pkcs7_unpad(padded) ==
  LET p == Last(padded)
      n == Len(padded)
  IN IF n = 0 \/ n % 16 # 0 THEN padded
     ELSE IF p \in 1..16 /\ \A i \in n - p + 1..n : padded[i] = p
       THEN SubSeq(padded, 1, n - p) ELSE padded

ZeroIv        == [i \in 1..16 |-> 0]
BlockAt(s, k) == SubSeq(s, 16 * k + 1, 16 * k + 16)      \* k counts from 0
LastCipher(k) == IF k = 0 THEN ZeroIv ELSE cipher[k]

\* The next block of the phase enters its rounds, with the first round key added.
Chained(k)  == XorSeq(XorSeq(BlockAt(data, k), LastCipher(k)), rks[1])
Unlocked(k) == XorSeq(cipher[k + 1], rks[11])
BlocksIn(s) == Len(s) \div 16

-----------------------------------------------------------------------------
AesInit ==
  /\ aes = "expand" /\ input \in AesInputs
  /\ rks = <<input.key>> /\ data = pkcs7_pad(input.message)
  /\ cipher = <<>> /\ plain = <<>> /\ block = <<>> /\ round = 0

ExpandsKey ==
  /\ aes = "expand" /\ Len(rks) < 11
  /\ rks' = Append(rks, NextRoundKey(Last(rks), Len(rks)))
  /\ UNCHANGED <<aes, input, data, cipher, plain, block, round>>

StartsEncrypting ==
  /\ aes = "expand" /\ Len(rks) = 11
  /\ aes' = "encrypt" /\ round' = 0
  /\ UNCHANGED <<input, rks, data, cipher, plain, block>>

Encrypts ==
  /\ aes = "encrypt" /\ Len(cipher) < BlocksIn(data)
  /\ IF round = 10
       THEN cipher' = Append(cipher, block) /\ round' = 0 /\ UNCHANGED block
       ELSE /\ block' = EncryptRound(IF round = 0 THEN Chained(Len(cipher)) ELSE block,
                                     round + 1)
            /\ round' = round + 1 /\ UNCHANGED cipher
  /\ UNCHANGED <<aes, input, rks, data, plain>>

StartsDecrypting ==
  /\ aes = "encrypt" /\ Len(cipher) = BlocksIn(data)
  /\ aes' = "decrypt"
  /\ UNCHANGED <<input, rks, data, cipher, plain, block, round>>

Decrypts ==
  /\ aes = "decrypt" /\ BlocksIn(plain) < Len(cipher)
  /\ LET k == BlocksIn(plain)
     IN IF round = 10
          THEN /\ plain' = plain \o XorSeq(block, LastCipher(k))
               /\ round' = 0 /\ UNCHANGED block
          ELSE /\ block' = DecryptRound(IF round = 0 THEN Unlocked(k) ELSE block, round + 1)
               /\ round' = round + 1 /\ UNCHANGED plain
  /\ UNCHANGED <<aes, input, rks, data, cipher>>

Unpads ==
  /\ aes = "decrypt" /\ BlocksIn(plain) = Len(cipher)
  /\ aes' = "done" /\ plain' = pkcs7_unpad(plain)
  /\ UNCHANGED <<input, rks, data, cipher, block, round>>

AesNext == ExpandsKey \/ StartsEncrypting \/ Encrypts \/ StartsDecrypting \/ Decrypts \/ Unpads

-----------------------------------------------------------------------------
AesTypeOK ==
  /\ aes \in Phases /\ input \in AesInputs /\ round \in 0..10
  /\ Len(rks) \in 1..11 /\ Len(cipher) <= BlocksIn(data)

\* "AES-CBC/PKCS7 round trip" of selftest: what is decrypted under the same key is the
\* message, at the lengths on either side of a block's end that the run has (none, part
\* of a block, a block, one byte more), a message that ends as padding does included.
AesRoundTrip == aes = "done" => plain = input.message

\* "AES-128 encrypt KAT" of selftest: the first block, under the zero IV, is the
\* cipher's known answer for the inputs that have one.
AesKnownAnswer ==
  "answer" \in DOMAIN input /\ cipher # <<>> => cipher[1] = input.answer
=============================================================================
