---------------------------- MODULE NgramHasher ----------------------------
(***************************************************************************)
(* mrag/hash/ngram_hasher.py: the key of a text.  A text is the sequence   *)
(* of its code points.  A token is an integer of up to 37 bits, kept here  *)
(* in two parts, since TLC counts to 2^31: low is its last sixteen bits,   *)
(* high what lies above them.                                              *)
(***************************************************************************)
EXTENDS Integers, FiniteSets, SequencesExt

CONSTANT Lower(_)       \* external: the lower case of a character, which may take several

\* The bitwise or of code points (that of Bitwise is recursive, and TLC
\* computes what rests on it anew each time).
Bit(n, i) == (n \div 2^i) % 2
a | b ==
  LET from[i \in 0..21] ==
        IF i = 21 THEN 0
        ELSE (IF Bit(a, i) + Bit(b, i) > 0 THEN 2^i ELSE 0) + from[i + 1]
  IN  from[0]

\* The bytes of a character; errors="replace" is for the surrogates.
Surrogate(c) == 55296 <= c /\ c <= 57343
Utf8(c) ==
  LET Next6(n) == 128 + (n % 64)
  IN  CASE c < 128                              -> <<c>>
        [] 128 <= c /\ c < 2048                 -> <<192 + (c \div 64), Next6(c)>>
        [] Surrogate(c)                         -> <<63>>
        [] 2048 <= c /\ c < 65536 /\ ~Surrogate(c)
                                                -> <<224 + (c \div 4096), Next6(c \div 64), Next6(c)>>
        [] c >= 65536                           -> <<240 + (c \div 262144), Next6(c \div 4096), Next6(c \div 64), Next6(c)>>

Lowered(text) == FlattenSeq([i \in DOMAIN text |-> Lower(text[i])])

\* Under three characters: the first four bytes, least significant first.
ShortToken(chars) ==
  LET bytes == FlattenSeq([i \in DOMAIN chars |-> Utf8(chars[i])])
      Byte(i) == IF i <= Len(bytes) THEN bytes[i] ELSE 0
  IN  [high |-> Byte(3) + 256 * Byte(4), low |-> Byte(1) + 256 * Byte(2)]

\* Mutant: the second character is not shifted.
TrigramUnshifted(o) == [high |-> o[1], low |-> o[2] | (o[3] % 65536)]

\* o[1] << 16 | o[2] << 8 | o[3]: a character that needs more than eight
\* bits reaches into the place of the one before it.
Trigram(o) ==
  [high |-> o[1] | (o[2] \div 256) | (o[3] \div 65536),
   low  |-> ((o[2] % 256) * 256) | (o[3] % 65536)]

TokenizeText(text) ==
  LET chars == Lowered(text)
  IN  IF Len(chars) < 3 THEN <<ShortToken(chars)>>
      ELSE [i \in 1..(Len(chars) - 2) |-> Trigram(SubSeq(chars, i, i + 2))]

\* Mutant: the field is taken to be unsigned.
FitsUnsigned(token) == token.high < 65536

\* A token goes into four bytes, signed; struct.pack raises if it does not fit.
Fits(token) == token.high < 32768

Hashable(text) == \A token \in ToSet(TokenizeText(text)) : Fits(token)

\* Mutant: the key of the first trigram alone.
FirstTokenKey(tokens) == [digest |-> <<tokens[1]>>]

\* external: the digest of different bytes is different.
LookupKey(tokens) == [digest |-> tokens]

TextKey(text) == LookupKey(TokenizeText(text))

Jaccard(A, B) == [num |-> Cardinality(A \cap B), den |-> Cardinality(A \cup B)]

TextSimilarity(query, candidate) ==
  Jaccard(ToSet(TokenizeText(query)), ToSet(TokenizeText(candidate)))
=============================================================================
