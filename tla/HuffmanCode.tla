---------------------------- MODULE HuffmanCode ----------------------------
(***************************************************************************)
(* The Huffman codes of libjpeg (jchuff.c, jdhuff.c).  A table is what a   *)
(* DHT marker carries: the symbols in the order of their code lengths, and *)
(* the lengths.  The encoder derives a code for each symbol from it, the   *)
(* decoder the largest code of each length and a lookahead for short ones. *)
(* Both must mean the same code.                                           *)
(***************************************************************************)
EXTENDS Integers, Sequences

CONSTANTS
  HUFF_LOOKAHEAD,   \* bits of the lookahead, 8 in the program
  MaxCodeLength     \* the longest code, 16

\* A table is a sequence of records [symbol, length], as huffval and bits.
Symbols(table) == {table[p].symbol : p \in DOMAIN table}

\* Consecutive numbers, doubled at each longer length.
Codes(table) ==
  LET code[p \in DOMAIN table] ==
        IF p = 1 THEN 0
        ELSE (code[p - 1] + 1) * 2 ^ (table[p].length - table[p - 1].length)
  IN  code

\* What either side accepts: no code of all ones, so that all fit their length,
\* no symbol twice, lengths in order.
IsTable(table) ==
  /\ \A p \in DOMAIN table :
       /\ table[p].length \in 1 .. MaxCodeLength
       /\ p > 1 => table[p - 1].length <= table[p].length
       /\ Codes(table)[p] + 1 < 2 ^ table[p].length
  /\ \A p, q \in DOMAIN table : table[p].symbol = table[q].symbol => p = q

BitsOf(value, size) == [i \in 1 .. size |-> (value \div 2 ^ (size - i)) % 2]
ValueOf(string) ==
  LET value[i \in 0 .. Len(string)] ==
        IF i = 0 THEN 0 ELSE 2 * value[i - 1] + string[i]
  IN  value[Len(string)]

\* ehufco and ehufsi: the code of a symbol as the bits that are emitted.
CodeOf(table, symbol) ==
  LET p == CHOOSE p \in DOMAIN table : table[p].symbol = symbol
  IN  BitsOf(Codes(table)[p], table[p].length)

OfLength(table, l) == {p \in DOMAIN table : table[p].length = l}
LastOf(places) == CHOOSE p \in places : \A q \in places : q <= p
FirstOf(places) == CHOOSE p \in places : \A q \in places : p <= q

\* maxcode, and huffval at code + valoffset.
MaxCode(table, l) ==
  IF OfLength(table, l) = {} THEN -1 ELSE Codes(table)[LastOf(OfLength(table, l))]
SymbolAt(table, l, code) ==
  LET first == FirstOf(OfLength(table, l))
  IN  table[first + code - Codes(table)[first]].symbol

\* look_nbits and look_sym: the places of the table whose codes begin what the
\* lookahead holds.
Lookahead(table, peeked) ==
  {p \in DOMAIN table :
     /\ table[p].length <= HUFF_LOOKAHEAD
     /\ SubSeq(peeked, 1, table[p].length) = BitsOf(Codes(table)[p], table[p].length)}
=============================================================================
