----------------------------- MODULE BridgeCodec -----------------------------
(***************************************************************************)
(* How the bridge writes and reads what goes through it                    *)
(* (bridge/MessageHandler.cpp: the field extractor, makeJson, base64;      *)
(* common/AESGCM.cpp: the layout of what is encrypted), with the browser's *)
(* JSON on the other end.                                                  *)
(*                                                                         *)
(* A text is a sequence of bytes.                                          *)
(***************************************************************************)
EXTENDS Integers, SequencesExt

CONSTANTS
  NonceSize, TagSize,
  TagOf   \* the tag that encryption with a key leaves

ASSUME CodecAssumption == NonceSize \in Nat /\ TagSize \in Nat

Byte == 0..255

Quote == 34
Backslash == 92
Newline == 10
LetterN == 110
Minus == 45
Point == 46
Zero == 48
Digit == 48..57
True == <<116, 114, 117, 101>>
False == <<102, 97, 108, 115, 101>>

-----------------------------------------------------------------------------
\* JSON.stringify of a text, without the quotes around it.
Escaped(c) ==
  IF c = Newline THEN <<Backslash, LetterN>>
  ELSE IF c \in {Quote, Backslash} THEN <<Backslash, c>> ELSE <<c>>

stringify(text) == FlattenSeq([i \in DOMAIN text |-> Escaped(text[i])])

\* extract: what comes before the next quote; escapes stay as they are.
extract(value) ==
  LET closed == Append(value, Quote)
  IN SubSeq(closed, 1, SelectInSeq(closed, LAMBDA c : c = Quote) - 1)

\* makeJson: what it takes for "a raw bool or number" gets no quotes.
IsRaw(v) ==
  \/ v \in {True, False}
  \/ v # <<>> /\ Head(v) \in Digit \cup {Minus}

-----------------------------------------------------------------------------
\* JSON.parse of a value that makeJson wrote: the set of what it can be, empty
\* if the browser refuses it and the message it is part of.  A value is known
\* by what React shows of it and whether JavaScript takes it for false.
\* Exponents, and numbers of more digits than JavaScript keeps, are left out.
Value == [shown : Seq(Byte), falsy : BOOLEAN]

IsNumber(v) ==
  LET body == IF v # <<>> /\ Head(v) = Minus THEN Tail(v) ELSE v
      Digits(s) == s # <<>> /\ ToSet(s) \subseteq Digit
  IN \E k \in 1..Len(body) :
       LET whole == SubSeq(body, 1, k)
           fraction == SubSeq(body, k + 1, Len(body))
       IN /\ Digits(whole) /\ (k = 1 \/ Head(whole) # Zero)
          /\ fraction = <<>> \/ (Head(fraction) = Point /\ Digits(Tail(fraction)))

\* A number as JavaScript prints it: no zeros at the end of a fraction, and no
\* sign for zero.
Printed(v) ==
  LET k == SelectLastInSeq(v, LAMBDA c : c # Zero)
      short == IF Point \notin ToSet(v) THEN v
               ELSE SubSeq(v, 1, IF v[k] = Point THEN k - 1 ELSE k)
  IN IF short = <<Minus, Zero>> THEN <<Zero>> ELSE short

\* The text between quotes, read from the left.
Unescape(read, c) ==
  IF read.escape THEN [text |-> Append(read.text, IF c = LetterN THEN Newline ELSE c),
                       escape |-> FALSE]
  ELSE IF c = Backslash THEN [read EXCEPT !.escape = TRUE]
  ELSE [read EXCEPT !.text = Append(@, c)]

Quoted(v) == FoldLeft(Unescape, [text |-> <<>>, escape |-> FALSE], v)

parse(v) ==
  IF v = True THEN {[shown |-> <<>>, falsy |-> FALSE]}
  ELSE IF v = False THEN {[shown |-> <<>>, falsy |-> TRUE]}
  ELSE IF IsRaw(v) THEN
    IF IsNumber(v) THEN {[shown |-> Printed(v), falsy |-> Printed(v) = <<Zero>>]} ELSE {}
  ELSE IF Quoted(v).escape THEN {}
  ELSE {[shown |-> Quoted(v).text, falsy |-> v = <<>>]}

\* What the receiver's browser gets of a text that the sender's sent off.
Seen(text) == parse(extract(stringify(text)))

-----------------------------------------------------------------------------
\* toBase64 and fromBase64.  Of "val", an int, only the lowest 16 bits matter.
Width == 2 ^ 16
Padding == 64

LastSextet(acc) == ((acc.val * 2 ^ 8) \div 2 ^ (acc.valb + 8)) % 64

PutByte(acc, c) ==
  LET val == (acc.val * 2 ^ 8 + c) % Width
      valb == acc.valb + 8
      n == valb \div 6 + 1
  IN [val |-> val, valb |-> valb - 6 * n,
      out |-> acc.out \o [k \in 1..n |-> (val \div 2 ^ (valb - 6 * (k - 1))) % 64]]

toBase64(data) ==
  LET acc == FoldLeft(PutByte, [val |-> 0, valb |-> -6, out |-> <<>>], data)
      out == IF acc.valb > -6 THEN Append(acc.out, LastSextet(acc)) ELSE acc.out
  IN out \o [k \in 1..((4 - (Len(out) % 4)) % 4) |-> Padding]

PutSextet(acc, c) ==
  LET val == (acc.val * 2 ^ 6 + c) % Width
      valb == acc.valb + 6
  IN IF valb < 0 THEN [acc EXCEPT !.val = val, !.valb = valb]
     ELSE [val |-> val, valb |-> valb - 8,
           out |-> Append(acc.out, (val \div 2 ^ valb) % 256)]

fromBase64(b64) ==
  LET closed == Append(b64, Padding)
      read == SubSeq(closed, 1, SelectInSeq(closed, LAMBDA c : c = Padding) - 1)
  IN FoldLeft(PutSextet, [val |-> 0, valb |-> -8, out |-> <<>>], read).out

\* The characters 0 to 9 of base64, at which makeJson leaves the quotes out.
BeginsWithDigit(b64) == b64 # <<>> /\ Head(b64) \in 52..61

-----------------------------------------------------------------------------
\* What is encrypted: [nonce][ciphertext][tag].
serialize(enc) == enc.nonce \o enc.ciphertext \o enc.tag

\* The set of what a blob can be, empty if it is too small.
deserialize(blob) ==
  LET size == Len(blob) - NonceSize - TagSize
  IN IF size < 0 THEN {}
     ELSE {[nonce |-> SubSeq(blob, 1, NonceSize),
            ciphertext |-> SubSeq(blob, NonceSize + 1, NonceSize + size),
            tag |-> SubSeq(blob, NonceSize + size + 1, Len(blob))]}

\* AES-GCM, by what it promises: with a key that leaves another tag nothing is
\* decrypted.  That the ciphertext is unreadable is no matter here.
encrypt(text, key, nonce) == [nonce |-> nonce, ciphertext |-> text, tag |-> TagOf[key]]
decrypt(enc, key) == IF enc.tag = TagOf[key] THEN {enc.ciphertext} ELSE {}

=============================================================================
