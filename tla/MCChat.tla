-------------------------------- MODULE MCChat --------------------------------
(***************************************************************************)
(* An instance of the chat page for TLC, and the conversions of the bridge *)
(* over all short texts and blobs.                                         *)
(***************************************************************************)
EXTENDS ChatProperties, TLC

CONSTANTS me, p, q, g

MCMe == me
MCTagOf ==
  PrivateKey(me, p) :> <<1>> @@ PrivateKey(me, q) :> <<2>> @@ GroupKey(g) :> <<3>>

\* Peers send a letter, a zero, and a letter with a quote; the base64 of what
\* begins with 208 begins with a digit.
A == 97
MCText == {<<A>>}

Message(from, in, text, nonce) == [from |-> from, in |-> in, text |-> text, nonce |-> nonce]
MCSent ==
  {Message(p, p, <<A>>, <<0>>), Message(p, p, <<Zero>>, <<0>>), Message(p, p, <<A>>, <<208>>),
   Message(p, g, <<A, Quote>>, <<0>>), Message(p, g, <<A>>, <<0>>), Message(q, g, <<Zero>>, <<0>>)}

-----------------------------------------------------------------------------
AnyBlob == BoundedSeq({0, 1, 127, 208, 255}, 4)
AnyText == BoundedSeq({A, LetterN, Minus, Point, Zero, 49, Quote, Backslash, Newline}, 3)

\* Base64 gives back every blob, and begins with a digit for the first bytes
\* 208 to 247; what was serialized is found again, and what is too small to be
\* is refused.  (MessageHandler.cpp:354-385, AESGCM.cpp:183-218.)
ASSUME BlobsSurvive ==
  \A blob \in AnyBlob :
    /\ fromBase64(toBase64(blob)) = blob
    /\ Len(toBase64(blob)) % 4 = 0
    /\ BeginsWithDigit(toBase64(blob)) <=> (blob # <<>> /\ Head(blob) \in 208..247)
    /\ \A enc \in deserialize(blob) : serialize(enc) = blob
    /\ deserialize(blob) = {} <=> Len(blob) < NonceSize + TagSize

\* Between the two browsers a text with a quote is refused as a whole, so that
\* nothing is shown in part; one that begins like a number arrives only if it
\* is one; any other arrives as it is.  (MessageHandler.cpp:216-223, 339-352.)
ASSUME TextsSurvive ==
  \A text \in AnyText :
    text # <<>> => Seen(text) = ToBeShown(text) /\ Seen(text) \subseteq Value

\* The hypothesis of the proofs about what is shown, for these messages; and
\* each of them can be decrypted with its key.
ASSUME MessagesSurvive ==
  /\ ConversionsFaithful
  /\ \A m \in Sent : Decrypted[m, SendersKey(m)] # {}

=============================================================================
