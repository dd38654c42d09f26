----------------------- MODULE ServerLifecycleProofs -----------------------
(***************************************************************************)
(* Proofs about the life of the server process, for any names, passwords   *)
(* and prefixes: how users.db is read, what restarts keep, and what a      *)
(* start makes of a file that was left half written.                       *)
(***************************************************************************)
EXTENDS ServerLifecycle, SequenceTheorems, WellFoundedInduction, TLAPS

-----------------------------------------------------------------------------
(* Least and greatest numbers. *)

LEMMA Smallest ==
  ASSUME NEW T, T \subseteq Nat, T # {}
  PROVE  \E x \in T : \A y \in T : x <= y
<1>1. PICK x \in T : \A y \in T : ~ (<<y, x>> \in OpToRel(<, Nat))
  BY NatLessThanWellFounded, WFMin
<1>2. ASSUME NEW y \in T, y < x PROVE FALSE
  BY <1>1, <1>2 DEF OpToRel
<1> QED BY <1>2

LEMMA LastLine ==
  ASSUME NEW lines, NEW n \in Nat, lines \subseteq 1..n, lines # {}
  PROVE  Last(lines) \in lines
<1> DEFINE Back == {n - i : i \in lines}
<1>1. Back \subseteq Nat /\ Back # {}
  <2>1. PICK i \in lines : TRUE
    OBVIOUS
  <2>2. n - i \in Back
    BY <2>1
  <2> QED BY <2>2
<1>2. PICK x \in Back : \A y \in Back : x <= y
  BY <1>1, Smallest
<1>3. PICK i \in lines : x = n - i
  OBVIOUS
<1>4. \A j \in lines : j <= i
  <2>1. ASSUME NEW j \in lines PROVE j <= i
    <3>1. n - i <= n - j
      BY <1>2, <1>3
    <3> QED BY <3>1
  <2> QED BY <2>1
<1> QED BY <1>4 DEF Last

-----------------------------------------------------------------------------
(* Fields. *)

\* j is where the field of f that begins at i ends.
EndsAt(f, i, j) ==
  /\ j \in i..(Len(f) + 1)
  /\ j = Len(f) + 1 \/ f[j] \in Separator
  /\ \A k \in i..(j - 1) : f[k] \notin Separator

(* A field has one end.                                                     *)
LEMMA EndIsUnique ==
  ASSUME NEW f \in Text, NEW i \in 1..(Len(f) + 1), NEW j, EndsAt(f, i, j)
  PROVE  End(f, i) = j
<1>1. Len(f) \in Nat
  BY LenProperties DEF Text
<1>2. End(f, i) = CHOOSE m \in i..(Len(f) + 1) :
                    /\ m = Len(f) + 1 \/ f[m] \in Separator
                    /\ \A k \in i..(m - 1) : f[k] \notin Separator
  BY DEF End
<1>3. EndsAt(f, i, End(f, i))
  BY <1>2 DEF EndsAt
<1>4. ASSUME NEW x, NEW y, EndsAt(f, i, x), EndsAt(f, i, y), x < y PROVE FALSE
  <2>1. x \in i..(y - 1)
    BY <1>1, <1>4 DEF EndsAt
  <2>2. f[x] \notin Separator /\ x # Len(f) + 1
    BY <1>1, <1>4, <2>1 DEF EndsAt
  <2> QED BY <1>4, <2>2 DEF EndsAt
<1> QED BY <1>1, <1>3, <1>4 DEF EndsAt

(* And it has an end.                                                       *)
LEMMA FieldsEnd ==
  ASSUME NEW f \in Text, NEW i \in 1..(Len(f) + 1)
  PROVE  EndsAt(f, i, End(f, i))
<1> DEFINE Stops == {j \in i..(Len(f) + 1) : j = Len(f) + 1 \/ f[j] \in Separator}
<1>1. Len(f) \in Nat
  BY LenProperties DEF Text
<1>2. Stops \subseteq Nat /\ Len(f) + 1 \in Stops
  BY <1>1
<1>3. PICK j \in Stops : \A m \in Stops : j <= m
  BY <1>2, Smallest
<1>4. EndsAt(f, i, j)
  BY <1>1, <1>3 DEF EndsAt
<1> QED BY <1>4, EndIsUnique

LEMMA FieldsArePlain ==
  ASSUME NEW f \in Text, NEW i \in 1..(Len(f) + 1)
  PROVE  /\ FieldAt(f, i) \in Text
         /\ Plain(FieldAt(f, i))
         /\ NextField(f, i) \in 1..(Len(f) + 1)
<1> DEFINE j == End(f, i)
<1>1. Len(f) \in Nat /\ \A k \in 1..Len(f) : f[k] \in Char
  BY LenProperties, ElementOfSeq DEF Text
<1>2. EndsAt(f, i, j)
  BY FieldsEnd
<1>3. j \in i..(Len(f) + 1) /\ \A k \in i..(j - 1) : f[k] \in Char /\ f[k] \notin Separator
  BY <1>1, <1>2 DEF EndsAt
<1> HIDE DEF j
<1>4. /\ SubSeq(f, i, j - 1) \in Seq(Char)
      /\ Len(SubSeq(f, i, j - 1)) = IF i <= j - 1 THEN (j - 1) - i + 1 ELSE 0
      /\ \A k \in 1..((j - 1) - i + 1) : SubSeq(f, i, j - 1)[k] = f[i + k - 1]
  <2>1. i \in Int /\ j - 1 \in Int
    BY <1>1, <1>3
  <2> QED BY <1>3, <2>1, SubSeqProperties
<1>5. \A k \in 1..Len(SubSeq(f, i, j - 1)) : SubSeq(f, i, j - 1)[k] \notin Separator
  <2>1. ASSUME NEW k \in 1..Len(SubSeq(f, i, j - 1))
        PROVE  SubSeq(f, i, j - 1)[k] \notin Separator
    <3>1. k \in 1..((j - 1) - i + 1) /\ i + k - 1 \in i..(j - 1)
      BY <1>1, <1>3, <1>4
    <3> QED BY <1>3, <1>4, <3>1
  <2> QED BY <2>1
<1>6. FieldAt(f, i) = SubSeq(f, i, j - 1)
  BY DEF FieldAt, j
<1>7. NextField(f, i) \in 1..(Len(f) + 1)
  BY <1>1, <1>3 DEF NextField, j
<1> QED BY <1>4, <1>5, <1>6, <1>7 DEF Text, Plain

PlainRecord(r) == Plain(r.name) /\ Plain(r.password) /\ Plain(r.userID)

(* Whatever the text, no separator is left in what is read from it.         *)
LEMMA RecordsArePlain ==
  ASSUME NEW f \in Text, NEW x \in Records(f)
  PROVE  x \in Record /\ PlainRecord(x)
<1>1. PICK i \in Starts(f) : x = RecordAt(f, i)
  BY DEF Records
<1>2. Len(f) \in Nat
  BY LenProperties DEF Text
<1>3. i \in 1..(Len(f) + 1)
  BY <1>2 DEF Starts
<1>4. NextField(f, i) \in 1..(Len(f) + 1)
  BY <1>3, FieldsArePlain
<1>5. NextField(f, NextField(f, i)) \in 1..(Len(f) + 1)
  BY <1>4, FieldsArePlain
<1> QED BY <1>1, <1>3, <1>4, <1>5, FieldsArePlain DEF RecordAt, Record, PlainRecord

-----------------------------------------------------------------------------
(* A text behind another.  Lines that are written one after the other are   *)
(* read one after the other, each as if it were alone.                      *)

\* Every line of f is ended.
Whole(f) == f = <<>> \/ f[Len(f)] = Newline

(* A field of the first text, where that text is whole.                     *)
LEMMA FieldInFirst ==
  ASSUME NEW f \in Text, NEW g \in Text, f # <<>>, Whole(f), NEW i \in 1..Len(f)
  PROVE  /\ FieldAt(f \o g, i) = FieldAt(f, i)
         /\ NextField(f \o g, i) = NextField(f, i)
         /\ NextField(f, i) \in 1..Len(f)
<1> DEFINE j == End(f, i)
<1>1. /\ Len(f) \in Nat /\ Len(g) \in Nat
      /\ Len(f \o g) = Len(f) + Len(g) /\ f \o g \in Text
      /\ \A k \in 1..Len(f) : (f \o g)[k] = f[k]
  BY LenProperties, ConcatProperties DEF Text
<1>2. EndsAt(f, i, j)
  BY <1>1, FieldsEnd
<1>3. j \in i..Len(f)
  <2>1. f[Len(f)] \in Separator
    BY DEF Whole, Separator
  <2>2. j # Len(f) + 1
    <3>1. ASSUME j = Len(f) + 1 PROVE FALSE
      <4>1. Len(f) \in i..(j - 1)
        BY <1>1, <3>1
      <4> QED BY <1>2, <2>1, <4>1 DEF EndsAt
    <3> QED BY <3>1
  <2> QED BY <1>1, <1>2, <2>2 DEF EndsAt
<1>4. EndsAt(f \o g, i, j)
  <2>1. j \in i..(Len(f \o g) + 1)
    BY <1>1, <1>3
  <2>2. (f \o g)[j] \in Separator
    BY <1>1, <1>2, <1>3 DEF EndsAt
  <2>3. ASSUME NEW k \in i..(j - 1) PROVE (f \o g)[k] \notin Separator
    <3>1. k \in 1..Len(f)
      BY <1>1, <1>3
    <3> QED BY <1>1, <1>2, <3>1 DEF EndsAt
  <2> QED BY <2>1, <2>2, <2>3 DEF EndsAt
<1>5. End(f \o g, i) = j
  <2>1. i \in 1..(Len(f \o g) + 1)
    BY <1>1
  <2> QED BY <1>1, <1>4, <2>1, EndIsUnique
<1>6. NextField(f \o g, i) = NextField(f, i) /\ NextField(f, i) \in 1..Len(f)
  <2>1. NextField(f, i) = IF f[j] = Bar THEN j + 1 ELSE j
    BY <1>1, <1>3 DEF NextField
  <2>2. NextField(f \o g, i) = IF f[j] = Bar THEN j + 1 ELSE j
    BY <1>1, <1>3, <1>5 DEF NextField
  <2>3. f[j] = Bar => j # Len(f)
    BY FileAssumption DEF Whole
  <2> QED BY <1>1, <1>3, <2>1, <2>2, <2>3
<1>7. SubSeq(f \o g, i, j - 1) = SubSeq(f, i, j - 1)
  <2>1. CASE j = i
    BY <1>1, <1>3, <2>1, SubSeqEmpty
  <2>2. CASE j # i
    <3>1. i \in 1..Len(f) /\ j - 1 \in 1..Len(f)
      BY <1>1, <1>3, <2>2
    <3> QED BY <3>1, SubSeqOfConcat1 DEF Text
  <2> QED BY <2>1, <2>2
<1> QED BY <1>5, <1>6, <1>7 DEF FieldAt

(* A field of the second text.                                              *)
LEMMA FieldInSecond ==
  ASSUME NEW f \in Text, NEW g \in Text, NEW i \in 1..(Len(g) + 1)
  PROVE  /\ FieldAt(f \o g, Len(f) + i) = FieldAt(g, i)
         /\ NextField(f \o g, Len(f) + i) = Len(f) + NextField(g, i)
<1> DEFINE j == End(g, i)
<1>1. /\ Len(f) \in Nat /\ Len(g) \in Nat
      /\ Len(f \o g) = Len(f) + Len(g) /\ f \o g \in Text
      /\ \A k \in 1..Len(g) : (f \o g)[Len(f) + k] = g[k]
  <2>1. /\ Len(f) \in Nat /\ Len(g) \in Nat
        /\ Len(f \o g) = Len(f) + Len(g) /\ f \o g \in Text
        /\ \A k \in 1..(Len(f) + Len(g)) :
             (f \o g)[k] = IF k <= Len(f) THEN f[k] ELSE g[k - Len(f)]
    BY LenProperties, ConcatProperties DEF Text
  <2>2. ASSUME NEW k \in 1..Len(g) PROVE (f \o g)[Len(f) + k] = g[k]
    <3>1. /\ Len(f) + k \in 1..(Len(f) + Len(g))
          /\ ~ (Len(f) + k <= Len(f)) /\ (Len(f) + k) - Len(f) = k
      BY <2>1
    <3> QED BY <2>1, <3>1
  <2> QED BY <2>1, <2>2
<1>2. EndsAt(g, i, j)
  BY FieldsEnd
<1>3. j \in i..(Len(g) + 1)
  BY <1>2 DEF EndsAt
<1> HIDE DEF j
<1>4. EndsAt(f \o g, Len(f) + i, Len(f) + j)
  <2>1. Len(f) + j \in (Len(f) + i)..(Len(f \o g) + 1)
    BY <1>1, <1>3
  <2>2. Len(f) + j = Len(f \o g) + 1 \/ (f \o g)[Len(f) + j] \in Separator
    <3>1. CASE j = Len(g) + 1
      BY <1>1, <3>1
    <3>2. CASE j # Len(g) + 1
      <4>1. j \in 1..Len(g) /\ g[j] \in Separator
        BY <1>1, <1>2, <1>3, <3>2 DEF EndsAt
      <4> QED BY <1>1, <4>1
    <3> QED BY <3>1, <3>2
  <2>3. ASSUME NEW k \in (Len(f) + i)..((Len(f) + j) - 1) PROVE (f \o g)[k] \notin Separator
    <3>1. /\ k - Len(f) \in 1..Len(g) /\ k - Len(f) \in i..(j - 1)
          /\ Len(f) + (k - Len(f)) = k
      BY <1>1, <1>3
    <3>2. g[k - Len(f)] \notin Separator
      BY <1>2, <3>1 DEF EndsAt
    <3>3. (f \o g)[Len(f) + (k - Len(f))] = g[k - Len(f)]
      BY <1>1, <3>1
    <3> QED BY <3>1, <3>2, <3>3
  <2> QED BY ONLY <2>1, <2>2, <2>3, Zenon DEF EndsAt
<1>5. End(f \o g, Len(f) + i) = Len(f) + j
  <2>1. Len(f) + i \in 1..(Len(f \o g) + 1)
    BY <1>1
  <2> QED BY <1>1, <1>4, <2>1, EndIsUnique
<1>6. NextField(f \o g, Len(f) + i) = Len(f) + NextField(g, i)
  <2>1. CASE j = Len(g) + 1
    BY <1>1, <1>5, <2>1 DEF NextField, j
  <2>2. CASE j # Len(g) + 1
    <3>1. j \in 1..Len(g) /\ Len(f) + j <= Len(f \o g) /\ j <= Len(g)
      BY <1>1, <1>3, <2>2
    <3>2. (f \o g)[Len(f) + j] = g[j]
      BY <1>1, <3>1
    <3> QED BY <1>1, <1>5, <3>1, <3>2 DEF NextField, j
  <2> QED BY <2>1, <2>2
<1>7. SubSeq(f \o g, Len(f) + i, (Len(f) + j) - 1) = SubSeq(g, i, j - 1)
  <2>1. CASE j = i
    BY <1>1, <1>3, <2>1, SubSeqEmpty
  <2>2. CASE j # i
    <3>1. /\ Len(f) + i \in (Len(f) + 1)..(Len(f) + Len(g))
          /\ (Len(f) + j) - 1 \in (Len(f) + 1)..(Len(f) + Len(g))
          /\ (Len(f) + i) - Len(f) = i /\ ((Len(f) + j) - 1) - Len(f) = j - 1
      BY <1>1, <1>3, <2>2
    <3>2. SubSeq(f \o g, Len(f) + i, (Len(f) + j) - 1)
            = SubSeq(g, (Len(f) + i) - Len(f), ((Len(f) + j) - 1) - Len(f))
      BY <3>1, SubSeqOfConcat2 DEF Text
    <3> QED BY <3>1, <3>2
  <2> QED BY <2>1, <2>2
<1>8. FieldAt(f \o g, Len(f) + i) = SubSeq(f \o g, Len(f) + i, (Len(f) + j) - 1)
  BY ONLY <1>5, Zenon DEF FieldAt
<1>9. FieldAt(g, i) = SubSeq(g, i, j - 1)
  BY DEF FieldAt, j
<1> QED BY <1>6, <1>7, <1>8, <1>9

(* What is read from a whole text and a line behind it.                     *)
LEMMA RecordsOfBoth ==
  ASSUME NEW f \in Text, NEW g \in Text, Whole(f)
  PROVE  Records(f \o g) = Records(f) \cup Records(g)
<1>1. /\ Len(f) \in Nat /\ Len(g) \in Nat /\ Len(f \o g) = Len(f) + Len(g)
      /\ \A k \in 1..(Len(f) + Len(g)) :
           (f \o g)[k] = IF k <= Len(f) THEN f[k] ELSE g[k - Len(f)]
  BY LenProperties, ConcatProperties DEF Text
<1>2. ASSUME NEW i \in Starts(f)
      PROVE  i \in Starts(f \o g) /\ RecordAt(f \o g, i) = RecordAt(f, i)
  <2>1. i \in 1..Len(f) /\ f # <<>>
    BY <1>1 DEF Starts
  <2>2. i \in Starts(f \o g)
    BY <1>1, <1>2 DEF Starts
  <2>3. NextField(f, i) \in 1..Len(f)
    BY <2>1, FieldInFirst
  <2>4. NextField(f, NextField(f, i)) \in 1..Len(f)
    BY <2>1, <2>3, FieldInFirst
  <2>5. /\ FieldAt(f \o g, i) = FieldAt(f, i) /\ NextField(f \o g, i) = NextField(f, i)
    BY <2>1, FieldInFirst
  <2>6. /\ FieldAt(f \o g, NextField(f, i)) = FieldAt(f, NextField(f, i))
        /\ NextField(f \o g, NextField(f, i)) = NextField(f, NextField(f, i))
    BY <2>1, <2>3, FieldInFirst
  <2>7. FieldAt(f \o g, NextField(f, NextField(f, i)))
          = FieldAt(f, NextField(f, NextField(f, i)))
    BY <2>1, <2>4, FieldInFirst
  <2> QED BY <2>2, <2>5, <2>6, <2>7 DEF RecordAt
<1>3. ASSUME NEW i \in Starts(g)
      PROVE  Len(f) + i \in Starts(f \o g) /\ RecordAt(f \o g, Len(f) + i) = RecordAt(g, i)
  <2>1. i \in 1..Len(g) /\ i \in 1..(Len(g) + 1)
    BY <1>1 DEF Starts
  <2>2. Len(f) + i \in Starts(f \o g)
    <3>1. Len(f) + i \in 1..Len(f \o g)
      BY <1>1, <2>1
    <3>2. CASE i = 1
      <4>1. CASE f = <<>>
        BY <1>1, <3>1, <3>2, <4>1 DEF Starts
      <4>2. CASE f # <<>>
        <5>1. Len(f) \in 1..Len(f) /\ f[Len(f)] = Newline
          BY <1>1, <4>2, EmptySeq DEF Whole, Text
        <5>2. (f \o g)[(Len(f) + i) - 1] = Newline
          BY <1>1, <3>2, <5>1
        <5> QED BY <3>1, <5>2 DEF Starts
      <4> QED BY <4>1, <4>2
    <3>3. CASE i # 1
      <4>1. g[i - 1] = Newline
        BY <3>3 DEF Starts
      <4>2. /\ (Len(f) + i) - 1 \in 1..(Len(f) + Len(g))
            /\ ~ ((Len(f) + i) - 1 <= Len(f)) /\ ((Len(f) + i) - 1) - Len(f) = i - 1
        BY <1>1, <2>1, <3>3
      <4>3. (f \o g)[(Len(f) + i) - 1] = Newline
        BY <1>1, <4>1, <4>2
      <4> QED BY <3>1, <4>3 DEF Starts
    <3> QED BY <3>2, <3>3
  <2>3. NextField(g, i) \in 1..(Len(g) + 1)
    BY <2>1, FieldsArePlain
  <2>4. NextField(g, NextField(g, i)) \in 1..(Len(g) + 1)
    BY <2>3, FieldsArePlain
  <2>5. /\ FieldAt(f \o g, Len(f) + i) = FieldAt(g, i)
        /\ NextField(f \o g, Len(f) + i) = Len(f) + NextField(g, i)
    BY <2>1, FieldInSecond
  <2>6. /\ FieldAt(f \o g, Len(f) + NextField(g, i)) = FieldAt(g, NextField(g, i))
        /\ NextField(f \o g, Len(f) + NextField(g, i))
             = Len(f) + NextField(g, NextField(g, i))
    BY <2>3, FieldInSecond
  <2>7. FieldAt(f \o g, Len(f) + NextField(g, NextField(g, i)))
          = FieldAt(g, NextField(g, NextField(g, i)))
    BY <2>4, FieldInSecond
  <2> QED BY <2>2, <2>5, <2>6, <2>7 DEF RecordAt
<1>4. ASSUME NEW i \in Starts(f \o g)
      PROVE  i \in Starts(f) \/ (\E m \in Starts(g) : i = Len(f) + m)
  <2>1. i \in 1..(Len(f) + Len(g)) /\ (i = 1 \/ (f \o g)[i - 1] = Newline)
    BY <1>1 DEF Starts
  <2>2. CASE i <= Len(f)
    BY <1>1, <2>1, <2>2 DEF Starts
  <2>3. CASE i > Len(f)
    <3>1. i - Len(f) \in 1..Len(g) /\ i = Len(f) + (i - Len(f))
      BY <1>1, <2>1, <2>3
    <3>2. CASE i - Len(f) = 1
      BY <1>1, <3>1, <3>2 DEF Starts
    <3>3. CASE i - Len(f) # 1
      <4>1. /\ i - 1 \in 1..(Len(f) + Len(g)) /\ ~ (i - 1 <= Len(f)) /\ i # 1
            /\ (i - 1) - Len(f) = (i - Len(f)) - 1
        BY <1>1, <2>1, <2>3, <3>3
      <4>2. g[(i - Len(f)) - 1] = Newline
        BY <1>1, <2>1, <4>1
      <4> QED BY <3>1, <4>2 DEF Starts
    <3> QED BY <3>2, <3>3
  <2> QED BY <1>1, <2>1, <2>2, <2>3
<1>5. Records(f) \cup Records(g) \subseteq Records(f \o g)
  BY <1>2, <1>3 DEF Records
<1>6. Records(f \o g) \subseteq Records(f) \cup Records(g)
  <2>1. ASSUME NEW i \in Starts(f \o g)
        PROVE  RecordAt(f \o g, i) \in Records(f) \cup Records(g)
    BY <1>2, <1>3, <1>4 DEF Records
  <2> QED BY <2>1 DEF Records
<1> QED BY <1>5, <1>6

-----------------------------------------------------------------------------
(* The line of an account. *)

\* The text t stands in s behind the place i.
Holds(s, i, t) == \A k \in 1..Len(t) : s[i + k] = t[k]

LEMMA HoldsSecond ==
  ASSUME NEW s \in Text, NEW t \in Text
  PROVE  /\ s \o t \in Text /\ Len(s \o t) = Len(s) + Len(t)
         /\ Holds(s \o t, Len(s), t)
<1>1. /\ Len(s) \in Nat /\ Len(t) \in Nat /\ s \o t \in Text
      /\ Len(s \o t) = Len(s) + Len(t)
      /\ \A k \in 1..(Len(s) + Len(t)) :
           (s \o t)[k] = IF k <= Len(s) THEN s[k] ELSE t[k - Len(s)]
  BY LenProperties, ConcatProperties DEF Text
<1>2. ASSUME NEW k \in 1..Len(t) PROVE (s \o t)[Len(s) + k] = t[k]
  <2>1. /\ Len(s) + k \in 1..(Len(s) + Len(t))
        /\ ~ (Len(s) + k <= Len(s)) /\ (Len(s) + k) - Len(s) = k
    BY <1>1
  <2> QED BY <1>1, <2>1
<1> QED BY <1>1, <1>2 DEF Holds

LEMMA HoldsFirst ==
  ASSUME NEW s \in Text, NEW t \in Text, NEW x \in Text, NEW i \in Nat,
         i + Len(x) <= Len(s), Holds(s, i, x)
  PROVE  Holds(s \o t, i, x)
<1>1. /\ Len(s) \in Nat /\ Len(t) \in Nat /\ Len(x) \in Nat
      /\ \A k \in 1..(Len(s) + Len(t)) :
           (s \o t)[k] = IF k <= Len(s) THEN s[k] ELSE t[k - Len(s)]
  BY LenProperties, ConcatProperties DEF Text
<1>2. ASSUME NEW k \in 1..Len(x) PROVE (s \o t)[i + k] = x[k]
  <2>1. i + k \in 1..(Len(s) + Len(t)) /\ i + k <= Len(s)
    BY <1>1
  <2> QED BY <1>1, <2>1 DEF Holds
<1> QED BY <1>2 DEF Holds

Bars == <<Bar>>

Rest == <<Bar, Time, Bar, Time, Newline>>

\* What the line holds of the account, n, m and u being the lengths of its
\* three fields.
LineParts(r, n, m, u) ==
  /\ Line(r) \in Text
  /\ Len(Line(r)) = n + m + u + 7
  /\ Holds(Line(r), 0, r.name)
  /\ Holds(Line(r), n, Bars)
  /\ Holds(Line(r), n + 1, r.password)
  /\ Holds(Line(r), n + m + 1, Bars)
  /\ Holds(Line(r), n + m + 2, r.userID)
  /\ Holds(Line(r), n + m + u + 2, Rest)

LEMMA Tokens ==
  /\ Bars \in Text /\ Len(Bars) = 1 /\ Bars[1] = Bar
  /\ Rest \in Text /\ Len(Rest) = 5 /\ Rest[1] = Bar /\ Rest[2] = Time
  /\ Rest[3] = Bar /\ Rest[4] = Time /\ Rest[5] = Newline
<1>1. Bar \in Char /\ Time \in Char /\ Newline \in Char
  BY FileAssumption DEF Separator
<1> QED BY <1>1 DEF Text, Bars, Rest

LEMMA LineHolds ==
  ASSUME NEW r \in Record, NEW n \in Nat, NEW m \in Nat, NEW u \in Nat,
         n = Len(r.name), m = Len(r.password), u = Len(r.userID)
  PROVE  LineParts(r, n, m, u)
<1>1. r.name \in Text /\ r.password \in Text /\ r.userID \in Text
  BY DEF Record
<1>2. Bars \in Text /\ Len(Bars) = 1 /\ Rest \in Text /\ Len(Rest) = 5
  BY Tokens
<1>3. PICK s0 : s0 = r.name
  OBVIOUS
<1>4. Holds(s0, 0, r.name)
  <2>1. \A k \in 1..Len(s0) : 0 + k = k
    BY <1>3
  <2> QED BY <1>3, <2>1 DEF Holds
<1>5. PICK s1 : s1 = s0 \o Bars
  OBVIOUS
<1>6. s1 \in Text /\ Len(s1) = n + 1
  <2>1. s0 \in Text /\ Len(s0) = n
    BY ONLY <1>1, <1>3, n = Len(r.name)
  <2>2. s1 \in Text /\ Len(s1) = Len(s0) + Len(Bars)
    BY ONLY <1>2, <1>5, <2>1, HoldsSecond
  <2> QED BY ONLY <1>2, <2>1, <2>2
<1>7. Holds(s1, 0, r.name) /\ Holds(s1, n, Bars)
  <2>1. 0 + Len(r.name) <= Len(s0)
    BY <1>3
  <2> QED BY <1>1, <1>2, <1>3, <1>4, <1>5, <2>1, HoldsFirst, HoldsSecond
<1>8. PICK s2 : s2 = s1 \o r.password
  OBVIOUS
<1>9. s2 \in Text /\ Len(s2) = n + m + 1
  <2>1. s2 \in Text /\ Len(s2) = (n + 1) + m
    BY <1>1, <1>6, <1>8, HoldsSecond
  <2>2. (n + 1) + m = n + m + 1
    BY ONLY n \in Nat, m \in Nat
  <2> QED BY ONLY <2>1, <2>2
<1>10. Holds(s2, 0, r.name) /\ Holds(s2, n, Bars) /\ Holds(s2, n + 1, r.password)
  <2>1. 0 + Len(r.name) <= Len(s1) /\ n + Len(Bars) <= Len(s1)
    BY <1>2, <1>6
  <2>2. Holds(s2, n + 1, r.password)
    BY <1>1, <1>6, <1>8, HoldsSecond
  <2> QED BY <1>1, <1>2, <1>6, <1>7, <1>8, <2>1, <2>2, HoldsFirst
<1>11. PICK s3 : s3 = s2 \o Bars
  OBVIOUS
<1>12. s3 \in Text /\ Len(s3) = n + m + 2
  <2>1. s3 \in Text /\ Len(s3) = (n + m + 1) + 1
    BY <1>2, <1>9, <1>11, HoldsSecond
  <2>2. (n + m + 1) + 1 = n + m + 2
    BY ONLY n \in Nat, m \in Nat
  <2> QED BY ONLY <2>1, <2>2
<1>13. /\ Holds(s3, 0, r.name) /\ Holds(s3, n, Bars) /\ Holds(s3, n + 1, r.password)
       /\ Holds(s3, n + m + 1, Bars)
  <2>1. /\ 0 + Len(r.name) <= Len(s2) /\ n + Len(Bars) <= Len(s2)
        /\ (n + 1) + Len(r.password) <= Len(s2) /\ n + 1 \in Nat
    <3>1. 0 + n <= n + m + 1 /\ n + 1 <= n + m + 1 /\ (n + 1) + m <= n + m + 1 /\ n + 1 \in Nat
      BY ONLY n \in Nat, m \in Nat
    <3> QED BY ONLY <1>2, <1>9, <3>1, n = Len(r.name), m = Len(r.password), Zenon
  <2>2. Holds(s3, n + m + 1, Bars)
    BY <1>2, <1>9, <1>11, <2>1, HoldsSecond
  <2> QED BY <1>1, <1>2, <1>9, <1>10, <1>11, <2>1, <2>2, HoldsFirst
<1>14. PICK s4 : s4 = s3 \o r.userID
  OBVIOUS
<1>15. s4 \in Text /\ Len(s4) = n + m + u + 2
  <2>1. s4 \in Text /\ Len(s4) = (n + m + 2) + u
    BY <1>1, <1>12, <1>14, HoldsSecond
  <2>2. (n + m + 2) + u = n + m + u + 2
    BY ONLY n \in Nat, m \in Nat, u \in Nat
  <2> QED BY ONLY <2>1, <2>2
<1>16. /\ Holds(s4, 0, r.name) /\ Holds(s4, n, Bars) /\ Holds(s4, n + 1, r.password)
       /\ Holds(s4, n + m + 1, Bars) /\ Holds(s4, n + m + 2, r.userID)
  <2>1. /\ 0 + Len(r.name) <= Len(s3) /\ n + Len(Bars) <= Len(s3)
        /\ (n + 1) + Len(r.password) <= Len(s3) /\ n + 1 \in Nat
        /\ (n + m + 1) + Len(Bars) <= Len(s3) /\ n + m + 1 \in Nat
    <3>1. /\ 0 + n <= n + m + 2 /\ n + 1 <= n + m + 2 /\ (n + 1) + m <= n + m + 2
          /\ n + 1 \in Nat /\ (n + m + 1) + 1 <= n + m + 2 /\ n + m + 1 \in Nat
      BY ONLY n \in Nat, m \in Nat
    <3> QED BY ONLY <1>2, <1>12, <3>1, n = Len(r.name), m = Len(r.password), Zenon
  <2>2. Holds(s4, n + m + 2, r.userID)
    BY <1>1, <1>12, <1>14, HoldsSecond
  <2> QED BY <1>1, <1>2, <1>12, <1>13, <1>14, <2>1, <2>2, HoldsFirst
<1>17. Line(r) = s4 \o Rest
  BY <1>3, <1>5, <1>8, <1>11, <1>14 DEF Line, Bars, Rest
<1>18. Line(r) \in Text /\ Len(Line(r)) = n + m + u + 7
  <2>1. Line(r) \in Text /\ Len(Line(r)) = (n + m + u + 2) + 5
    BY <1>2, <1>15, <1>17, HoldsSecond
  <2>2. (n + m + u + 2) + 5 = n + m + u + 7
    BY ONLY n \in Nat, m \in Nat, u \in Nat
  <2> QED BY ONLY <2>1, <2>2
<1>19. /\ Holds(Line(r), 0, r.name) /\ Holds(Line(r), n, Bars)
       /\ Holds(Line(r), n + 1, r.password) /\ Holds(Line(r), n + m + 1, Bars)
       /\ Holds(Line(r), n + m + 2, r.userID) /\ Holds(Line(r), n + m + u + 2, Rest)
  <2>1. /\ 0 + Len(r.name) <= Len(s4) /\ n + Len(Bars) <= Len(s4)
        /\ (n + 1) + Len(r.password) <= Len(s4) /\ n + 1 \in Nat
        /\ (n + m + 1) + Len(Bars) <= Len(s4) /\ n + m + 1 \in Nat
        /\ (n + m + 2) + Len(r.userID) <= Len(s4) /\ n + m + 2 \in Nat
    <3>1. /\ 0 + n <= n + m + u + 2 /\ n + 1 <= n + m + u + 2
          /\ (n + 1) + m <= n + m + u + 2 /\ n + 1 \in Nat
          /\ (n + m + 1) + 1 <= n + m + u + 2 /\ n + m + 1 \in Nat
          /\ (n + m + 2) + u <= n + m + u + 2 /\ n + m + 2 \in Nat
      BY ONLY n \in Nat, m \in Nat, u \in Nat
    <3> QED BY ONLY <1>2, <1>15, <3>1, n = Len(r.name), m = Len(r.password),
                    u = Len(r.userID), Zenon
  <2>2. Holds(Line(r), n + m + u + 2, Rest)
    BY <1>2, <1>15, <1>17, HoldsSecond
  <2> QED BY <1>1, <1>2, <1>15, <1>16, <1>17, <2>1, <2>2, HoldsFirst
<1> QED BY <1>18, <1>19 DEF LineParts

(* What stands at a place of a text inside another.                         *)
LEMMA HoldsAt ==
  ASSUME NEW s, NEW t \in Text, NEW i \in Nat, Holds(s, i, t)
  PROVE  \A k \in (i + 1)..(i + Len(t)) : k - i \in 1..Len(t) /\ s[k] = t[k - i]
<1>1. ASSUME NEW k \in (i + 1)..(i + Len(t))
      PROVE  k - i \in 1..Len(t) /\ i + (k - i) = k
  BY LenProperties DEF Text
<1> QED BY <1>1 DEF Holds

LEMMA LinesAreWhole ==
  ASSUME NEW r \in Record
  PROVE  Line(r) \in Text /\ Line(r) # <<>> /\ Whole(Line(r))
<1>1. PICK n \in Nat, m \in Nat, u \in Nat :
        n = Len(r.name) /\ m = Len(r.password) /\ u = Len(r.userID)
  BY LenProperties DEF Record, Text
<1>2. LineParts(r, n, m, u)
  BY <1>1, LineHolds
<1>3. Len(Line(r)) \in ((n + m + u + 2) + 1)..((n + m + u + 2) + 5) /\ n + m + u + 2 \in Nat
      /\ Len(Line(r)) - (n + m + u + 2) = 5 /\ Len(Line(r)) # 0
  <2>1. Len(Line(r)) = n + m + u + 7
    BY <1>2 DEF LineParts
  <2>2. /\ n + m + u + 7 \in ((n + m + u + 2) + 1)..((n + m + u + 2) + 5)
        /\ n + m + u + 2 \in Nat /\ (n + m + u + 7) - (n + m + u + 2) = 5
        /\ n + m + u + 7 # 0
    BY ONLY n \in Nat, m \in Nat, u \in Nat
  <2> QED BY ONLY <2>1, <2>2, Zenon
<1>4. Line(r)[Len(Line(r))] = Rest[5]
  <2>1. 5 \in Nat
    OBVIOUS
  <2>2. Holds(Line(r), n + m + u + 2, Rest) /\ 5 = Len(Rest) /\ Rest \in Text
    BY <1>2, Tokens DEF LineParts
  <2>3. \A k \in ((n + m + u + 2) + 1)..((n + m + u + 2) + Len(Rest)) :
          k - (n + m + u + 2) \in 1..Len(Rest) /\ Line(r)[k] = Rest[k - (n + m + u + 2)]
    BY <1>3, <2>2, HoldsAt, Zenon
  <2>4. Line(r)[Len(Line(r))] = Rest[Len(Line(r)) - (n + m + u + 2)]
    BY <1>3, <2>2, <2>3
  <2> QED BY <1>3, <2>4
<1>5. Line(r) # <<>>
  BY <1>3, EmptySeq
<1> QED BY <1>2, <1>4, <1>5, Tokens DEF LineParts, Whole

LEMMA WholeTexts ==
  ASSUME NEW f \in Text, NEW g \in Text, g # <<>>, Whole(g)
  PROVE  Whole(f \o g)
<1>1. Len(f) \in Nat /\ Len(g) \in 1..Len(g) /\ g[Len(g)] = Newline
  BY LenProperties, EmptySeq DEF Whole, Text
<1>2. (f \o g)[Len(f) + Len(g)] = g[Len(g)] /\ Len(f \o g) = Len(f) + Len(g)
  BY <1>1, HoldsSecond DEF Holds
<1> QED BY <1>1, <1>2 DEF Whole

(* A field without separators is read as it was written.                    *)
LEMMA PlainField ==
  ASSUME NEW f \in Text, NEW x \in Text, NEW i \in Nat, Plain(x), Holds(f, i, x),
         i + Len(x) + 1 <= Len(f), f[i + Len(x) + 1] \in Separator
  PROVE  /\ FieldAt(f, i + 1) = x
         /\ f[i + Len(x) + 1] = Bar => NextField(f, i + 1) = i + Len(x) + 2
<1> DEFINE m == Len(x)
<1>1. Len(f) \in Nat /\ m \in Nat
  BY LenProperties DEF Text
<1>0. m = Len(x)
  OBVIOUS
<1> HIDE DEF m
<1>2. EndsAt(f, i + 1, i + m + 1)
  <2>1. i + m + 1 \in (i + 1)..(Len(f) + 1)
    BY <1>0, <1>1
  <2>2. ASSUME NEW k \in (i + 1)..((i + m + 1) - 1) PROVE f[k] \notin Separator
    <3>1. k \in (i + 1)..(i + m)
      BY <1>1
    <3>2. k - i \in 1..m /\ f[k] = x[k - i]
      BY <1>0, <3>1, HoldsAt
    <3> QED BY <1>0, <3>2 DEF Plain
  <2>3. f[i + m + 1] \in Separator
    BY <1>0
  <2> QED BY <2>1, <2>2, <2>3 DEF EndsAt
<1>3. End(f, i + 1) = i + m + 1
  <2>1. i + 1 \in 1..(Len(f) + 1)
    BY <1>0, <1>1
  <2> QED BY <1>2, <2>1, EndIsUnique
<1>4. f[i + m + 1] = Bar => NextField(f, i + 1) = i + m + 2
  <2>1. (i + m + 1) + 1 = i + m + 2
    BY ONLY i \in Nat, <1>1
  <2> QED BY <1>0, <1>3, <2>1 DEF NextField
<1>5. FieldAt(f, i + 1) = SubSeq(f, i + 1, i + m)
  <2>1. (i + m + 1) - 1 = i + m
    BY ONLY i \in Nat, <1>1
  <2> QED BY <1>3, <2>1 DEF FieldAt
<1>6. SubSeq(f, i + 1, i + m) = x
  <2>1. \A k \in (i + 1)..(i + m) : f[k] \in Char
    <3>1. ASSUME NEW k \in (i + 1)..(i + m) PROVE k \in 1..Len(f)
      BY <1>0, <1>1
    <3> QED BY <3>1, ElementOfSeq DEF Text
  <2>2. /\ i + 1 \in Int /\ i + m \in Int
        /\ (i + m) - (i + 1) + 1 = m /\ (i + 1 <= i + m <=> m # 0)
    BY ONLY i \in Nat, <1>1
  <2>3. /\ SubSeq(f, i + 1, i + m) \in Seq(Char)
        /\ Len(SubSeq(f, i + 1, i + m)) = m
        /\ \A k \in 1..m : SubSeq(f, i + 1, i + m)[k] = f[(i + 1) + k - 1]
    BY <2>1, <2>2, SubSeqProperties
  <2>4. ASSUME NEW k \in 1..m PROVE SubSeq(f, i + 1, i + m)[k] = x[k]
    <3>1. (i + 1) + k - 1 = i + k
      BY ONLY i \in Nat, k \in 1..m, <1>1
    <3> QED BY <1>0, <2>3, <3>1 DEF Holds
  <2> QED BY <1>0, <2>3, <2>4, SeqEqual DEF Text
<1> QED BY <1>0, <1>4, <1>5, <1>6

(* The line of an account without separators is read as that account.       *)
LEMMA PlainLine ==
  ASSUME NEW r \in Record, PlainRecord(r)
  PROVE  Records(Line(r)) = {r}
<1>1. PICK n \in Nat, m \in Nat, u \in Nat :
        n = Len(r.name) /\ m = Len(r.password) /\ u = Len(r.userID)
  BY LenProperties DEF Record, Text
<1>2. LineParts(r, n, m, u)
  BY <1>1, LineHolds
<1>3. PICK f \in Text : f = Line(r)
  BY <1>2 DEF LineParts
<1>4. /\ Holds(f, 0, r.name) /\ Holds(f, n, Bars) /\ Holds(f, n + 1, r.password)
      /\ Holds(f, n + m + 1, Bars) /\ Holds(f, n + m + 2, r.userID)
      /\ Holds(f, n + m + u + 2, Rest) /\ Len(f) = n + m + u + 7
  BY <1>2, <1>3 DEF LineParts
<1>5. /\ r.name \in Text /\ r.password \in Text /\ r.userID \in Text
      /\ Plain(r.name) /\ Plain(r.password) /\ Plain(r.userID)
  BY DEF Record, PlainRecord
<1>6. f[n + 1] = Bar
  BY <1>4, Tokens DEF Holds
<1>7. f[n + m + 2] = Bar
  <2>1. (n + m + 1) + 1 = n + m + 2
    BY ONLY n \in Nat, m \in Nat
  <2>2. f[(n + m + 1) + 1] = Bars[1]
    BY <1>4, Tokens DEF Holds
  <2> QED BY <2>1, <2>2, Tokens
<1>8. f[n + m + u + 3] = Bar
  <2>1. (n + m + u + 2) + 1 = n + m + u + 3
    BY ONLY n \in Nat, m \in Nat, u \in Nat
  <2>2. f[(n + m + u + 2) + 1] = Rest[1]
    BY <1>4, Tokens DEF Holds
  <2> QED BY <2>1, <2>2, Tokens
<1>9. FieldAt(f, 1) = r.name /\ NextField(f, 1) = n + 2
  <2>1. /\ 0 \in Nat /\ 0 + n + 1 = n + 1 /\ n + 1 <= n + m + u + 7 /\ 0 + 1 = 1
        /\ 0 + n + 2 = n + 2
    BY ONLY n \in Nat, m \in Nat, u \in Nat
  <2>2. /\ 0 + n + 1 <= Len(f) /\ f[0 + n + 1] \in Separator
    BY <1>4, <1>6, <2>1 DEF Separator
  <2>3. FieldAt(f, 0 + 1) = r.name /\ (f[0 + n + 1] = Bar => NextField(f, 0 + 1) = 0 + n + 2)
    BY ONLY f \in Text, n \in Nat, <1>1, <1>4, <1>5, <2>1, <2>2, PlainField, Zenon
  <2> QED BY <1>6, <2>1, <2>3
<1>10. FieldAt(f, n + 2) = r.password /\ NextField(f, n + 2) = n + m + 3
  <2>1. /\ n + 1 \in Nat /\ (n + 1) + m + 1 = n + m + 2 /\ n + m + 2 <= n + m + u + 7
        /\ (n + 1) + 1 = n + 2 /\ (n + 1) + m + 2 = n + m + 3
    BY ONLY n \in Nat, m \in Nat, u \in Nat
  <2>2. (n + 1) + m + 1 <= Len(f) /\ f[(n + 1) + m + 1] \in Separator
    BY <1>4, <1>7, <2>1 DEF Separator
  <2>3. /\ FieldAt(f, (n + 1) + 1) = r.password
        /\ f[(n + 1) + m + 1] = Bar => NextField(f, (n + 1) + 1) = (n + 1) + m + 2
    BY ONLY f \in Text, m \in Nat, <1>1, <1>4, <1>5, <2>1, <2>2, PlainField, Zenon
  <2> QED BY <1>7, <2>1, <2>3
<1>11. FieldAt(f, n + m + 3) = r.userID
  <2>1. /\ n + m + 2 \in Nat /\ (n + m + 2) + u + 1 = n + m + u + 3
        /\ n + m + u + 3 <= n + m + u + 7 /\ (n + m + 2) + 1 = n + m + 3
    BY ONLY n \in Nat, m \in Nat, u \in Nat
  <2>2. (n + m + 2) + u + 1 <= Len(f) /\ f[(n + m + 2) + u + 1] \in Separator
    BY <1>4, <1>8, <2>1 DEF Separator
  <2>3. FieldAt(f, (n + m + 2) + 1) = r.userID
    BY ONLY f \in Text, u \in Nat, <1>1, <1>4, <1>5, <2>1, <2>2, PlainField, Zenon
  <2> QED BY <2>1, <2>3
<1>12. RecordAt(f, 1) = r
  <2>1. r = [name |-> r.name, password |-> r.password, userID |-> r.userID]
    BY DEF Record
  <2> QED BY <1>9, <1>10, <1>11, <2>1 DEF RecordAt
<1>13. Starts(f) = {1}
  <2>1. ASSUME NEW k \in 1..(n + m + u + 6) PROVE f[k] # Newline
    <3>1. CASE k \in (0 + 1)..(0 + n)
      <4>1. f[k] = r.name[k - 0] /\ k - 0 \in 1..n
        BY ONLY 0 \in Nat, n \in Nat, <1>1, <1>4, <1>5, <3>1, HoldsAt
      <4> QED BY <1>1, <1>5, <4>1 DEF Plain, Separator
    <3>2. CASE k = n + 1
      BY <1>6, <3>2, FileAssumption
    <3>3. CASE k \in ((n + 1) + 1)..((n + 1) + m)
      <4>1. n + 1 \in Nat
        OBVIOUS
      <4>2. f[k] = r.password[k - (n + 1)] /\ k - (n + 1) \in 1..m
        <5>1. \A j \in ((n + 1) + 1)..((n + 1) + Len(r.password)) :
                j - (n + 1) \in 1..Len(r.password) /\ f[j] = r.password[j - (n + 1)]
          BY <1>4, <1>5, <4>1, HoldsAt, Zenon
        <5> QED BY <1>1, <3>3, <5>1
      <4> QED BY <1>1, <1>5, <4>2 DEF Plain, Separator
    <3>4. CASE k = n + m + 2
      BY <1>7, <3>4, FileAssumption
    <3>5. CASE k \in ((n + m + 2) + 1)..((n + m + 2) + u)
      <4>1. n + m + 2 \in Nat
        OBVIOUS
      <4>2. f[k] = r.userID[k - (n + m + 2)] /\ k - (n + m + 2) \in 1..u
        <5>1. \A j \in ((n + m + 2) + 1)..((n + m + 2) + Len(r.userID)) :
                j - (n + m + 2) \in 1..Len(r.userID) /\ f[j] = r.userID[j - (n + m + 2)]
          BY <1>4, <1>5, <4>1, HoldsAt, Zenon
        <5> QED BY <1>1, <3>5, <5>1
      <4> QED BY <1>1, <1>5, <4>2 DEF Plain, Separator
    <3>6. CASE k \in ((n + m + u + 2) + 1)..((n + m + u + 2) + 4)
      <4>1. n + m + u + 2 \in Nat /\ k \in ((n + m + u + 2) + 1)..((n + m + u + 2) + 5)
            /\ k - (n + m + u + 2) \in 1..4
        BY ONLY n \in Nat, m \in Nat, u \in Nat, <3>6
      <4>2. f[k] = Rest[k - (n + m + u + 2)]
        <5>1. \A j \in ((n + m + u + 2) + 1)..((n + m + u + 2) + Len(Rest)) :
                j - (n + m + u + 2) \in 1..Len(Rest) /\ f[j] = Rest[j - (n + m + u + 2)]
          BY <1>4, <4>1, Tokens, HoldsAt, Zenon
        <5> QED BY <4>1, <5>1, Tokens
      <4>3. \A j \in 1..4 : Rest[j] # Newline
        BY Tokens, FileAssumption DEF Separator
      <4> QED BY <4>1, <4>2, <4>3
    <3>7. \/ k \in (0 + 1)..(0 + n) \/ k = n + 1 \/ k \in ((n + 1) + 1)..((n + 1) + m)
          \/ k = n + m + 2 \/ k \in ((n + m + 2) + 1)..((n + m + 2) + u)
          \/ k \in ((n + m + u + 2) + 1)..((n + m + u + 2) + 4)
      BY ONLY n \in Nat, m \in Nat, u \in Nat, k \in 1..(n + m + u + 6)
    <3> QED BY <3>1, <3>2, <3>3, <3>4, <3>5, <3>6, <3>7
  <2>2. ASSUME NEW i \in Starts(f) PROVE i = 1
    <3>1. i \in 1..(n + m + u + 7) /\ (i = 1 \/ f[i - 1] = Newline)
      BY <1>4 DEF Starts
    <3>2. i # 1 => i - 1 \in 1..(n + m + u + 6)
      BY ONLY n \in Nat, m \in Nat, u \in Nat, <3>1
    <3> QED BY <2>1, <3>1, <3>2
  <2>3. 1 \in Starts(f)
    <3>1. 1 \in 1..(n + m + u + 7)
      BY ONLY n \in Nat, m \in Nat, u \in Nat
    <3> QED BY <1>4, <3>1 DEF Starts
  <2> QED BY <2>2, <2>3
<1> QED BY <1>3, <1>12, <1>13 DEF Records

-----------------------------------------------------------------------------
(* What is loaded. *)

LEMMA LoadsUsers ==
  ASSUME NEW f \in Text
  PROVE  /\ LoadedUsers(f) = [name \in DOMAIN LoadedUsers(f) |-> LoadedUsers(f)[name]]
         /\ DOMAIN LoadedUsers(f) = {r.name : r \in Records(f)}
         /\ \A name \in DOMAIN LoadedUsers(f) :
              /\ LoadedUsers(f)[name] \in Records(f)
              /\ LoadedUsers(f)[name].name = name
<1>1. DOMAIN LoadedUsers(f) = {r.name : r \in Records(f)}
  BY DEF LoadedUsers
<1>2. ASSUME NEW name \in DOMAIN LoadedUsers(f)
      PROVE  LoadedUsers(f)[name] \in Records(f) /\ LoadedUsers(f)[name].name = name
  <2>1. LoadedUsers(f)[name] = RecordAt(f, Last(Named(f, name)))
    BY <1>1 DEF LoadedUsers
  <2>2. Named(f, name) # {} /\ Named(f, name) \subseteq 1..Len(f) /\ Len(f) \in Nat
    <3>1. PICK i \in Starts(f) : RecordAt(f, i).name = name
      BY <1>1 DEF Records
    <3> QED BY <3>1, LenProperties DEF Named, Starts, Text
  <2>3. Last(Named(f, name)) \in Named(f, name)
    BY <2>2, LastLine
  <2> QED BY <2>1, <2>3 DEF Named, Records
<1>3. LoadedUsers(f) = [name \in DOMAIN LoadedUsers(f) |-> LoadedUsers(f)[name]]
  BY DEF LoadedUsers
<1> QED BY <1>1, <1>2, <1>3

LEMMA LoadsIDs ==
  ASSUME NEW f \in Text
  PROVE  /\ LoadedIDs(f) = [u \in DOMAIN LoadedIDs(f) |-> LoadedIDs(f)[u]]
         /\ DOMAIN LoadedIDs(f) = {r.userID : r \in Records(f)}
         /\ \A u \in DOMAIN LoadedIDs(f) :
              \E x \in Records(f) : x.userID = u /\ LoadedIDs(f)[u] = x.name
<1>1. DOMAIN LoadedIDs(f) = {r.userID : r \in Records(f)}
  BY DEF LoadedIDs
<1>2. ASSUME NEW u \in DOMAIN LoadedIDs(f)
      PROVE  \E x \in Records(f) : x.userID = u /\ LoadedIDs(f)[u] = x.name
  <2>1. LoadedIDs(f)[u] = RecordAt(f, Last(WithID(f, u))).name
    BY <1>1 DEF LoadedIDs
  <2>2. WithID(f, u) # {} /\ WithID(f, u) \subseteq 1..Len(f) /\ Len(f) \in Nat
    <3>1. PICK i \in Starts(f) : RecordAt(f, i).userID = u
      BY <1>1 DEF Records
    <3> QED BY <3>1, LenProperties DEF WithID, Starts, Text
  <2>3. Last(WithID(f, u)) \in WithID(f, u)
    BY <2>2, LastLine
  <2> QED BY <2>1, <2>3 DEF WithID, Records
<1>3. LoadedIDs(f) = [u \in DOMAIN LoadedIDs(f) |-> LoadedIDs(f)[u]]
  BY DEF LoadedIDs
<1> QED BY <1>1, <1>2, <1>3

(* The user IDs of two names differ.                                        *)
LEMMA IDsDiffer ==
  ASSUME NEW s \in Text, NEW t \in Text, NEW x \in Char, NEW y \in Char,
         createUserID(s, x) = createUserID(t, y)
  PROVE  s = t
<1>1. PICK mark \in Text : mark = <<Mark>>
  <2>1. Mark \in Char
    BY FileAssumption
  <2>2. <<Mark>> \in Text
    BY <2>1 DEF Text
  <2> QED BY <2>2
<1>2. Len(mark) = 1
  BY <1>1
<1>3. ASSUME NEW n \in Text, NEW p \in Char
      PROVE  /\ Len(createUserID(n, p)) = 1 + Len(n) + 1
             /\ Holds(createUserID(n, p), 1, n)
  <2>1. PICK end \in Text : end = <<p>>
    <3>1. <<p>> \in Text
      BY DEF Text
    <3> QED BY <3>1
  <2>2. Len(end) = 1
    BY <2>1
  <2>3. PICK first : first = mark \o n
    OBVIOUS
  <2>4. first \in Text /\ Len(first) = 1 + Len(n) /\ Holds(first, 1, n)
    BY <1>2, <2>3, HoldsSecond
  <2>5. createUserID(n, p) = first \o end
    BY <1>1, <2>1, <2>3 DEF createUserID
  <2>6. Len(n) \in Nat
    BY LenProperties DEF Text
  <2>7. Len(first \o end) = 1 + Len(n) + 1
    <3>1. Len(first \o end) = Len(first) + Len(end)
      BY <2>4, HoldsSecond
    <3> QED BY ONLY <2>2, <2>4, <3>1
  <2>8. Holds(first \o end, 1, n)
    <3>1. 1 + Len(n) <= Len(first)
      BY <2>4, <2>6
    <3> QED BY <2>4, <3>1, HoldsFirst
  <2> QED BY <2>5, <2>7, <2>8
<1>4. Len(s) = Len(t)
  <2>1. Len(s) \in Nat /\ Len(t) \in Nat
    BY LenProperties DEF Text
  <2>2. 1 + Len(s) + 1 = 1 + Len(t) + 1
    BY <1>3
  <2> QED BY <2>1, <2>2
<1>5. \A k \in 1..Len(s) : s[k] = t[k]
  BY <1>3, <1>4 DEF Holds
<1> QED BY <1>4, <1>5, SeqEqual DEF Text

(* What registration makes is an account, and its line is read as it.       *)
LEMMA MadeAccounts ==
  ASSUME NEW r \in Accounts
  PROVE  /\ r \in Record
         /\ \E name \in Name, prefix \in HashPrefix :
              r.name = name /\ r.userID = createUserID(name, prefix)
         /\ Plain(r.name) => Records(Line(r)) = {r}
<1>1. PICK name \in Name, hash \in Hash, prefix \in HashPrefix : r = Account(name, hash, prefix)
  BY DEF Accounts
<1>2. /\ name \in Text /\ hash \in Char /\ prefix \in Char /\ Mark \in Char
      /\ hash \notin Separator /\ prefix \notin Separator /\ Mark \notin Separator
  BY FileAssumption DEF Text
<1>3. /\ r.name = name /\ r.password = <<hash>> /\ r.userID = createUserID(name, prefix)
      /\ r = [name |-> name, password |-> <<hash>>, userID |-> createUserID(name, prefix)]
  BY <1>1 DEF Account
<1>4. <<hash>> \in Text /\ <<prefix>> \in Text /\ <<Mark>> \in Text
  BY <1>2 DEF Text
<1>5. Plain(<<hash>>) /\ Plain(<<prefix>>) /\ Plain(<<Mark>>)
  BY <1>2 DEF Plain
<1>6. ASSUME NEW s \in Text, NEW t \in Text
      PROVE  s \o t \in Text /\ (Plain(s) /\ Plain(t) => Plain(s \o t))
  <2>1. /\ Len(s) \in Nat /\ Len(t) \in Nat /\ s \o t \in Text
        /\ Len(s \o t) = Len(s) + Len(t)
        /\ \A k \in 1..(Len(s) + Len(t)) :
             (s \o t)[k] = IF k <= Len(s) THEN s[k] ELSE t[k - Len(s)]
    BY LenProperties, ConcatProperties DEF Text
  <2>2. ASSUME Plain(s), Plain(t), NEW k \in 1..(Len(s) + Len(t))
        PROVE  (s \o t)[k] \notin Separator
    <3>1. CASE k <= Len(s)
      BY <2>1, <2>2, <3>1 DEF Plain
    <3>2. CASE ~ (k <= Len(s))
      <4>1. k - Len(s) \in 1..Len(t)
        BY <2>1, <3>2
      <4> QED BY <2>1, <2>2, <3>2, <4>1 DEF Plain
    <3> QED BY <3>1, <3>2
  <2> QED BY <2>1, <2>2 DEF Plain
<1>7. /\ createUserID(name, prefix) \in Text
      /\ Plain(name) => Plain(createUserID(name, prefix))
  BY <1>2, <1>4, <1>5, <1>6 DEF createUserID
<1>8. r \in Record
  BY <1>2, <1>3, <1>4, <1>7 DEF Record
<1>9. Plain(r.name) => PlainRecord(r)
  BY <1>3, <1>5, <1>7 DEF PlainRecord
<1> QED BY <1>3, <1>8, <1>9, PlainLine

(* Accounts with the same user ID have the same name.                       *)
LEMMA OneNameOneID ==
  ASSUME NEW x \in Accounts, NEW y \in Accounts, x.userID = y.userID
  PROVE  x.name = y.name
<1>1. PICK s \in Name, p \in HashPrefix : x.name = s /\ x.userID = createUserID(s, p)
  BY MadeAccounts
<1>2. PICK t \in Name, q \in HashPrefix : y.name = t /\ y.userID = createUserID(t, q)
  BY MadeAccounts
<1>3. s \in Text /\ t \in Text /\ p \in Char /\ q \in Char
  BY FileAssumption DEF Text
<1>4. createUserID(s, p) = createUserID(t, q)
  BY <1>1, <1>2
<1>5. s = t
  BY <1>3, <1>4, IDsDiffer
<1> QED BY <1>1, <1>2, <1>5

-----------------------------------------------------------------------------
(* The inductive invariant. *)

\* The registration under way is of an account that is not there yet.
Requested ==
  phase = "registering" => request \in Accounts /\ request.name \notin DOMAIN users

\* Only a save has names to write out.
Saving == phase # "saving" => unwritten = {}

PlainMade == {r \in made : Plain(r.name)}

\* What is known, in memory and on disk, was registered, or is what a line of
\* a name with separators was read as.
Known ==
  /\ \A name \in DOMAIN users : users[name] \in made \cup Garbled
  /\ Records(db) \subseteq PlainMade \cup Garbled

UnharmedOnce ==
  \A r \in made, s \in made : Unharmed(r.name) /\ s.name = r.name => s = r

InMemory ==
  \A r \in made : Unharmed(r.name) =>
    /\ r.name \in DOMAIN users /\ users[r.name] = r
    /\ (\A x \in Garbled : x.userID # r.userID) =>
         r.userID \in DOMAIN userIDMap /\ userIDMap[r.userID] = r.name

\* While the process is down only the file knows the accounts; while it saves,
\* what it need not write any more is in the file.
OnDisk ==
  \A r \in made : Unharmed(r.name) =>
    /\ phase = "down" => r \in Records(db)
    /\ phase = "saving" => r.name \in unwritten \/ r \in Records(db)

Kept ==
  Orderly =>
    /\ Whole(db) /\ Known /\ UnharmedOnce /\ OnDisk
    /\ phase # "down" => InMemory

LifeInv == LifeTypeOK /\ LoadedMapsLinked /\ Requested /\ Saving /\ Kept

LEMMA NothingRead == Records(<<>>) = {}
BY DEF Records, Starts

LEMMA LifeInitially == LifeInit => LifeInv
<1> SUFFICES ASSUME LifeInit PROVE LifeInv
  OBVIOUS
<1>1. LifeTypeOK
  BY LifeAssumption, EmptySeq DEF LifeInit, LifeTypeOK, NoEntries, Phase, Text, NoRequest
<1>2. Kept
  BY NothingRead
     DEF LifeInit, Kept, Whole, Known, UnharmedOnce, OnDisk, NoEntries, PlainMade
<1> QED BY <1>1, <1>2 DEF LifeInit, LifeInv, LoadedMapsLinked, Requested, Saving

(* What the line of an account that is known is read as is known.           *)
LEMMA KnownLines ==
  ASSUME made \subseteq Accounts, NEW x \in made \cup Garbled
  PROVE  x \in Record /\ Records(Line(x)) \subseteq PlainMade \cup Garbled
<1>1. ASSUME NEW m \in made, ~ Plain(m.name), NEW y \in Records(Line(m))
      PROVE  y \in Garbled
  BY <1>1 DEF Garbled
<1>2. CASE x \in made
  <2>1. x \in Record
    BY <1>2, MadeAccounts
  <2>2. CASE Plain(x.name)
    BY <1>2, <2>1, <2>2, MadeAccounts DEF PlainMade
  <2>3. CASE ~ Plain(x.name)
    BY <1>1, <1>2, <2>1, <2>3
  <2> QED BY <2>2, <2>3
<1>3. CASE x \in Garbled
  <2>1. PICK m \in made : ~ Plain(m.name) /\ x \in Records(Line(m))
    BY <1>3 DEF Garbled
  <2>2. m \in Record
    BY <2>1, MadeAccounts
  <2>3. Line(m) \in Text
    BY <2>2, LinesAreWhole
  <2>4. x \in Record /\ PlainRecord(x)
    BY <2>1, <2>3, RecordsArePlain
  <2> QED BY <1>3, <2>4, PlainLine
<1> QED BY <1>2, <1>3

(* What is loaded is linked, whatever the text.                             *)
LEMMA StartLinks ==
  ASSUME LifeTypeOK, Saving, Start
  PROVE  LifeTypeOK' /\ LoadedMapsLinked'
<1>1. PICK f \in Text : f = db
  BY DEF LifeTypeOK
<1>2. users' = LoadedUsers(f) /\ userIDMap' = LoadedIDs(f)
  BY <1>1 DEF Start
<1>3. \A x \in Records(f) : x.name \in Text /\ x.userID \in Text /\ x \in Record
  BY RecordsArePlain DEF Record
<1>4. /\ users' = [name \in DOMAIN users' |-> users'[name]]
      /\ DOMAIN users' = {r.name : r \in Records(f)}
      /\ \A name \in DOMAIN users' : users'[name] \in Records(f) /\ users'[name].name = name
  BY <1>2, LoadsUsers
<1>5. /\ userIDMap' = [u \in DOMAIN userIDMap' |-> userIDMap'[u]]
      /\ DOMAIN userIDMap' = {r.userID : r \in Records(f)}
      /\ \A u \in DOMAIN userIDMap' :
           \E x \in Records(f) : x.userID = u /\ userIDMap'[u] = x.name
  BY <1>2, LoadsIDs
<1>6. LoadedMapsLinked'
  BY <1>4, <1>5 DEF LoadedMapsLinked
<1>7. \A name \in DOMAIN users' : name \in Text /\ users'[name] \in Record
  BY <1>3, <1>4
<1>8. \A u \in DOMAIN userIDMap' : u \in Text /\ userIDMap'[u] \in Text
  BY <1>3, <1>5
<1>9. /\ phase' = "running" /\ phase = "down"
      /\ UNCHANGED <<db, unwritten, request, made, abrupt>>
  BY DEF Start
<1> QED BY <1>4, <1>5, <1>6, <1>7, <1>8, <1>9 DEF LifeTypeOK, Phase, Saving

(* The accounts a start finds in a file that was written to the end.        *)
LEMMA StartKeeps ==
  ASSUME LifeInv, Start
  PROVE  Kept'
<1> SUFFICES ASSUME Orderly PROVE Kept'
  BY DEF Start, Kept, Orderly
<1>1. /\ made \subseteq Accounts /\ db \in Text
      /\ Whole(db) /\ Known /\ UnharmedOnce
      /\ \A r \in made : Unharmed(r.name) => r \in Records(db)
  BY DEF LifeInv, LifeTypeOK, Kept, OnDisk, Start
<1>2. /\ users' = LoadedUsers(db) /\ userIDMap' = LoadedIDs(db)
      /\ db' = db /\ made' = made /\ abrupt' = abrupt /\ phase' = "running"
  BY DEF Start
<1>3. Garbled' = Garbled /\ PlainMade' = PlainMade /\ Records(db') = Records(db)
  BY <1>2 DEF Garbled, PlainMade
<1>4. \A name : Unharmed(name)' <=> Unharmed(name)
  BY <1>3 DEF Unharmed
<1>5. /\ DOMAIN users' = {r.name : r \in Records(db)}
      /\ \A name \in DOMAIN users' : users'[name] \in Records(db) /\ users'[name].name = name
  BY <1>1, <1>2, LoadsUsers
<1>6. /\ DOMAIN userIDMap' = {r.userID : r \in Records(db)}
      /\ \A u \in DOMAIN userIDMap' :
           \E x \in Records(db) : x.userID = u /\ userIDMap'[u] = x.name
  BY <1>1, <1>2, LoadsIDs
<1>7. Records(db) \subseteq PlainMade \cup Garbled
  BY <1>1 DEF Known
<1>8. Known'
  BY <1>2, <1>3, <1>5, <1>7 DEF Known, PlainMade
<1>9. ASSUME NEW r \in made, Unharmed(r.name)
      PROVE  /\ r.name \in DOMAIN users' /\ users'[r.name] = r
             /\ (\A x \in Garbled : x.userID # r.userID) =>
                  r.userID \in DOMAIN userIDMap' /\ userIDMap'[r.userID] = r.name
  <2>1. r \in Records(db)
    BY <1>1, <1>9
  <2>2. r.name \in DOMAIN users' /\ r.userID \in DOMAIN userIDMap'
    BY <1>5, <1>6, <2>1
  <2>3. users'[r.name] = r
    <3>1. users'[r.name] \in PlainMade \cup Garbled /\ users'[r.name].name = r.name
      BY <1>5, <1>7, <2>2
    <3>2. users'[r.name] \in PlainMade
      BY <1>9, <3>1 DEF Unharmed
    <3> QED BY <1>1, <1>9, <3>1, <3>2 DEF UnharmedOnce, PlainMade
  <2>4. ASSUME \A x \in Garbled : x.userID # r.userID
        PROVE  userIDMap'[r.userID] = r.name
    <3>1. PICK x \in Records(db) : x.userID = r.userID /\ userIDMap'[r.userID] = x.name
      BY <1>6, <2>2
    <3>2. x \in made
      BY <1>7, <2>4, <3>1 DEF PlainMade
    <3>3. x \in Accounts /\ r \in Accounts
      BY <1>1, <3>2
    <3> QED BY <3>1, <3>3, OneNameOneID
  <2> QED BY <2>2, <2>3, <2>4
<1>10. InMemory'
  BY <1>2, <1>3, <1>4, <1>9 DEF InMemory
<1>11. UnharmedOnce'
  BY <1>1, <1>2, <1>4 DEF UnharmedOnce
<1>12. OnDisk'
  BY <1>2 DEF OnDisk
<1>13. Whole(db)'
  BY <1>1, <1>2 DEF Whole
<1> QED BY <1>8, <1>10, <1>11, <1>12, <1>13 DEF Kept

(* A new account takes nobody's name and nobody's ID.                       *)
LEMMA EndRegisterKeeps ==
  ASSUME LifeInv, EndRegister
  PROVE  LifeInv'
<1> DEFINE a == request
<1>1. /\ a \in Accounts /\ a.name \notin DOMAIN users /\ phase = "registering"
      /\ users' = Put(users, a.name, a)
      /\ userIDMap' = Put(userIDMap, a.userID, a.name)
      /\ made' = made \cup {a} /\ phase' = "running" /\ request' = NoRequest
      /\ db' = db /\ unwritten' = unwritten /\ abrupt' = abrupt
  BY DEF EndRegister, LifeInv, Requested
<1>2. a \in Record /\ a.name \in Text /\ a.userID \in Text
  <2>1. a \in Record
    BY <1>1, MadeAccounts
  <2> QED BY <2>1 DEF Record
<1>3. /\ DOMAIN users' = DOMAIN users \cup {a.name} /\ users'[a.name] = a
      /\ users' = [name \in DOMAIN users' |-> users'[name]]
      /\ \A name \in DOMAIN users : users'[name] = users[name]
  BY <1>1 DEF Put
<1>4. /\ DOMAIN userIDMap' = DOMAIN userIDMap \cup {a.userID}
      /\ userIDMap' = [u \in DOMAIN userIDMap' |-> userIDMap'[u]]
      /\ userIDMap'[a.userID] = a.name
      /\ \A u \in DOMAIN userIDMap : u # a.userID => userIDMap'[u] = userIDMap[u]
  BY <1>1 DEF Put
<1> HIDE DEF a
<1>5. LifeTypeOK'
  <2>1. \A name \in DOMAIN users' : name \in Text /\ users'[name] \in Record
    BY <1>2, <1>3 DEF LifeInv, LifeTypeOK
  <2>2. \A u \in DOMAIN userIDMap' : u \in Text /\ userIDMap'[u] \in Text
    BY <1>2, <1>4 DEF LifeInv, LifeTypeOK
  <2>3. unwritten' \subseteq DOMAIN users' /\ made' \subseteq Accounts /\ phase' \in Phase
    BY <1>1, <1>3 DEF LifeInv, LifeTypeOK, Phase
  <2> QED BY <1>1, <1>3, <1>4, <2>1, <2>2, <2>3 DEF LifeInv, LifeTypeOK
<1>6. LoadedMapsLinked'
  <2>1. /\ \A name \in DOMAIN users : /\ users[name].name = name
                                      /\ users[name].userID \in DOMAIN userIDMap
        /\ \A u \in DOMAIN userIDMap : userIDMap[u] \in DOMAIN users
    BY <1>1 DEF LifeInv, LoadedMapsLinked
  <2>2. \A name \in DOMAIN users' : users'[name].name = name
                                    /\ users'[name].userID \in DOMAIN userIDMap'
    BY <1>3, <1>4, <2>1
  <2>3. \A u \in DOMAIN userIDMap' : userIDMap'[u] \in DOMAIN users'
    BY <1>3, <1>4, <2>1
  <2> QED BY <2>2, <2>3 DEF LoadedMapsLinked
<1>7. Requested' /\ Saving'
  BY <1>1 DEF Requested, Saving, LifeInv
<1>8. Kept'
  <2> SUFFICES ASSUME Orderly PROVE Kept'
    BY <1>1 DEF Kept, Orderly
  <2>1. /\ made \subseteq Accounts /\ Whole(db) /\ Known /\ UnharmedOnce /\ InMemory
    BY <1>1 DEF LifeInv, LifeTypeOK, Kept
  <2>2. Garbled \subseteq Garbled' /\ PlainMade \subseteq PlainMade'
    BY <1>1 DEF Garbled, PlainMade
  <2>3. \A name : Unharmed(name)' => Unharmed(name)
    BY <2>2 DEF Unharmed
  <2>4. Known'
    <3>1. \A name \in DOMAIN users' : users'[name] \in made' \cup Garbled'
      BY <1>1, <1>3, <2>1, <2>2 DEF Known
    <3>2. Records(db') \subseteq PlainMade' \cup Garbled'
      BY <1>1, <2>1, <2>2 DEF Known
    <3> QED BY <3>1, <3>2 DEF Known
  <2>5. UnharmedOnce'
    <3>1. ASSUME NEW r \in made', NEW s \in made', Unharmed(r.name)', s.name = r.name
          PROVE  s = r
      <4>1. Unharmed(r.name)
        BY <2>3, <3>1
      <4>2. CASE r \in made /\ s \in made
        BY <2>1, <3>1, <4>1, <4>2 DEF UnharmedOnce
      <4>3. CASE r \in made /\ s = a
        BY <1>1, <2>1, <3>1, <4>1, <4>3 DEF InMemory
      <4>4. CASE r = a /\ s \in made
        BY <1>1, <2>1, <3>1, <4>1, <4>4 DEF InMemory
      <4> QED BY <1>1, <4>2, <4>3, <4>4
    <3> QED BY <3>1 DEF UnharmedOnce
  <2>6. InMemory'
    <3>1. ASSUME NEW r \in made', Unharmed(r.name)'
          PROVE  /\ r.name \in DOMAIN users' /\ users'[r.name] = r
                 /\ (\A x \in Garbled' : x.userID # r.userID) =>
                      r.userID \in DOMAIN userIDMap' /\ userIDMap'[r.userID] = r.name
      <4>1. CASE r = a
        BY <1>3, <1>4, <4>1
      <4>2. CASE r \in made
        <5>1. Unharmed(r.name)
          BY <2>3, <3>1
        <5>2. /\ r.name \in DOMAIN users /\ users[r.name] = r
              /\ (\A x \in Garbled' : x.userID # r.userID) =>
                   r.userID \in DOMAIN userIDMap /\ userIDMap[r.userID] = r.name
          BY <2>1, <2>2, <4>2, <5>1 DEF InMemory
        <5>3. r.userID = a.userID => r.name = a.name
          <6>1. r \in Accounts /\ a \in Accounts
            BY <1>1, <2>1, <4>2
          <6> QED BY <6>1, OneNameOneID
        <5> QED BY <1>3, <1>4, <5>2, <5>3
      <4> QED BY <1>1, <4>1, <4>2
    <3> QED BY <3>1 DEF InMemory
  <2>7. OnDisk'
    BY <1>1 DEF OnDisk
  <2>8. Whole(db)'
    BY <1>1, <2>1 DEF Whole
  <2> QED BY <2>4, <2>5, <2>6, <2>7, <2>8 DEF Kept
<1> QED BY <1>5, <1>6, <1>7, <1>8 DEF LifeInv

(* A line more in the file.                                                 *)
LEMMA WriteLineKeeps ==
  ASSUME LifeInv, NEW name \in unwritten, WriteLine(name)
  PROVE  LifeInv'
<1>1. /\ phase = "saving" /\ db' = db \o Line(users[name])
      /\ unwritten' = unwritten \ {name}
      /\ users' = users /\ userIDMap' = userIDMap /\ phase' = phase /\ request' = request
      /\ made' = made /\ abrupt' = abrupt
  BY DEF WriteLine
<1>2. /\ db \in Text /\ made \subseteq Accounts /\ unwritten \subseteq DOMAIN users
      /\ users[name] \in Record
  BY DEF LifeInv, LifeTypeOK
<1>3. Line(users[name]) \in Text /\ Line(users[name]) # <<>> /\ Whole(Line(users[name]))
  BY <1>2, LinesAreWhole
<1>4. db' \in Text
  BY <1>1, <1>2, <1>3, HoldsSecond
<1>5. LifeTypeOK' /\ LoadedMapsLinked' /\ Requested' /\ Saving'
  BY <1>1, <1>4 DEF LifeInv, LifeTypeOK, LoadedMapsLinked, Requested, Saving
<1>6. Kept'
  <2> SUFFICES ASSUME Orderly PROVE Kept'
    BY <1>1 DEF Kept, Orderly
  <2>1. Whole(db) /\ Known /\ UnharmedOnce /\ OnDisk /\ InMemory
    BY <1>1 DEF LifeInv, Kept
  <2>2. Garbled' = Garbled /\ PlainMade' = PlainMade
    BY <1>1 DEF Garbled, PlainMade
  <2>3. \A n : Unharmed(n)' <=> Unharmed(n)
    BY <2>2 DEF Unharmed
  <2>4. Records(db') = Records(db) \cup Records(Line(users[name]))
    BY <1>1, <1>2, <1>3, <2>1, RecordsOfBoth
  <2>5. users[name] \in made \cup Garbled
    BY <1>2, <2>1 DEF Known
  <2>6. Records(Line(users[name])) \subseteq PlainMade \cup Garbled
    BY <1>2, <2>5, KnownLines
  <2>7. Known'
    BY <1>1, <2>1, <2>2, <2>4, <2>6 DEF Known
  <2>8. InMemory' /\ UnharmedOnce'
    BY <1>1, <2>1, <2>2, <2>3 DEF InMemory, UnharmedOnce
  <2>9. OnDisk'
    <3>1. ASSUME NEW r \in made, Unharmed(r.name)
          PROVE  r.name \in unwritten' \/ r \in Records(db')
      <4>1. CASE r.name = name
        <5>1. users[name] = r /\ Plain(r.name)
          BY <2>1, <3>1, <4>1 DEF InMemory, Unharmed
        <5>2. r \in Records(Line(users[name]))
          BY <1>2, <5>1, MadeAccounts
        <5> QED BY <2>4, <5>2
      <4>2. CASE r.name # name
        <5>1. r.name \in unwritten \/ r \in Records(db)
          BY <1>1, <2>1, <3>1 DEF OnDisk
        <5> QED BY <1>1, <2>4, <4>2, <5>1
      <4> QED BY <4>1, <4>2
    <3> QED BY <1>1, <2>3, <3>1 DEF OnDisk
  <2>10. Whole(db)'
    BY <1>1, <1>2, <1>3, WholeTexts DEF Whole
  <2> QED BY <2>1, <2>7, <2>8, <2>9, <2>10 DEF Kept
<1> QED BY <1>5, <1>6 DEF LifeInv

(* The steps that leave the accounts in memory and on disk alone.           *)
LEMMA StoresStay ==
  ASSUME LifeInv, UNCHANGED <<users, userIDMap, db, unwritten, made, abrupt>>,
         phase # "down", phase # "saving", phase' \in {"registering", "hung", phase},
         request' \in Accounts \cup {NoRequest}, Requested'
  PROVE  LifeInv'
<1>1. LifeTypeOK' /\ LoadedMapsLinked' /\ Saving'
  BY DEF LifeInv, LifeTypeOK, LoadedMapsLinked, Saving, Phase
<1>2. \A n : Unharmed(n)' <=> Unharmed(n)
  BY DEF Unharmed, Garbled
<1>3. Orderly' => Orderly
  BY DEF Orderly
<1>4. Kept'
  BY <1>2, <1>3
     DEF LifeInv, Kept, Known, UnharmedOnce, InMemory, OnDisk, PlainMade, Garbled, Whole
<1> QED BY <1>1, <1>4 DEF LifeInv

(* With the process goes its memory; what is left is the file.              *)
LEMMA GoneLeaves ==
  ASSUME LifeInv, Gone, db' \in Text, abrupt' \in 0..MaxAbrupt, Kept'
  PROVE  LifeInv'
<1>1. LifeTypeOK'
  BY DEF LifeInv, LifeTypeOK, Gone, NoEntries, Phase
<1>2. LoadedMapsLinked' /\ Requested' /\ Saving'
  BY DEF LoadedMapsLinked, Requested, Saving, Gone
<1> QED BY <1>1, <1>2 DEF LifeInv

(* What is cut short is a text still, and the end not an orderly one.       *)
LEMMA AbruptEnds ==
  ASSUME LifeInv, GoneAbruptly, UNCHANGED db \/ CutShort
  PROVE  LifeInv'
<1>1. abrupt' \in 0..MaxAbrupt /\ abrupt' # 0
  BY LifeAssumption DEF GoneAbruptly, LifeInv, LifeTypeOK
<1>2. Kept'
  BY <1>1 DEF Kept, Orderly
<1>3. db' \in Text
  <2>1. CASE UNCHANGED db
    BY <2>1 DEF LifeInv, LifeTypeOK
  <2>2. ASSUME NEW name \in unwritten, NEW n \in 1..Len(Line(users[name])),
               db' = db \o SubSeq(Line(users[name]), 1, n)
        PROVE  db' \in Text
    <3>1. db \in Text /\ users[name] \in Record
      BY DEF LifeInv, LifeTypeOK
    <3>2. Line(users[name]) \in Text
      BY <3>1, LinesAreWhole
    <3>3. \A k \in 1..n : Line(users[name])[k] \in Char
      <4>1. Len(Line(users[name])) \in Nat
        BY <3>2, LenProperties DEF Text
      <4>2. ASSUME NEW k \in 1..n PROVE k \in 1..Len(Line(users[name]))
        BY <4>1
      <4> QED BY <3>2, <4>2, ElementOfSeq DEF Text
    <3>4. SubSeq(Line(users[name]), 1, n) \in Text
      BY <3>3, SubSeqProperties DEF Text
    <3> QED BY <2>2, <3>1, <3>4, HoldsSecond
  <2> QED BY <2>1, <2>2 DEF CutShort
<1> QED BY <1>1, <1>2, <1>3, GoneLeaves DEF GoneAbruptly

LEMMA LifeStep ==
  ASSUME LifeInv, LifeNext
  PROVE  LifeInv'
<1>1. CASE Start
  <2>1. LifeTypeOK' /\ LoadedMapsLinked'
    BY <1>1, StartLinks DEF LifeInv
  <2>2. Requested' /\ Saving'
    BY <1>1 DEF Start, Requested, Saving, LifeInv
  <2> QED BY <1>1, <2>1, <2>2, StartKeeps DEF LifeInv
<1>2. ASSUME NEW name \in Name, NEW hash \in Hash, NEW prefix \in HashPrefix,
             BeginRegister(name, hash, prefix)
      PROVE  LifeInv'
  <2>1. request' \in Accounts /\ request'.name = name
    BY <1>2 DEF BeginRegister, Accounts, Account
  <2>2. Requested'
    BY <1>2, <2>1 DEF BeginRegister, Requested
  <2> QED BY <1>2, <2>1, <2>2, StoresStay DEF BeginRegister
<1>3. CASE EndRegister
  BY <1>3, EndRegisterKeeps
<1>4. ASSUME NEW name \in unwritten, WriteLine(name) PROVE LifeInv'
  BY <1>4, WriteLineKeeps
<1>5. CASE SignalWhenIdle
  <2>1. /\ phase = "running" /\ phase' = "saving" /\ db' = <<>> /\ unwritten' = DOMAIN users
        /\ UNCHANGED <<users, userIDMap, request, made, abrupt>>
    BY <1>5 DEF SignalWhenIdle
  <2>2. LifeTypeOK' /\ LoadedMapsLinked' /\ Requested' /\ Saving'
    BY <2>1, EmptySeq DEF LifeInv, LifeTypeOK, LoadedMapsLinked, Requested, Saving, Phase, Text
  <2>3. Kept'
    <3> SUFFICES ASSUME Orderly PROVE Kept'
      BY <2>1 DEF Kept, Orderly
    <3>1. Known /\ UnharmedOnce /\ InMemory
      BY <2>1 DEF LifeInv, Kept
    <3>2. \A n : Unharmed(n)' <=> Unharmed(n)
      BY <2>1 DEF Unharmed, Garbled
    <3>3. Known'
      BY <2>1, <3>1, NothingRead DEF Known, PlainMade, Garbled
    <3>4. UnharmedOnce' /\ InMemory' /\ OnDisk'
      BY <2>1, <3>1, <3>2 DEF UnharmedOnce, InMemory, OnDisk, Garbled
    <3> QED BY <2>1, <3>3, <3>4 DEF Kept, Whole
  <2> QED BY <2>2, <2>3 DEF LifeInv
<1>6. CASE SignalAndNoFile
  BY <1>6, AbruptEnds DEF SignalAndNoFile
<1>7. CASE SignalInRegister
  BY <1>7, StoresStay DEF SignalInRegister, Requested, LifeInv, LifeTypeOK
<1>8. CASE SaveEnds
  <2>1. /\ phase = "saving" /\ unwritten = {} /\ Gone /\ db' = db /\ abrupt' = abrupt
        /\ phase' = "down" /\ users' = NoEntries /\ made' = made
    BY <1>8 DEF SaveEnds, Gone
  <2>2. Kept'
    <3> SUFFICES ASSUME Orderly PROVE Kept'
      BY <2>1 DEF Kept, Orderly
    <3>1. Whole(db) /\ Known /\ UnharmedOnce /\ OnDisk
      BY <2>1 DEF LifeInv, Kept
    <3>2. \A n : Unharmed(n)' <=> Unharmed(n)
      BY <2>1 DEF Unharmed, Garbled
    <3>3. Known'
      BY <2>1, <3>1 DEF Known, PlainMade, Garbled, NoEntries
    <3>4. UnharmedOnce' /\ OnDisk'
      BY <2>1, <3>1, <3>2 DEF UnharmedOnce, OnDisk
    <3> QED BY <2>1, <3>1, <3>3, <3>4 DEF Kept, Whole
  <2>3. db' \in Text /\ abrupt' \in 0..MaxAbrupt
    BY <2>1 DEF LifeInv, LifeTypeOK
  <2> QED BY <2>1, <2>2, <2>3, GoneLeaves
<1>9. CASE SecondSignal
  BY <1>9, AbruptEnds DEF SecondSignal
<1>10. CASE Crash
  BY <1>10, AbruptEnds DEF Crash
<1> QED BY <1>1, <1>2, <1>3, <1>4, <1>5, <1>6, <1>7, <1>8, <1>9, <1>10 DEF LifeNext

LEMMA LifeInvariant == LifeSpec => []LifeInv
<1>1. LifeInv /\ [LifeNext]_lifeVars => LifeInv'
  <2>1. ASSUME LifeInv, UNCHANGED lifeVars PROVE LifeInv'
    <3>1. LifeTypeOK' /\ LoadedMapsLinked' /\ Requested' /\ Saving'
      BY <2>1 DEF lifeVars, LifeInv, LifeTypeOK, LoadedMapsLinked, Requested, Saving
    <3>2. \A n : Unharmed(n)' <=> Unharmed(n)
      BY <2>1 DEF lifeVars, Unharmed, Garbled
    <3>3. Kept'
      BY <2>1, <3>2 DEF lifeVars, LifeInv, Kept, Orderly, Known, UnharmedOnce, InMemory,
                        OnDisk, PlainMade, Garbled, Whole
    <3> QED BY <3>1, <3>3 DEF LifeInv
  <2> QED BY <2>1, LifeStep
<1> QED BY <1>1, LifeInitially, PTL DEF LifeSpec

-----------------------------------------------------------------------------
(* The store in memory, the file and the history of what was registered     *)
(* have their types at every point of the life of the process; in           *)
(* particular every account that was registered carries the ID of its name. *)
THEOREM LifeTyping == LifeSpec => []LifeTypeOK
<1>1. LifeInv => LifeTypeOK
  BY DEF LifeInv
<1> QED BY <1>1, LifeInvariant, PTL

(* While every run ends by a signal between two handlers, with a file that  *)
(* opens and is written to the end, no restart loses an account whose name  *)
(* neither holds a separator nor is spelled by a piece of a name that does. *)
THEOREM RestartsKeepAccounts == LifeSpec => []OrderlyRestartsKeepAccounts
<1>1. LifeInv => OrderlyRestartsKeepAccounts
  BY DEF LifeInv, Kept, InMemory, OrderlyRestartsKeepAccounts
<1> QED BY <1>1, LifeInvariant, PTL

(* However the process ended, however much of users.db was written and      *)
(* whatever the names in it, the two maps that the next start loads hang    *)
(* together.                                                                *)
THEOREM LoadedStoreIsLinked == LifeSpec => []LoadedMapsLinked
<1>1. LifeInv => LoadedMapsLinked
  BY DEF LifeInv
<1> QED BY <1>1, LifeInvariant, PTL

=============================================================================
