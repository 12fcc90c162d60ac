------------------------------ MODULE LzwUnpackProofs ------------------------------
(* The decoder's dictionary is sound for every stream and every table size; and what *)
(* the textbook packer packs, the decoder unpacks.                                 *)
EXTENDS LzwPack, RepetitionProofs, SequenceTheorems

\* Every defined code continues an earlier one, and none continues Clear or End.
DictionaryOK == \A c \in First..(nextCode - 1) : prefix[c] < c /\ prefix[c] \notin {Clear, End}

\* The latest code is defined.
OldOK == old < nextCode /\ old \notin {Clear, End}

\* The code being expanded is defined, or the next one to be.
CodeOK == phase \in {"expand", "emit"} =>
             /\ code \notin {Clear, End}
             /\ code < nextCode \/ (code = nextCode /\ old >= 0)

\* Every turn of the loop goes down at least one code.
DepthOK == phase = "expand" => cur \notin {Clear, End} /\ Len(st) + cur < nextCode

NonEmpty == phase = "emit" => st # <<>>

Inv == /\ TypeOK /\ DictionaryOK /\ OldOK /\ CodeOK /\ DepthOK /\ NonEmpty
       /\ NextCodeReadable /\ ExpandNeverFails

\* Codes that are not literals, Clear or End are in the dictionary's range.
LEMMA Sizes ==
    /\ Literals \in Nat \ {0} /\ MaxCodes \in Nat /\ First \in Nat /\ First < MaxCodes
    /\ Clear = Literals /\ End = Literals + 1 /\ First = Literals + 2
    /\ \A w \in Widths : w \in Nat /\ First < w /\ w <= MaxCodes
    /\ \A w \in Widths : w < MaxCodes => 2 * w \in Widths
    /\ FirstWidth \in Widths
BY SizesAssumption DEF First, Clear, End

\* The empty dictionary is sound.
LEMMA InitInv == ASSUME Init PROVE Inv
<1> USE DEF Init
<1>1. TypeOK
  <2>1. 0 \in Codes /\ First \in First..MaxCodes /\ stream \in Seq(Nat)
    BY Sizes, StreamsAssumption DEF Codes
  <2> QED
    BY <2>1, Sizes DEF TypeOK
<1>2. DictionaryOK /\ OldOK /\ NextCodeReadable
  BY Sizes DEF DictionaryOK, OldOK, NextCodeReadable
<1> QED
  BY <1>1, <1>2 DEF Inv, CodeOK, DepthOK, NonEmpty, ExpandNeverFails

\* The masked word is a code of the present width.
LEMMA WordType == ASSUME TypeOK, Available PROVE Word \in Nat /\ Word < growAt
<1>1. stream[pos] \in Nat
  BY DEF TypeOK, Available
<1>2. growAt \in Nat /\ growAt > 0
  BY Sizes DEF TypeOK
<1> QED
  BY <1>1, <1>2 DEF Word

\* Stopping changes nothing but the phase.
LEMMA StopInv == ASSUME Inv, NEW how \in Ended \ {"expandFailed"}, Stop(how) PROVE Inv'
BY DEF Inv, TypeOK, DictionaryOK, OldOK, CodeOK, DepthOK, NonEmpty, NextCodeReadable,
       ExpandNeverFails, Stop, dictionary, expansion, Ended

\* Starting an expansion of a defined code keeps the invariant.
LEMMA ExpandInv ==
    ASSUME Inv, NEW c \in Codes, NEW from \in Codes, NEW b \in BOOLEAN,
           phase = "read", Expand(c, from, b),
           c \notin {Clear, End}, from \notin {Clear, End}, from < nextCode,
           c < nextCode \/ (c = nextCode /\ old >= 0)
    PROVE  Inv'
<1> USE DEF Inv
<1>1. TypeOK'
  BY DEF TypeOK, Expand, dictionary
<1>2. (DictionaryOK /\ OldOK /\ NonEmpty /\ NextCodeReadable /\ ExpandNeverFails)'
  BY DEF DictionaryOK, OldOK, NonEmpty, NextCodeReadable, ExpandNeverFails, Expand, dictionary
<1>3. CodeOK'
  BY DEF CodeOK, Expand, dictionary
<1>4. DepthOK'
  <2>1. Len(st') = 0 /\ cur' = from /\ nextCode' = nextCode
    BY DEF Expand, dictionary
  <2>2. from \in Nat
    BY Sizes DEF Codes
  <2> QED
    BY <2>1, <2>2 DEF DepthOK
<1> QED
  BY <1>1, <1>2, <1>3, <1>4

\* The codes ReadString accepts are defined, or about to be.
LEMMA ReadStringInv == ASSUME Inv, ReadString PROVE Inv'
<1>0. /\ phase = "read" /\ Word \in Nat /\ Word \notin {Clear, End} /\ nextCode \in Nat
      /\ nextCode <= MaxCodes /\ Word < growAt /\ growAt <= MaxCodes
  BY WordType, Sizes DEF ReadString, Inv, TypeOK
<1>1. CASE Word < nextCode /\ Expand(Word, Word, FALSE)
  <2>2. Word \in Codes
    BY <1>0, <1>1, Sizes DEF Codes
  <2> QED
    BY <1>0, <1>1, <2>2, ExpandInv
<1>2. CASE Word = nextCode /\ old >= 0 /\ Expand(Word, old, TRUE)
  <2>2. Word \in Codes /\ old \in Codes
    BY <1>0, <1>2, Sizes DEF Codes, Inv, TypeOK
  <2> QED
    BY <1>0, <1>2, <2>2, ExpandInv DEF Inv, OldOK
<1>3. CASE Stop("badCode")
  BY <1>3, StopInv DEF Ended
<1> QED
  BY <1>1, <1>2, <1>3 DEF ReadString

\* A turn of the loop follows a prefix, which is a smaller code, so the guard of the
\* source is never taken.
LEMMA ExpandStepInv == ASSUME Inv, ExpandStep PROVE Inv'
<1> USE DEF Inv
<1>1. /\ phase = "expand" /\ cur \in Codes /\ cur >= Literals /\ cur < nextCode
      /\ nextCode \in Nat /\ nextCode <= MaxCodes /\ Len(st) \in Nat /\ cur \in Nat
  BY Sizes DEF ExpandStep, DepthOK, TypeOK, Codes
<1>2. Len(st) < MaxCodes /\ Len(st) + cur < nextCode /\ cur \notin {Clear, End}
  BY <1>1, Sizes DEF DepthOK
<1>3. cur \in First..(nextCode - 1)
  BY <1>1, <1>2, Sizes
<1>4. /\ st' = Append(st, suffix[cur]) /\ cur' = prefix[cur]
      /\ UNCHANGED <<stream, pos, phase, dictionary, old, first, code, special, out>>
  <2>1. ~(cur >= nextCode \/ Len(st) >= MaxCodes)
    BY <1>1, <1>2, Sizes
  <2> QED
    BY <2>1, Zenon DEF ExpandStep
<1>5. cur' < cur /\ cur' \notin {Clear, End} /\ cur' \in Codes /\ cur' \in Nat
  BY <1>1, <1>3, <1>4, Sizes DEF DictionaryOK, TypeOK, Codes
<1>6. st' \in Seq(Nat) /\ Len(st') = Len(st) + 1
  BY <1>1, <1>4 DEF TypeOK
<1>7. TypeOK'
  BY <1>4, <1>5, <1>6 DEF TypeOK, dictionary
<1>8. DepthOK'
  <2>1. nextCode' = nextCode
    BY <1>4 DEF dictionary
  <2>2. Len(st') + cur' < nextCode'
    BY <1>1, <1>2, <1>5, <1>6, <2>1
  <2> QED
    BY <1>5, <2>2 DEF DepthOK
<1>9. (DictionaryOK /\ OldOK /\ CodeOK /\ NonEmpty /\ NextCodeReadable /\ ExpandNeverFails)'
  BY <1>1, <1>4 DEF DictionaryOK, OldOK, CodeOK, NonEmpty, NextCodeReadable,
                    ExpandNeverFails, dictionary
<1> QED
  BY <1>7, <1>8, <1>9

\* The last character of a string is a literal, and makes it non-empty.
LEMMA ExpandLastInv == ASSUME Inv, ExpandLast PROVE Inv'
<1> USE DEF Inv
<1>1. st' \in Seq(Nat) /\ st' # <<>>
  <2>1. st \in Seq(Nat) /\ cur \in Nat /\ st' = Append(st, cur)
    BY Sizes DEF ExpandLast, TypeOK, Codes
  <2>2. Append(st, cur) \in Seq(Nat) /\ Len(Append(st, cur)) = Len(st) + 1
    BY <2>1
  <2> QED
    BY <2>1, <2>2
<1>2. TypeOK'
  BY <1>1 DEF ExpandLast, TypeOK, dictionary
<1> QED
  BY <1>1, <1>2 DEF ExpandLast, DictionaryOK, OldOK, CodeOK, DepthOK, NonEmpty,
                    NextCodeReadable, ExpandNeverFails, dictionary

\* A string put out is a sequence of characters.
LEMMA ReverseType == ASSUME NEW s \in Seq(Nat) PROVE Reverse(s) \in Seq(Nat)
BY DEF Reverse

\* The code Emit defines continues an earlier one and fits the width read next.
LEMMA EmitInv == ASSUME Inv, Emit PROVE Inv'
<1> USE DEF Inv
<1> DEFINE c == IF special THEN first ELSE st[Len(st)]
<1>1. c \in Nat
  BY DEF Emit, EmitWith, NonEmpty, TypeOK
<1>2. out' \in Seq(Nat)
  <2>1. out \in Seq(Nat) /\ Reverse(st) \in Seq(Nat) /\ first \in Nat
    BY ReverseType DEF TypeOK
  <2>2. (IF special THEN <<first>> ELSE <<>>) \in Seq(Nat)
    BY <2>1
  <2> QED
    BY <2>1, <2>2 DEF Emit, EmitWith
<1>3. /\ phase = "emit" /\ phase' = "read" /\ old' = code /\ first' = c
      /\ UNCHANGED <<stream, pos, expansion>>
  BY DEF Emit, EmitWith
<1>4. /\ old' \in Codes /\ old' \notin {Clear, End} /\ old' \in Nat
      /\ nextCode \in Nat /\ nextCode <= MaxCodes /\ First <= nextCode
      /\ code < nextCode \/ (code = nextCode /\ old >= 0)
  BY <1>3, Sizes DEF TypeOK, CodeOK, Codes
<1>5. CASE old >= 0 /\ nextCode < MaxCodes
  <2>1. /\ prefix' = [prefix EXCEPT ![nextCode] = old]
        /\ suffix' = [suffix EXCEPT ![nextCode] = c]
        /\ nextCode' = nextCode + 1
        /\ growAt' = IF nextCode + 1 >= growAt /\ growAt < MaxCodes
                     THEN 2 * growAt ELSE growAt
    BY <1>5 DEF Emit, EmitWith
  <2>2. nextCode \in Codes /\ old \in Codes /\ old < nextCode /\ old \notin {Clear, End}
    BY <1>4, <1>5, Sizes DEF TypeOK, OldOK, Codes
  <2>3. growAt' \in Widths /\ (nextCode' < MaxCodes => nextCode' < growAt')
    <3>1. growAt \in Nat /\ growAt \in Widths /\ growAt <= MaxCodes
      BY Sizes DEF TypeOK
    <3>2. nextCode < growAt
      BY <3>1, <1>5, <1>4 DEF NextCodeReadable, TypeOK
    <3> QED
      BY <3>1, <3>2, <2>1, <1>4, Sizes
  <2>4. TypeOK'
    BY <1>1, <1>2, <1>3, <1>4, <1>5, <2>1, <2>2, <2>3, Sizes DEF TypeOK, expansion
  <2>5. DictionaryOK'
    <3> SUFFICES ASSUME NEW d \in First..nextCode
                 PROVE  prefix'[d] < d /\ prefix'[d] \notin {Clear, End}
      BY <2>1, <1>4, Sizes DEF DictionaryOK
    <3>1. CASE d = nextCode
      BY <3>1, <2>1, <2>2 DEF TypeOK
    <3>2. CASE d # nextCode
      <4>1. d \in First..(nextCode - 1)
        BY <3>2, <1>4, Sizes
      <4>2. prefix'[d] = prefix[d]
        BY <2>1, <3>2, <4>1, <1>4, Sizes DEF TypeOK, Codes
      <4> QED
        BY <4>1, <4>2 DEF DictionaryOK
    <3> QED
      BY <3>1, <3>2
  <2>6. OldOK'
    BY <1>3, <1>4, <2>1 DEF OldOK
  <2> QED
    BY <1>3, <2>3, <2>4, <2>5, <2>6
       DEF CodeOK, DepthOK, NonEmpty, NextCodeReadable, ExpandNeverFails
<1>6. CASE ~(old >= 0 /\ nextCode < MaxCodes)
  <2>1. UNCHANGED dictionary
    BY <1>6 DEF Emit, EmitWith
  <2>2. code < nextCode
    BY <1>4, <1>6, Sizes DEF TypeOK, Codes
  <2>3. TypeOK'
    BY <1>1, <1>2, <1>3, <1>4, <2>1 DEF TypeOK, dictionary, expansion
  <2>4. (nextCode < MaxCodes => nextCode < growAt)'
    BY <2>1, <1>3 DEF NextCodeReadable, dictionary
  <2> QED
    BY <1>3, <1>4, <2>1, <2>2, <2>3, <2>4
       DEF DictionaryOK, OldOK, CodeOK, DepthOK, NonEmpty, NextCodeReadable,
           ExpandNeverFails, dictionary
<1> QED
  BY <1>5, <1>6

\* A clear code forgets the size of the dictionary, and its entries with it.
LEMMA ClearInv == ASSUME Inv, ReadClear \/ AfterClear PROVE Inv'
<1> USE DEF Inv
<1>1. CASE ReadClear
  <2>1. TypeOK'
    BY <1>1, Sizes DEF ReadClear, TypeOK, expansion
  <2>2. DictionaryOK' /\ OldOK'
    BY <1>1, Sizes DEF ReadClear, DictionaryOK, OldOK
  <2> QED
    BY <1>1, <2>1, <2>2, Sizes DEF ReadClear, CodeOK, DepthOK, NonEmpty, NextCodeReadable,
                            ExpandNeverFails
<1>2. CASE AfterClear /\ Word < Literals
  <2>1. Word \in Nat /\ phase = "cleared"
    BY <1>2, WordType DEF AfterClear
  <2>2. /\ phase' = "read" /\ pos' = pos + 1 /\ out' = Append(out, Word)
        /\ old' = Word /\ first' = Word /\ UNCHANGED <<stream, dictionary, expansion>>
    BY <1>2 DEF AfterClear
  <2>3. TypeOK'
    <3>1. out' \in Seq(Nat) /\ pos' \in Nat \ {0}
      BY <2>1, <2>2 DEF TypeOK
    <3>2. Word \in Codes
      BY <2>1, <1>2, Sizes DEF Codes
    <3> QED
      BY <2>1, <2>2, <3>1, <3>2 DEF TypeOK, dictionary, expansion
  <2>4. OldOK'
    BY <2>1, <2>2, <1>2, Sizes DEF OldOK, TypeOK, dictionary
  <2> QED
    BY <2>2, <2>3, <2>4 DEF DictionaryOK, CodeOK, DepthOK, NonEmpty,
                            NextCodeReadable, ExpandNeverFails, dictionary
<1>3. CASE AfterClear /\ ~(Word < Literals)
  BY <1>3, StopInv DEF AfterClear, Ended
<1> QED
  BY <1>1, <1>2, <1>3

\* Every step keeps the invariant.
LEMMA InvInductive == ASSUME Inv, [Next]_vars PROVE Inv'
<1>1. CASE RunOut
  BY <1>1, StopInv DEF RunOut, Ended
<1>2. CASE ReadEnd
  BY <1>2, StopInv DEF ReadEnd, Ended
<1>3. CASE UNCHANGED vars
  BY <1>3 DEF vars, dictionary, expansion, Inv, TypeOK, DictionaryOK, OldOK, CodeOK,
              DepthOK, NonEmpty, NextCodeReadable, ExpandNeverFails
<1> QED
  BY <1>1, <1>2, <1>3, ClearInv, ReadStringInv, ExpandStepInv, ExpandLastInv, EmitInv
     DEF Next

\* The dictionary is sound in every state: each defined code continues a smaller one,
\* so every expansion goes down to a literal (unpack-easysetup.py, expand()).
THEOREM InvHolds == Spec => []Inv
<1>1. Init => Inv
  BY InitInv
<1>2. Inv /\ [Next]_vars => Inv'
  BY InvInductive
<1> QED
  BY <1>1, <1>2, PTL DEF Spec

\* The table sizes and the types hold for every stream.
THEOREM TypeCorrect == Spec => []TypeOK
BY InvHolds, PTL DEF Inv

\* The exit "error: expand failed" of unpack-easysetup.py:36 is unreachable, damaged
\* streams included.
THEOREM ExpandNeverFailsHolds == Spec => []ExpandNeverFails
BY InvHolds, PTL DEF Inv

\* The width grows in time for the code the packer may send next.
THEOREM NextCodeReadableHolds == Spec => []NextCodeReadable
BY InvHolds, PTL DEF Inv

------------------------------------------------------------------------------------
(* What the packer sends.                                                          *)

\* The string of a code, after the packer's dictionary.
StringOf(words, c) == IF c < Literals THEN <<c>> ELSE words[c - First + 1]

Strings == Seq(Chars) \ {<<>>}

\* A packer part of the way through its data, its dictionary no larger than the decoder's.
Packing(data) == {s \in Packers : /\ s.n <= Len(data)
                                  /\ s.words \in Seq(Strings)
                                  /\ First + Len(s.words) <= MaxCodes}

\* The sizes, as the packer needs them.
LEMMA PackSizes ==
    /\ Chars \subseteq Nat /\ Literals \in Nat /\ Literals >= 1
    /\ First \in Nat /\ MaxCodes \in Nat /\ First < MaxCodes
    /\ Clear \in Nat /\ End \in Nat /\ First = Literals + 2
    /\ \A c \in Nat : c < Literals <=> c \in Chars
BY Sizes DEF Chars

\* The string sent is a known one with which the data goes on.
LEMMA LongestIs ==
    ASSUME NEW data \in Seq(Chars), NEW words, NEW n \in Nat, n < Len(data)
    PROVE  /\ Longest(words, data, n) \in Strings
           /\ Known(words, Longest(words, data, n))
           /\ n + Len(Longest(words, data, n)) <= Len(data)
           /\ Len(Longest(words, data, n)) >= 1
           /\ Longest(words, data, n) = SubSeq(data, n + 1, n + Len(Longest(words, data, n)))
           /\ Longest(words, data, n)[1] = data[n + 1]
<1> DEFINE Part(k) == SubSeq(data, n + 1, n + k)
           Lengths == {k \in 1..(Len(data) - n) : Known(words, Part(k))}
           longest == CHOOSE k \in Lengths : \A j \in Lengths : j <= k
<1>0. Len(data) \in Nat /\ \A i \in 1..Len(data) : data[i] \in Chars
  BY LenProperties, ElementOfSeq
<1>1. ASSUME NEW k \in 1..(Len(data) - n)
      PROVE  /\ Part(k) \in Seq(Chars) /\ Len(Part(k)) = k
             /\ \A i \in 1..k : Part(k)[i] = data[n + i]
  <2>1. \A i \in (n + 1)..(n + k) : data[i] \in Chars BY <1>0
  <2>2. /\ Part(k) \in Seq(Chars) /\ Len(Part(k)) = IF n + 1 <= n + k THEN (n + k) - (n + 1) + 1 ELSE 0
        /\ \A i \in 1..((n + k) - (n + 1) + 1) : Part(k)[i] = data[(n + 1) + i - 1]
    BY <1>0, <2>1, SubSeqProperties
  <2>3. (n + k) - (n + 1) + 1 = k /\ n + 1 <= n + k BY <1>0
  <2> HIDE DEF Part
  <2> QED BY <1>0, <2>2, <2>3
<1>2. 1 \in Lengths BY <1>0, <1>1 DEF Known
<1>3. \E k \in Lengths : \A j \in Lengths : j <= k
  <2> DEFINE T == {Len(data) - k : k \in Lengths}
  <2> HIDE DEF Part
  <2>1. T \subseteq Nat /\ T # {} BY <1>0, <1>2
  <2>2. PICK x \in T : \A y \in T : x <= y BY <2>1, Least
  <2>3. PICK k \in Lengths : x = Len(data) - k BY <2>2
  <2>4. ASSUME NEW j \in Lengths PROVE j <= k
    <3>1. Len(data) - j \in T OBVIOUS
    <3>2. j \in Nat /\ k \in Nat BY <1>0
    <3>3. x <= Len(data) - j BY <2>2, <3>1
    <3> HIDE DEF T, Lengths
    <3> QED BY <1>0, <2>3, <3>2, <3>3
  <2> QED BY <2>4
<1>4. longest \in Lengths BY <1>3
<1>5. Longest(words, data, n) = Part(longest) BY DEF Longest
<1> HIDE DEF longest, Part
<1>6. longest \in 1..(Len(data) - n) /\ Known(words, Part(longest)) BY <1>4
<1>7. /\ Part(longest) \in Seq(Chars) /\ Len(Part(longest)) = longest
      /\ Part(longest)[1] = data[n + 1]
  BY <1>1, <1>6
<1>8. Part(longest) # <<>> /\ n + longest <= Len(data) /\ longest >= 1
  BY <1>0, <1>6, <1>7, EmptySeq
<1> QED BY <1>5, <1>6, <1>7, <1>8 DEF Part, Strings

\* The code of a known string stands for that string.
LEMMA CodeForIs ==
    ASSUME NEW words \in Seq(Strings), NEW w \in Strings, Known(words, w)
    PROVE  /\ CodeFor(words, w) \in Nat
           /\ StringOf(words, CodeFor(words, w)) = w
           /\ CodeFor(words, w) < Literals
              \/ CodeFor(words, w) \in First..(First + Len(words) - 1)
<1>0. Len(words) \in Nat /\ DOMAIN words = 1..Len(words) BY LenProperties
<1>1. CASE Len(w) = 1
  <2>1. w[1] \in Chars /\ w = <<w[1]>>
    <3>1. w \in Seq(Chars) BY DEF Strings
    <3>2. w[1] \in Chars
      <4>1. 1 \in 1..Len(w) BY <1>1
      <4> QED BY <3>1, <4>1, ElementOfSeq
    <3>3. <<w[1]>> \in Seq(Chars) /\ Len(<<w[1]>>) = 1 BY <3>2
    <3> QED BY <1>1, <3>1, <3>2, <3>3, SeqEqual
  <2>2. CodeFor(words, w) = w[1] BY <1>1 DEF CodeFor
  <2>3. w[1] \in Nat /\ w[1] < Literals BY <2>1, PackSizes
  <2> QED BY <2>1, <2>2, <2>3 DEF StringOf
<1>2. CASE Len(w) # 1
  <2> DEFINE k == CHOOSE j \in DOMAIN words : words[j] = w
  <2>1. k \in DOMAIN words /\ words[k] = w BY <1>2 DEF Known
  <2>2. CodeFor(words, w) = First - 1 + k BY <1>2 DEF CodeFor
  <2> HIDE DEF k
  <2>3. k \in 1..Len(words) BY <1>0, <2>1
  <2>4. /\ First - 1 + k \in First..(First + Len(words) - 1)
        /\ (First - 1 + k) - First + 1 = k /\ ~(First - 1 + k < Literals)
    BY <1>0, <2>3, PackSizes
  <2> QED BY <2>1, <2>2, <2>4, PackSizes DEF StringOf
<1> QED BY <1>1, <1>2

\* The string of a code that is a literal or in the packer's dictionary.
LEMMA StringOfIs ==
    ASSUME NEW words \in Seq(Strings), NEW c \in Nat,
           c < Literals \/ c \in First..(First + Len(words) - 1)
    PROVE  StringOf(words, c) \in Strings
<1>0. Len(words) \in Nat BY LenProperties
<1>1. CASE c < Literals
  <2>1. c \in Chars BY <1>1, PackSizes
  <2> QED BY <1>1, <2>1 DEF StringOf, Strings
<1>2. CASE ~(c < Literals)
  <2>1. c - First + 1 \in 1..Len(words) BY <1>0, <1>2, PackSizes
  <2> QED BY <1>2, <2>1, ElementOfSeq DEF StringOf
<1> QED BY <1>1, <1>2

\* One more code leaves a packer.
LEMMA PackOneIs ==
    ASSUME NEW data \in Seq(Chars), NEW limit, NEW s \in Packing(data), s.n < Len(data)
    PROVE  LET w == Longest(s.words, data, s.n)
               t == PackOne(data, limit, s)
               sent == Append(s.codes, CodeFor(s.words, w))
               next == First + Len(s.words)
           IN  /\ t \in Packing(data) /\ t.n = s.n + Len(w) /\ t.n > s.n
               /\ \/ t.n = Len(data) /\ t.codes = sent /\ t.words = s.words
                  \/ t.n < Len(data) /\ t.codes = Append(sent, Clear) /\ t.words = <<>>
                  \/ /\ t.n < Len(data) /\ t.codes = sent
                     /\ \/ next = MaxCodes /\ t.words = s.words
                        \/ /\ next < MaxCodes
                           /\ t.words = Append(s.words, Append(w, data[t.n + 1]))
<1> DEFINE w == Longest(s.words, data, s.n)
           t == PackOne(data, limit, s)
           n == s.n + Len(w)
           sent == Append(s.codes, CodeFor(s.words, w))
           next == First + Len(s.words)
           word == Append(w, data[n + 1])
<1>1. /\ s \in Packers /\ s.codes \in Seq(Nat) /\ s.words \in Seq(Strings) /\ s.n \in Nat
      /\ s.words \in Seq(Seq(Chars))
      /\ next <= MaxCodes /\ Len(s.words) \in Nat /\ Len(data) \in Nat
  BY LenProperties DEF Packing, Packers
<1>2. /\ w \in Strings /\ Known(s.words, w) /\ n <= Len(data) /\ Len(w) >= 1
      /\ Len(w) \in Nat /\ w \in Seq(Chars)
  BY <1>1, LongestIs, LenProperties DEF Strings
<1>3. sent \in Seq(Nat) /\ Append(sent, Clear) \in Seq(Nat)
  BY <1>1, <1>2, CodeForIs, AppendProperties, PackSizes
<1>4. n < Len(data) => word \in Strings
  <2> SUFFICES ASSUME n < Len(data) PROVE word \in Strings OBVIOUS
  <2>1. data[n + 1] \in Chars
    <3>1. n + 1 \in 1..Len(data) BY <1>1, <1>2
    <3> QED BY <3>1, ElementOfSeq
  <2> HIDE DEF w, n
  <2> QED BY <1>2, <2>1, AppendProperties DEF Strings
<1>5. t = IF n < Len(data) /\ next = limit
          THEN [codes |-> Append(sent, Clear), words |-> <<>>, n |-> n]
          ELSE [codes |-> sent, n |-> n,
                words |-> IF n = Len(data) \/ next = MaxCodes THEN s.words
                          ELSE Append(s.words, word)]
  BY Zenon DEF PackOne
<1>6. n \in Nat /\ n > s.n BY <1>1, <1>2
<1> HIDE DEF t, w, sent, word, n
<1>8. Strings \subseteq Seq(Chars) BY DEF Strings
<1>9. next \in Nat /\ MaxCodes \in Nat /\ First < MaxCodes /\ First \in Nat
  <2>1. First \in Nat /\ MaxCodes \in Nat /\ First < MaxCodes BY PackSizes
  <2> QED BY <1>1, <2>1
<1>10. ASSUME NEW c \in Seq(Nat), NEW v \in Seq(Strings), First + Len(v) <= MaxCodes
       PROVE  [codes |-> c, words |-> v, n |-> n] \in Packing(data)
  <2>1. v \in Seq(Seq(Chars)) BY <1>8, SeqMonotonic
  <2> QED BY <1>2, <1>6, <1>10, <2>1 DEF Packing, Packers
<1>11. CASE n = Len(data)
  <2>1. t = [codes |-> sent, words |-> s.words, n |-> n] BY <1>2, <1>6, <1>5, <1>11
  <2>2. t \in Packing(data) BY <1>1, <1>3, <1>10, <2>1
  <2> QED BY <1>6, <1>11, <2>1, <2>2 DEF t, w, sent, n
<1>12. CASE n # Len(data) /\ next = limit
  <2>1. t = [codes |-> Append(sent, Clear), words |-> <<>>, n |-> n] BY <1>1, <1>2, <1>6, <1>5, <1>12
  <2>2. <<>> \in Seq(Strings) /\ First + Len(<<>>) <= MaxCodes BY <1>9, EmptySeq
  <2>3. n < Len(data) BY <1>1, <1>2, <1>6, <1>12
  <2>4. t \in Packing(data) BY <1>3, <1>10, <2>1, <2>2
  <2> QED BY <1>6, <2>1, <2>3, <2>4 DEF t, w, sent, n
<1>13. CASE n # Len(data) /\ next # limit /\ next = MaxCodes
  <2>1. t = [codes |-> sent, words |-> s.words, n |-> n] BY <1>2, <1>6, <1>5, <1>13
  <2>2. n < Len(data) BY <1>1, <1>2, <1>6, <1>13
  <2>3. t \in Packing(data) BY <1>1, <1>3, <1>10, <2>1
  <2> QED BY <1>6, <1>13, <2>1, <2>2, <2>3 DEF t, w, sent, n
<1>14. CASE n # Len(data) /\ next # limit /\ next # MaxCodes
  <2>1. t = [codes |-> sent, words |-> Append(s.words, word), n |-> n] BY <1>1, <1>2, <1>6, <1>5, <1>14
  <2>2. n < Len(data) BY <1>1, <1>2, <1>6, <1>14
  <2>3. next < MaxCodes
    <3>1. next <= MaxCodes BY <1>1
    <3> HIDE DEF next
    <3> QED BY <1>9, <1>14, <3>1
  <2>4. Append(s.words, word) \in Seq(Strings) /\ Len(Append(s.words, word)) = Len(s.words) + 1
    BY <1>1, <1>4, <2>2, AppendProperties
  <2>5. First + Len(Append(s.words, word)) <= MaxCodes BY <1>1, <1>9, <2>3, <2>4
  <2>6. t \in Packing(data) BY <1>3, <1>10, <2>1, <2>4, <2>5
  <2>7. t.n = n /\ t.codes = sent /\ t.words = Append(s.words, word) BY <2>1
  <2>8. n = s.n + Len(w) /\ word = Append(w, data[n + 1]) BY DEF n, word
  <2> HIDE DEF next
  <2>9. t.n < Len(data) /\ t.n > s.n /\ t.n = s.n + Len(w)
    BY <1>6, <2>2, <2>7, <2>8
  <2>10. t.words = Append(s.words, Append(w, data[t.n + 1])) BY <2>7, <2>8
  <2> QED BY <2>3, <2>6, <2>7, <2>9, <2>10 DEF t, w, sent, next
<1> QED BY <1>11, <1>12, <1>13, <1>14

------------------------------------------------------------------------------------
(* The packer's turns, and where their codes are in the stream.                    *)

\* The packer's first state is a packer's.
LEMMA StartPacks ==
    ASSUME NEW data \in Seq(Chars) PROVE PackStart \in Packing(data)
<1>1. <<Clear>> \in Seq(Nat) /\ <<>> \in Seq(Seq(Chars)) /\ <<>> \in Seq(Strings)
      /\ Len(data) \in Nat
  BY PackSizes, EmptySeq, LenProperties
<1>2. PackStart \in Packers BY <1>1 DEF PackStart, Packers
<1>3. First + 0 <= MaxCodes /\ Len(<<>>) = 0 BY PackSizes
<1>4. PackStart.n = 0 /\ PackStart.words = <<>> BY DEF PackStart
<1>5. PackStart.n <= Len(data) BY <1>1, <1>4
<1>6. First + Len(PackStart.words) <= MaxCodes BY <1>3, <1>4
<1> HIDE DEF PackStart
<1> QED BY <1>1, <1>2, <1>4, <1>5, <1>6 DEF Packing

\* A turn leaves a packer; without characters left it does nothing.
LEMMA TurnIs ==
    ASSUME NEW data \in Seq(Chars), NEW limit, NEW s \in Packing(data)
    PROVE  /\ PackTurn(data, limit)[s] \in Packing(data)
           /\ s.n = Len(data) => PackTurn(data, limit)[s] = s
           /\ s.n # Len(data) => s.n < Len(data) /\ PackTurn(data, limit)[s] = PackOne(data, limit, s)
<1>1. s \in Packers /\ s.n \in Nat /\ s.n <= Len(data) /\ Len(data) \in Nat
  BY LenProperties DEF Packing, Packers
<1>2. PackTurn(data, limit)[s] = IF s.n = Len(data) THEN s ELSE PackOne(data, limit, s)
  BY <1>1 DEF PackTurn
<1>3. s.n # Len(data) => s.n < Len(data) BY <1>1
<1>4. s.n # Len(data) => PackOne(data, limit, s) \in Packing(data) BY <1>3, PackOneIs
<1> QED BY <1>2, <1>3, <1>4

\* The packer's states, from its first one turn by turn.
LEMMA PackerIs ==
    ASSUME NEW data \in Seq(Chars), NEW limit
    PROVE  /\ Packer(data, limit, 0) = PackStart
           /\ \A i \in Nat : /\ Packer(data, limit, i) \in Packing(data)
                             /\ Packer(data, limit, i + 1) =
                                    PackTurn(data, limit)[Packer(data, limit, i)]
<1>1. \A s \in Packing(data) : PackTurn(data, limit)[s] \in Packing(data) BY TurnIs
<1>2. \A i \in Nat : Repeat(PackTurn(data, limit), PackStart, i) \in Packing(data)
  BY <1>1, StartPacks, RepeatStays
<1> QED BY <1>2, RepeatIs DEF Packer

\* Every turn packs at least a character, until all are packed.
LEMMA PackerAdvances ==
    ASSUME NEW data \in Seq(Chars), NEW limit
    PROVE  \A i \in Nat : LET n == Packer(data, limit, i).n IN n >= i \/ n = Len(data)
<1> DEFINE P(i) == Packer(data, limit, i)
           T == {i \in Nat : P(i).n >= i \/ P(i).n = Len(data)}
<1>0. \A i \in Nat : P(i) \in Packing(data) /\ P(i).n \in Nat
  BY PackerIs DEF Packing, Packers
<1>1. 0 \in T BY <1>0
<1>2. ASSUME NEW i \in Nat, i \in T PROVE i + 1 \in T
  <2>1. P(i + 1) = PackTurn(data, limit)[P(i)] BY PackerIs
  <2>2. CASE P(i).n = Len(data)
    <3>1. P(i + 1) = P(i) BY <1>0, <2>1, <2>2, TurnIs
    <3> QED BY <2>2, <3>1
  <2>3. CASE P(i).n # Len(data)
    <3>1. P(i + 1) = PackOne(data, limit, P(i)) /\ P(i).n < Len(data)
      BY <1>0, <2>1, <2>3, TurnIs
    <3>2. P(i + 1).n > P(i).n BY <1>0, <3>1, PackOneIs
    <3>3. P(i).n >= i /\ i + 1 \in Nat BY <1>2, <2>3
    <3>4. P(i).n \in Nat /\ P(i + 1).n \in Nat BY <1>0, <3>3
    <3> HIDE DEF P
    <3>5. P(i + 1).n >= i + 1 BY <3>2, <3>3, <3>4
    <3> QED BY <3>3, <3>5
  <2> QED BY <2>2, <2>3
<1> HIDE DEF T
<1>3. Nat \subseteq T BY <1>1, <1>2, SetInduction
<1> QED BY <1>3 DEF T

\* b begins with a.
Begins(a, b) == Len(a) <= Len(b) /\ \A k \in 1..Len(a) : b[k] = a[k]

\* A turn sends codes after those already sent.
LEMMA TurnBegins ==
    ASSUME NEW data \in Seq(Chars), NEW limit, NEW s \in Packing(data)
    PROVE  Begins(s.codes, PackTurn(data, limit)[s].codes)
<1> DEFINE t == PackOne(data, limit, s)
           c == CodeFor(s.words, Longest(s.words, data, s.n))
<1>0. s.codes \in Seq(Nat) /\ Len(s.codes) \in Nat BY LenProperties DEF Packing, Packers
<1>1. CASE s.n = Len(data) BY <1>0, <1>1, TurnIs DEF Begins
<1>2. CASE s.n # Len(data)
  <2>1. PackTurn(data, limit)[s] = t /\ s.n < Len(data) BY <1>2, TurnIs
  <2>2. t.codes = Append(s.codes, c) \/ t.codes = Append(Append(s.codes, c), Clear)
    BY <2>1, PackOneIs
  <2>3. c \in Nat
    <3>1. s.n \in Nat /\ s.words \in Seq(Strings) BY DEF Packing, Packers
    <3> QED BY <2>1, <3>1, LongestIs, CodeForIs
  <2> HIDE DEF c, t
  <2>4. Append(s.codes, c) \in Seq(Nat) /\ Len(Append(s.codes, c)) = Len(s.codes) + 1
        /\ \A k \in 1..Len(s.codes) : Append(s.codes, c)[k] = s.codes[k]
    BY <1>0, <2>3, AppendProperties
  <2> DEFINE a == Append(s.codes, c)
  <2>5. Len(Append(a, Clear)) = Len(a) + 1 /\ \A k \in 1..Len(a) : Append(a, Clear)[k] = a[k]
    BY <2>4, PackSizes, AppendProperties
  <2> DEFINE b == Append(a, Clear)
             v == PackTurn(data, limit)[s]
  <2>6. v.codes = a \/ v.codes = b BY <2>1, <2>2
  <2>7. Begins(s.codes, a) BY <1>0, <2>4 DEF Begins
  <2>8. Len(a) \in Nat /\ Len(b) = Len(a) + 1 /\ Len(a) = Len(s.codes) + 1
        /\ (\A k \in 1..Len(a) : b[k] = a[k]) /\ \A k \in 1..Len(s.codes) : a[k] = s.codes[k]
    BY <1>0, <2>4, <2>5
  <2> HIDE DEF a, b, v
  <2>9. Begins(s.codes, b) BY <1>0, <2>8 DEF Begins
  <2>10. Begins(s.codes, v.codes) BY <2>6, <2>7, <2>9
  <2> QED BY <2>10 DEF v
<1> QED BY <1>1, <1>2

\* What is sent stays sent.
LEMMA PackerBegins ==
    ASSUME NEW data \in Seq(Chars), NEW limit, NEW i \in Nat
    PROVE  \A k \in Nat : Begins(Packer(data, limit, i).codes, Packer(data, limit, i + k).codes)
<1> DEFINE P(j) == Packer(data, limit, j)
           T == {k \in Nat : Begins(P(i).codes, P(i + k).codes)}
<1>0. \A j \in Nat : P(j) \in Packing(data) /\ Len(P(j).codes) \in Nat
  BY PackerIs, LenProperties DEF Packing, Packers
<1>1. 0 \in T BY <1>0 DEF Begins
<1>2. ASSUME NEW k \in Nat, k \in T PROVE k + 1 \in T
  <2> DEFINE j == i + k
  <2>1. j \in Nat /\ j + 1 = i + (k + 1) OBVIOUS
  <2>2. Begins(P(i).codes, P(j).codes) BY <1>2
  <2> HIDE DEF j
  <2>3. P(j + 1) = PackTurn(data, limit)[P(j)] BY <2>1, PackerIs
  <2>4. Begins(P(j).codes, P(j + 1).codes) BY <1>0, <2>1, <2>3, TurnBegins
  <2>5. Len(P(i).codes) \in Nat /\ Len(P(j).codes) \in Nat /\ Len(P(j + 1).codes) \in Nat
    BY <1>0, <2>1
  <2> HIDE DEF P
  <2>6. Begins(P(i).codes, P(j + 1).codes) BY <2>2, <2>4, <2>5 DEF Begins
  <2> QED BY <2>1, <2>6
<1> HIDE DEF T
<1>3. Nat \subseteq T BY <1>1, <1>2, SetInduction
<1> QED BY <1>3 DEF T

\* A packer with nothing left has finished.
LEMMA PackerFinished ==
    ASSUME NEW data \in Seq(Chars), NEW limit, NEW i \in Nat,
           Packer(data, limit, i).n = Len(data)
    PROVE  \A k \in Nat : Packer(data, limit, i + k) = Packer(data, limit, i)
<1> DEFINE P(j) == Packer(data, limit, j)
           T == {k \in Nat : P(i + k) = P(i)}
<1>1. 0 \in T OBVIOUS
<1>2. ASSUME NEW k \in Nat, k \in T PROVE k + 1 \in T
  <2> DEFINE j == i + k
  <2>1. j \in Nat /\ j + 1 = i + (k + 1) OBVIOUS
  <2>2. P(j) = P(i) BY <1>2
  <2> HIDE DEF j
  <2>3. P(j + 1) = PackTurn(data, limit)[P(j)] /\ P(j) \in Packing(data) BY <2>1, PackerIs
  <2>4. P(j + 1) = P(i) BY <2>2, <2>3, TurnIs
  <2> QED BY <2>1, <2>4
<1> HIDE DEF T
<1>3. Nat \subseteq T BY <1>1, <1>2, SetInduction
<1> QED BY <1>3 DEF T

\* Where the codes of a turn are in the stream.
LEMMA StreamIs ==
    ASSUME NEW data \in Seq(Chars), NEW limit, NEW i \in Nat,
           Packer(data, limit, i).n < Len(data)
    PROVE  LET t == Packer(data, limit, i + 1)
               packed == Pack(data, limit)
           IN  /\ t = PackOne(data, limit, Packer(data, limit, i))
               /\ Begins(t.codes, packed) /\ Len(packed) >= Len(t.codes) + 1
               /\ t.n = Len(data) => /\ Len(packed) = Len(t.codes) + 1
                                     /\ packed[Len(packed)] = End
<1> DEFINE P(j) == Packer(data, limit, j)
           N == Len(data)
           k == N - (i + 1)
           packed == Pack(data, limit)
<1>0. \A j \in Nat : /\ P(j) \in Packing(data) /\ P(j).n \in Nat
                     /\ P(j).codes \in Seq(Nat) /\ Len(P(j).codes) \in Nat
  BY PackerIs, LenProperties DEF Packing, Packers
<1>1. N \in Nat /\ i < N
  <2>1. N \in Nat BY LenProperties
  <2>2. P(i).n >= i \/ P(i).n = N BY PackerAdvances
  <2> HIDE DEF P
  <2> QED BY <1>0, <2>1, <2>2 DEF P
<1>2. k \in Nat /\ (i + 1) + k = N /\ i + 1 \in Nat BY <1>1
<1>3. P(i + 1) = PackOne(data, limit, P(i))
  <2>1. P(i + 1) = PackTurn(data, limit)[P(i)] BY PackerIs
  <2>2. P(i).n # Len(data) BY <1>0, <1>1
  <2> QED BY <1>0, <2>1, <2>2, TurnIs
<1>4. Begins(P(i + 1).codes, P(N).codes)
  <2> HIDE DEF k, N
  <2>1. Begins(P(i + 1).codes, P((i + 1) + k).codes) BY <1>2, PackerBegins
  <2> QED BY <1>2, <2>1
<1>5. /\ Len(packed) = Len(P(N).codes) + 1 /\ packed[Len(P(N).codes) + 1] = End
      /\ \A j \in 1..Len(P(N).codes) : packed[j] = P(N).codes[j]
  <2>1. packed = Append(P(N).codes, End) BY DEF Pack
  <2>2. P(N).codes \in Seq(Nat) BY <1>0, <1>1
  <2> QED BY <2>1, <2>2, PackSizes, AppendProperties
<1>6. P(i + 1).n = N => P(N) = P(i + 1)
  <2> HIDE DEF k
  <2> SUFFICES ASSUME P(i + 1).n = N PROVE P(N) = P(i + 1) OBVIOUS
  <2>1. P((i + 1) + k) = P(i + 1) BY <1>2, PackerFinished
  <2> QED BY <1>2, <2>1
<1>7. Len(P(i + 1).codes) \in Nat /\ Len(P(N).codes) \in Nat BY <1>0, <1>1, <1>2
<1> HIDE DEF P, k, N, packed
<1>8. Begins(P(i + 1).codes, packed) /\ Len(packed) >= Len(P(i + 1).codes) + 1
  BY <1>4, <1>5, <1>7 DEF Begins
<1>9. P(i + 1).n = N => Len(packed) = Len(P(i + 1).codes) + 1 /\ packed[Len(packed)] = End
  BY <1>5, <1>6
<1> QED BY <1>3, <1>8, <1>9 DEF P, N, packed

\* What a turn of the packer puts in the stream, and what it does to the dictionary.
LEMMA TurnSends ==
    ASSUME NEW data \in Seq(Chars), NEW limit, NEW i \in Nat,
           Packer(data, limit, i).n < Len(data)
    PROVE  LET q == Packer(data, limit, i)
               t == Packer(data, limit, i + 1)
               w == Longest(q.words, data, q.n)
               packed == Pack(data, limit)
               k == Len(q.codes)
           IN  /\ k \in Nat /\ t.n = q.n + Len(w)
               /\ k + 2 <= Len(packed) /\ packed[k + 1] = CodeFor(q.words, w)
               /\ \/ t.n = Len(data) /\ Len(packed) = k + 2 /\ packed[k + 2] = End
                  \/ /\ t.n < Len(data) /\ t.words = <<>>
                     /\ Len(t.codes) = k + 2 /\ packed[k + 2] = Clear
                  \/ /\ t.n < Len(data) /\ Len(t.codes) = k + 1
                     /\ \/ First + Len(q.words) = MaxCodes /\ t.words = q.words
                        \/ /\ First + Len(q.words) < MaxCodes
                           /\ t.words = Append(q.words, Append(w, data[t.n + 1]))
<1> DEFINE q == Packer(data, limit, i)
           t == Packer(data, limit, i + 1)
           w == Longest(q.words, data, q.n)
           c == CodeFor(q.words, w)
           sent == Append(q.codes, c)
           packed == Pack(data, limit)
           k == Len(q.codes)
<1>1. q \in Packing(data) /\ q.n < Len(data) BY PackerIs
<1>2. t = PackOne(data, limit, q) /\ Begins(t.codes, packed) /\ Len(packed) >= Len(t.codes) + 1
      /\ (t.n = Len(data) => Len(packed) = Len(t.codes) + 1 /\ packed[Len(packed)] = End)
  BY <1>1, StreamIs
<1>3. /\ t \in Packing(data) /\ t.n = q.n + Len(w)
      /\ \/ t.n = Len(data) /\ t.codes = sent /\ t.words = q.words
         \/ t.n < Len(data) /\ t.codes = Append(sent, Clear) /\ t.words = <<>>
         \/ /\ t.n < Len(data) /\ t.codes = sent
            /\ \/ First + Len(q.words) = MaxCodes /\ t.words = q.words
               \/ /\ First + Len(q.words) < MaxCodes
                  /\ t.words = Append(q.words, Append(w, data[t.n + 1]))
  <2> HIDE DEF q, t
  <2> QED BY <1>1, <1>2, PackOneIs
<1>4. c \in Nat /\ q.codes \in Seq(Nat)
  <2>1. q.n \in Nat /\ q.words \in Seq(Strings) /\ q.codes \in Seq(Nat) BY <1>1 DEF Packing, Packers
  <2> HIDE DEF q
  <2> QED BY <1>1, <2>1, LongestIs, CodeForIs
<1> HIDE DEF q, t, w, c, packed
<1>5. k \in Nat /\ sent \in Seq(Nat) /\ Len(sent) = k + 1 /\ sent[k + 1] = c
  BY <1>4, AppendProperties, LenProperties
<1> DEFINE cleared == Append(sent, Clear)
<1>6. Len(cleared) = k + 2 /\ cleared[k + 2] = Clear /\ cleared[k + 1] = c
  <2> HIDE DEF sent
  <2>1. Len(cleared) = Len(sent) + 1 /\ cleared[Len(sent) + 1] = Clear
        /\ \A j \in 1..Len(sent) : cleared[j] = sent[j]
    BY <1>5, PackSizes, AppendProperties
  <2> HIDE DEF cleared, k
  <2> QED BY <1>5, <2>1
<1>7. t.codes = sent \/ t.codes = cleared BY <1>3
<1> HIDE DEF sent, cleared, k
<1>8. k + 2 <= Len(packed) /\ packed[k + 1] = c
  <2>1. Len(t.codes) >= k + 1 /\ t.codes[k + 1] = c /\ Len(t.codes) \in Nat BY <1>5, <1>6, <1>7
  <2>2. k + 1 \in 1..Len(t.codes) BY <1>5, <2>1
  <2>3. Len(packed) >= k + 2
    <3>1. Len(packed) >= Len(t.codes) + 1 BY <1>2
    <3>2. Len(packed) \in Nat
      <4>1. Packer(data, limit, Len(data)).codes \in Seq(Nat)
        <5>1. Len(data) \in Nat BY LenProperties
        <5> QED BY <5>1, PackerIs DEF Packing, Packers
      <4>2. packed \in Seq(Nat) BY <4>1, PackSizes, AppendProperties DEF Pack, packed
      <4> QED BY <4>2, LenProperties
    <3> QED BY <1>5, <2>1, <3>1, <3>2
  <2> QED BY <1>2, <2>1, <2>2, <2>3 DEF Begins
<1>9. CASE t.n = Len(data) /\ t.codes = sent /\ t.words = q.words
  <2>1. Len(packed) = k + 2 BY <1>2, <1>5, <1>9
  <2> QED BY <1>2, <1>3, <1>5, <1>8, <1>9, <2>1 DEF q, t, w, c, packed, k
<1>10. CASE t.n < Len(data) /\ t.codes = cleared /\ t.words = <<>>
  <2>1. k + 2 \in 1..Len(t.codes) BY <1>5, <1>6, <1>10
  <2>2. packed[k + 2] = Clear BY <1>2, <1>6, <1>10, <2>1 DEF Begins
  <2> QED BY <1>3, <1>5, <1>6, <1>8, <1>10, <2>2 DEF q, t, w, c, packed, k
<1>11. CASE /\ t.n < Len(data) /\ t.codes = sent
            /\ \/ First + Len(q.words) = MaxCodes /\ t.words = q.words
               \/ /\ First + Len(q.words) < MaxCodes
                  /\ t.words = Append(q.words, Append(w, data[t.n + 1]))
  <2>1. Len(t.codes) = k + 1 BY <1>5, <1>11
  <2> QED BY <1>3, <1>5, <1>8, <1>11, <2>1 DEF q, t, w, c, packed, k
<1> QED BY <1>3, <1>9, <1>10, <1>11 DEF cleared

\* The items of two sequences put together.
LEMMA Joined ==
    ASSUME NEW e \in Seq(Nat), NEW r \in Seq(Nat)
    PROVE  /\ e \o r \in Seq(Nat) /\ Len(e \o r) = Len(e) + Len(r)
           /\ \A k \in 1..(Len(e) + Len(r)) :
                  (e \o r)[k] = IF k <= Len(e) THEN e[k] ELSE r[k - Len(e)]
BY ConcatProperties

\* The last character put on the pile comes first.
LEMMA ReverseAppend ==
    ASSUME NEW s \in Seq(Nat), NEW x \in Nat
    PROVE  Reverse(Append(s, x)) = <<x>> \o Reverse(s)
<1>1. /\ Append(s, x) \in Seq(Nat) /\ Len(Append(s, x)) = Len(s) + 1
      /\ Append(s, x)[Len(s) + 1] = x /\ \A k \in 1..Len(s) : Append(s, x)[k] = s[k]
  BY AppendProperties
<1>2. Len(s) \in Nat BY LenProperties
<1>3. ASSUME NEW u \in Seq(Nat)
      PROVE  /\ Reverse(u) \in Seq(Nat) /\ Len(Reverse(u)) = Len(u)
             /\ \A k \in 1..Len(u) : Reverse(u)[k] = u[Len(u) - k + 1]
  BY DEF Reverse
<1> DEFINE a == Reverse(Append(s, x))
           b == <<x>> \o Reverse(s)
<1>4. a \in Seq(Nat) /\ Len(a) = Len(s) + 1
      /\ \A k \in 1..(Len(s) + 1) : a[k] = Append(s, x)[(Len(s) + 1) - k + 1]
  <2> DEFINE z == Append(s, x)
  <2>1. z \in Seq(Nat) /\ Len(z) = Len(s) + 1 BY <1>1
  <2> HIDE DEF z
  <2>2. Reverse(z) \in Seq(Nat) /\ Len(Reverse(z)) = Len(z)
        /\ \A k \in 1..Len(z) : Reverse(z)[k] = z[Len(z) - k + 1]
    BY <1>3, <2>1
  <2>3. Reverse(z) \in Seq(Nat) /\ Len(Reverse(z)) = Len(s) + 1
        /\ \A k \in 1..(Len(s) + 1) : Reverse(z)[k] = z[(Len(s) + 1) - k + 1]
    BY <2>1, <2>2
  <2> QED BY <2>3 DEF z
<1>5. Reverse(s) \in Seq(Nat) /\ Len(Reverse(s)) = Len(s) BY <1>3
<1>6. <<x>> \in Seq(Nat) /\ Len(<<x>>) = 1 /\ <<x>>[1] = x OBVIOUS
<1>7. b \in Seq(Nat) /\ Len(b) = Len(s) + 1 /\ b[1] = x
      /\ \A k \in 2..(Len(s) + 1) : b[k] = Reverse(s)[k - 1]
  <2> DEFINE r == Reverse(s)
             e == <<x>>
  <2>1. r \in Seq(Nat) /\ Len(r) = Len(s) /\ e \in Seq(Nat) /\ Len(e) = 1 /\ e[1] = x
    BY <1>5, <1>6
  <2> HIDE DEF r, e
  <2>2. e \o r \in Seq(Nat) /\ Len(e \o r) = Len(e) + Len(r)
        /\ \A k \in 1..(Len(e) + Len(r)) : (e \o r)[k] = IF k <= Len(e) THEN e[k] ELSE r[k - Len(e)]
    BY <2>1, Joined
  <2>3. Len(e \o r) = Len(s) + 1 /\ (e \o r)[1] = x BY <1>2, <2>1, <2>2
  <2>4. \A k \in 2..(Len(s) + 1) : (e \o r)[k] = r[k - 1] BY <1>2, <2>1, <2>2
  <2> QED BY <2>2, <2>3, <2>4 DEF r, e
<1> HIDE DEF a, b
<1>8. ASSUME NEW k \in 1..(Len(s) + 1) PROVE a[k] = b[k]
  <2>1. CASE k = 1 BY <1>1, <1>2, <1>4, <1>7, <2>1
  <2>2. CASE k # 1
    <3>1. k - 1 \in 1..Len(s) /\ k \in 2..(Len(s) + 1) BY <1>2, <2>2
    <3>2. b[k] = s[Len(s) - (k - 1) + 1] BY <1>3, <1>7, <3>1
    <3>3. (Len(s) + 1) - k + 1 = Len(s) - (k - 1) + 1 /\ Len(s) - (k - 1) + 1 \in 1..Len(s)
      BY <1>2, <3>1
    <3> QED BY <1>1, <1>4, <3>2, <3>3
  <2> QED BY <2>1, <2>2
<1> QED BY <1>4, <1>7, <1>8, SeqEqual DEF a, b

\* The first character of what was piled up, and that there is one.
LEMMA ReverseEnds ==
    ASSUME NEW s \in Seq(Nat), s # <<>>
    PROVE  Reverse(s) \in Seq(Nat) /\ Reverse(s)[1] = s[Len(s)] /\ Len(Reverse(s)) = Len(s)
<1>1. Len(s) \in Nat /\ Len(s) # 0 BY EmptySeq, LenProperties
<1>2. Reverse(s) \in Seq(Nat) /\ Len(Reverse(s)) = Len(s)
      /\ \A k \in 1..Len(s) : Reverse(s)[k] = s[Len(s) - k + 1]
  BY DEF Reverse
<1>3. 1 \in 1..Len(s) /\ Len(s) - 1 + 1 = Len(s) BY <1>1
<1> QED BY <1>2, <1>3

------------------------------------------------------------------------------------
(* The decoder follows the packer.                                                 *)

\* The decoder's dictionary is the beginning of the packer's.
Matches(words) ==
    /\ nextCode <= First + Len(words)
    /\ \A c \in First..(nextCode - 1) :
          StringOf(words, c) = Append(StringOf(words, prefix[c]), suffix[c])

\* The decoder is a word behind the packer: it has the string of the packer's last word,
\* and lacks the character that completes it; or both dictionaries are full.
Latest(data, q) ==
    /\ old >= 0 /\ first = StringOf(q.words, old)[1] /\ Matches(q.words)
    /\ \/ /\ nextCode = First + Len(q.words) - 1
          /\ q.words[Len(q.words)] = Append(StringOf(q.words, old), data[q.n + 1])
       \/ nextCode = MaxCodes /\ MaxCodes = First + Len(q.words)

\* Between two codes of the data.
Reading(data, q) == phase = "read" /\ pos = Len(q.codes) + 1 /\ Latest(data, q)

\* Before and after a clear code.
Clearing(q) == /\ phase = "read" /\ pos = Len(q.codes) /\ pos <= Len(stream)
               /\ stream[pos] = Clear /\ q.words = <<>>
Cleared(q)  == /\ phase = "cleared" /\ pos = Len(q.codes) + 1 /\ q.words = <<>>
               /\ nextCode = First

\* Expanding the code of w: what is left of it and what is piled up make the string.
Expanding(data, q) ==
    LET w      == Longest(q.words, data, q.n)
        target == IF special THEN StringOf(q.words, old) ELSE w
    IN  /\ phase \in {"expand", "emit"} /\ pos = Len(q.codes) + 2 /\ Latest(data, q)
        /\ code = CodeFor(q.words, w)
        /\ special => w = Append(StringOf(q.words, old), first)
        /\ phase = "expand" => StringOf(q.words, cur) \o Reverse(st) = target
        /\ phase = "emit" => Reverse(st) = target

\* The decoder has put out what the packer has packed, and is about to read, or is
\* expanding, the code the packer sends next.
Follows(data, q) ==
    /\ q.n < Len(data) /\ out = SubSeq(data, 1, q.n)
    /\ \/ Clearing(q) \/ Cleared(q) \/ Reading(data, q) \/ Expanding(data, q)

\* At the end code.
AtEnd(data) == phase = "read" /\ pos = Len(stream) /\ stream[pos] = End /\ out = data

InStep(data, limit) ==
    \/ \E i \in Nat : Follows(data, Packer(data, limit, i))
    \/ AtEnd(data)
    \/ phase = "done" /\ out = data

\* The parts of a packer's state.
LEMMA PackingIs ==
    ASSUME NEW data \in Seq(Chars), NEW q \in Packing(data)
    PROVE  /\ q.codes \in Seq(Nat) /\ q.words \in Seq(Strings) /\ q.n \in Nat
           /\ q.n <= Len(data) /\ First + Len(q.words) <= MaxCodes
           /\ Len(q.codes) \in Nat /\ Len(q.words) \in Nat /\ Len(data) \in Nat
BY LenProperties DEF Packing, Packers

\* A word more changes no string.
LEMMA StringOfAppend ==
    ASSUME NEW words \in Seq(Strings), NEW v \in Strings, NEW c \in Nat,
           c < Literals \/ c \in First..(First + Len(words) - 1)
    PROVE  StringOf(Append(words, v), c) = StringOf(words, c)
<1>0. Len(words) \in Nat BY LenProperties
<1>1. \A k \in 1..Len(words) : Append(words, v)[k] = words[k] BY AppendProperties
<1>2. CASE ~(c < Literals)
  <2>1. c - First + 1 \in 1..Len(words) BY <1>0, <1>2, PackSizes
  <2> QED BY <1>1, <1>2, <2>1 DEF StringOf
<1> QED BY <1>2 DEF StringOf

\* What a turn of the packer does, for the decoder that follows it.
LEMMA Words ==
    ASSUME NEW data \in Seq(Chars), NEW limit, NEW i \in Nat,
           Packer(data, limit, i).n < Len(data)
    PROVE  LET q == Packer(data, limit, i)
               w == Longest(q.words, data, q.n)
               c == CodeFor(q.words, w)
           IN  /\ q \in Packing(data) /\ w \in Strings /\ Len(w) \in Nat /\ Len(w) >= 1
               /\ q.n + Len(w) <= Len(data) /\ w = SubSeq(data, q.n + 1, q.n + Len(w))
               /\ w[1] = data[q.n + 1]
               /\ c \in Nat /\ StringOf(q.words, c) = w
               /\ c < Literals \/ c \in First..(First + Len(q.words) - 1)
<1> DEFINE q == Packer(data, limit, i)
           w == Longest(q.words, data, q.n)
<1>1. q \in Packing(data) BY PackerIs
<1> HIDE DEF q
<1>2. q.words \in Seq(Strings) /\ q.n \in Nat /\ q.n < Len(data) BY <1>1, PackingIs DEF q
<1>3. /\ w \in Strings /\ Known(q.words, w) /\ q.n + Len(w) <= Len(data) /\ Len(w) >= 1
      /\ w = SubSeq(data, q.n + 1, q.n + Len(w)) /\ w[1] = data[q.n + 1]
  BY <1>2, LongestIs
<1> HIDE DEF w
<1>4. Len(w) \in Nat BY <1>3, LenProperties DEF Strings
<1>5. /\ CodeFor(q.words, w) \in Nat /\ StringOf(q.words, CodeFor(q.words, w)) = w
      /\ CodeFor(q.words, w) < Literals
         \/ CodeFor(q.words, w) \in First..(First + Len(q.words) - 1)
  BY <1>2, <1>3, CodeForIs
<1> QED BY <1>1, <1>3, <1>4, <1>5 DEF q, w

\* The decoder has put out what the next turn packs, and defined every word so far.
Sent(data, q) ==
    LET w == Longest(q.words, data, q.n)
    IN  /\ phase = "read" /\ pos = Len(q.codes) + 2
        /\ out = SubSeq(data, 1, q.n) \o w
        /\ old = CodeFor(q.words, w) /\ first = w[1]
        /\ nextCode = First + Len(q.words) /\ Matches(q.words)

\* A decoder that has put out what a turn packed, and defined every word of the packer
\* before it, follows the packer after the turn.
LEMMA Arrive ==
    ASSUME NEW data \in Seq(Chars), NEW limit, NEW i \in Nat,
           Packer(data, limit, i).n < Len(data), Inv', stream' = Pack(data, limit),
           Sent(data, Packer(data, limit, i))'
    PROVE  InStep(data, limit)'
<1> DEFINE q == Packer(data, limit, i)
           t == Packer(data, limit, i + 1)
           w == Longest(q.words, data, q.n)
           packed == Pack(data, limit)
           k == Len(q.codes)
<1>1. /\ q \in Packing(data) /\ w \in Strings /\ Len(w) \in Nat /\ Len(w) >= 1
      /\ q.n + Len(w) <= Len(data) /\ w = SubSeq(data, q.n + 1, q.n + Len(w))
      /\ CodeFor(q.words, w) \in Nat /\ StringOf(q.words, CodeFor(q.words, w)) = w
      /\ CodeFor(q.words, w) < Literals
         \/ CodeFor(q.words, w) \in First..(First + Len(q.words) - 1)
  BY Words
<1>2. /\ t.n = q.n + Len(w)
      /\ \/ t.n = Len(data) /\ Len(packed) = k + 2 /\ packed[k + 2] = End
         \/ /\ t.n < Len(data) /\ t.words = <<>>
            /\ Len(t.codes) = k + 2 /\ packed[k + 2] = Clear
         \/ /\ t.n < Len(data) /\ Len(t.codes) = k + 1
            /\ \/ First + Len(q.words) = MaxCodes /\ t.words = q.words
               \/ /\ First + Len(q.words) < MaxCodes
                  /\ t.words = Append(q.words, Append(w, data[t.n + 1]))
      /\ k + 2 <= Len(packed)
  BY TurnSends
<1>3. /\ phase' = "read" /\ pos' = k + 2 /\ out' = SubSeq(data, 1, q.n) \o w
      /\ old' = CodeFor(q.words, w) /\ first' = w[1]
      /\ nextCode' = First + Len(q.words) /\ Matches(q.words)' /\ stream' = packed
  BY DEF Sent
<1>4. /\ q.words \in Seq(Strings) /\ Len(q.words) \in Nat /\ k \in Nat /\ Len(data) \in Nat
      /\ q.n \in Nat /\ q.n < Len(data) /\ First + Len(q.words) <= MaxCodes
  BY <1>1, PackingIs
<1>5. t \in Packing(data) /\ t.words \in Seq(Strings)
  <2> DEFINE j == i + 1
  <2>1. j \in Nat OBVIOUS
  <2> HIDE DEF j
  <2>2. Packer(data, limit, j) \in Packing(data) BY <2>1, PackerIs
  <2>3. t \in Packing(data) BY <2>2 DEF j
  <2> HIDE DEF t
  <2> QED BY <2>3, PackingIs
<1> SUFFICES ASSUME TRUE
             PROVE (\E j \in Nat : Follows(data, Packer(data, limit, j)))' \/ AtEnd(data)'
  BY DEF InStep
<1>6. Follows(data, t)' => (\E j \in Nat : Follows(data, Packer(data, limit, j)))'
  OBVIOUS
<1> HIDE DEF q, t, w, packed, k
<1>7. out' = SubSeq(data, 1, t.n)
  <2> DEFINE m == q.n
             n == q.n + Len(w)
  <2>2. Len(w) \in Nat /\ n <= Len(data) BY <1>1
  <2>3. 1 \in 1..(Len(data) + 1) /\ m \in (1 - 1)..Len(data) /\ n \in m..Len(data)
    BY <1>4, <2>2
  <2> HIDE DEF m, n
  <2>4. SubSeq(data, 1, m) \o SubSeq(data, m + 1, n) = SubSeq(data, 1, n)
    BY <2>3, ConcatAdjacentSubSeq
  <2>1. SubSeq(data, 1, q.n) \o SubSeq(data, q.n + 1, q.n + Len(w)) = SubSeq(data, 1, q.n + Len(w))
    BY <2>4 DEF m, n
  <2> QED BY <1>1, <1>2, <1>3, <2>1
<1>8. CASE t.n = Len(data) /\ Len(packed) = k + 2 /\ packed[k + 2] = End
  <2>1. SubSeq(data, 1, Len(data)) = data BY SubSeqFull
  <2> QED BY <1>3, <1>7, <1>8, <2>1 DEF AtEnd
<1>9. CASE t.n < Len(data) /\ t.words = <<>> /\ Len(t.codes) = k + 2 /\ packed[k + 2] = Clear
  <2>1. Clearing(t)' BY <1>2, <1>3, <1>9 DEF Clearing
  <2> QED BY <1>6, <1>7, <1>9, <2>1 DEF Follows
<1>10. CASE /\ t.n < Len(data) /\ Len(t.codes) = k + 1
            /\ \/ First + Len(q.words) = MaxCodes /\ t.words = q.words
               \/ /\ First + Len(q.words) < MaxCodes
                  /\ t.words = Append(q.words, Append(w, data[t.n + 1]))
  <2> DEFINE v == Append(w, data[t.n + 1])
  <2>1. First + Len(q.words) < MaxCodes => v \in Strings
    <3> SUFFICES ASSUME First + Len(q.words) < MaxCodes PROVE v \in Strings OBVIOUS
    <3>1. data[t.n + 1] \in Chars
      <4>1. t.n \in Nat /\ t.n < Len(data) /\ Len(data) \in Nat
        <5>1. Len(w) \in Nat /\ t.n = q.n + Len(w) BY <1>1, <1>2
        <5> QED BY <1>4, <1>10, <5>1
      <4>2. t.n + 1 \in 1..Len(data) BY <4>1
      <4> QED BY <4>2, ElementOfSeq
    <3> QED BY <1>1, <3>1, AppendProperties DEF Strings
  <2> HIDE DEF v
  <2>2. \/ First + Len(q.words) = MaxCodes /\ t.words = q.words
        \/ First + Len(q.words) < MaxCodes /\ v \in Strings /\ t.words = Append(q.words, v)
    BY <1>10, <2>1 DEF v
  <2>3. ASSUME NEW c \in Nat, c < Literals \/ c \in First..(First + Len(q.words) - 1)
        PROVE  StringOf(t.words, c) = StringOf(q.words, c)
    BY <1>4, <2>2, <2>3, StringOfAppend
  <2>4. StringOf(t.words, old') = w BY <1>1, <1>3, <2>3
  <2>5. Len(t.words) \in Nat /\ Len(q.words) <= Len(t.words)
        /\ (t.words # q.words => /\ Len(t.words) = Len(q.words) + 1 /\ t.words[Len(t.words)] = v
                                 /\ First + Len(q.words) < MaxCodes)
    BY <1>4, <2>2, AppendProperties
  <2>6. Matches(t.words)'
    <3>1. nextCode' <= First + Len(t.words) /\ nextCode' = First + Len(q.words)
      BY <1>3, <1>4, <2>5, PackSizes
    <3>2. ASSUME NEW c \in First..(nextCode' - 1)
          PROVE  StringOf(t.words, c) = Append(StringOf(t.words, prefix'[c]), suffix'[c])
      <4>1. StringOf(q.words, c) = Append(StringOf(q.words, prefix'[c]), suffix'[c])
        BY <1>3 DEF Matches
      <4>0. /\ First \in Nat /\ MaxCodes \in Nat /\ Literals \in Nat /\ Clear = Literals
            /\ End = Literals + 1 /\ First = Literals + 2
        BY Sizes
      <4> DEFINE L == Len(q.words)
                 p == prefix'[c]
      <4>7. L \in Nat /\ First + L <= MaxCodes /\ c \in First..(First + L - 1)
        <5>1. L \in Nat /\ First + L <= MaxCodes BY <1>4
        <5>4. nextCode' = First + L BY <3>1
        <5>2. nextCode' - 1 = First + L - 1
          <6> HIDE DEF L, p
          <6> QED BY <4>0, <5>1, <5>4
        <5> HIDE DEF L
        <5>3. c \in First..(nextCode' - 1) OBVIOUS
        <5> QED BY <5>1, <5>2, <5>3
      <4> HIDE DEF L, p
      <4>2. c \in Nat /\ c \in Codes BY <4>0, <4>7 DEF Codes
      <4>4. p < c /\ p \notin {Clear, End} BY DEF Inv, DictionaryOK, p
      <4>8. p \in Codes BY <4>2 DEF Inv, TypeOK, p
      <4>5. p \in Nat BY <4>0, <4>8 DEF Codes
      <4>6. p < Literals \/ p \in First..(First + L - 1)
        BY <4>0, <4>2, <4>4, <4>5, <4>7
      <4>9. StringOf(t.words, p) = StringOf(q.words, p) BY <2>3, <4>5, <4>6 DEF L
      <4>10. StringOf(t.words, c) = StringOf(q.words, c) BY <2>3, <4>2, <4>7 DEF L
      <4> QED BY <4>1, <4>9, <4>10 DEF p
    <3> QED BY <3>1, <3>2 DEF Matches
  <2>7. \/ /\ nextCode' = First + Len(t.words) - 1
           /\ t.words[Len(t.words)] = Append(StringOf(t.words, old'), data[t.n + 1])
        \/ nextCode' = MaxCodes /\ MaxCodes = First + Len(t.words)
    <3>1. CASE First + Len(q.words) = MaxCodes /\ t.words = q.words
      BY <1>3, <3>1
    <3>2. CASE First + Len(q.words) < MaxCodes /\ t.words = Append(q.words, v)
      <4>1. /\ Len(t.words) = Len(q.words) + 1 /\ t.words[Len(t.words)] = v
        BY <1>4, <2>1, <3>2, AppendProperties
      <4>2. First + Len(q.words) = First + Len(t.words) - 1 BY <1>4, <4>1, PackSizes
      <4> QED BY <1>3, <2>4, <4>1, <4>2 DEF v
    <3> QED BY <2>2, <3>1, <3>2
  <2>8. Latest(data, t)'
    <3>1. old' >= 0 BY <1>1, <1>3
    <3> QED BY <1>3, <2>4, <2>6, <2>7, <3>1 DEF Latest
  <2>9. pos' = Len(t.codes) + 1 BY <1>3, <1>4, <1>10
  <2> QED BY <1>3, <1>6, <1>7, <1>10, <2>8, <2>9 DEF Follows, Reading
<1> QED BY <1>2, <1>8, <1>9, <1>10

------------------------------------------------------------------------------------
(* Every step of the decoder keeps it in step.                                     *)

\* The width has grown by the time the codes of the present one are used up.
Grown == nextCode <= growAt

\* The first width is wide enough.
LEMMA GrownInit == ASSUME Init PROVE Grown
BY Sizes DEF Init, Grown

\* Every step leaves the width wide enough.
LEMMA GrownStep == ASSUME Inv, Grown, [Next]_vars PROVE Grown'
<1>0. /\ nextCode \in Nat /\ nextCode <= MaxCodes /\ growAt \in Widths /\ growAt \in Nat
      /\ First < growAt /\ MaxCodes \in Nat /\ (nextCode < MaxCodes => nextCode < growAt)
  BY Sizes DEF Inv, TypeOK, NextCodeReadable
<1>1. CASE Emit
  <2>1. CASE UNCHANGED dictionary BY <2>1 DEF Grown, dictionary
  <2>2. CASE ~UNCHANGED dictionary
    <3>1. /\ nextCode < MaxCodes /\ nextCode' = nextCode + 1
          /\ growAt' = IF nextCode + 1 >= growAt /\ growAt < MaxCodes THEN 2 * growAt ELSE growAt
      BY <1>1, <2>2 DEF Emit, EmitWith
    <3> QED BY <1>0, <3>1 DEF Grown
  <2> QED BY <2>1, <2>2
<1>2. CASE ReadClear BY <1>2, Sizes DEF ReadClear, Grown
<1>3. CASE UNCHANGED dictionary BY <1>3 DEF Grown, dictionary
<1>4. CASE RunOut \/ ReadEnd BY <1>3, <1>4 DEF RunOut, ReadEnd, Stop
<1>5. CASE AfterClear BY <1>3, <1>5 DEF AfterClear, Stop
<1>6. CASE ReadString BY <1>3, <1>6 DEF ReadString, Stop, Expand
<1>7. CASE ExpandStep BY <1>3, <1>7 DEF ExpandStep, Stop
<1>8. CASE ExpandLast BY <1>3, <1>8 DEF ExpandLast
<1>9. CASE UNCHANGED vars BY <1>3, <1>9 DEF vars
<1> QED BY <1>1, <1>2, <1>4, <1>5, <1>6, <1>7, <1>8, <1>9 DEF Next

\* A code below the width is read as it is.
LEMMA Masked == ASSUME NEW a \in Nat, NEW b \in Nat, a < b PROVE a % b = a
OBVIOUS

\* Where the packer's next code is, and how the decoder reads it.
LEMMA CodeRead ==
    ASSUME NEW data \in Seq(Chars), NEW limit, NEW i \in Nat,
           Packer(data, limit, i).n < Len(data), Inv, Grown, stream = Pack(data, limit),
           pos = Len(Packer(data, limit, i).codes) + 1
    PROVE  LET q == Packer(data, limit, i)
               c == CodeFor(q.words, Longest(q.words, data, q.n))
           IN  /\ Available
               /\ (c < nextCode \/ c < Literals \/ (c = nextCode /\ c < MaxCodes)) => Word = c
<1> DEFINE q == Packer(data, limit, i)
           c == CodeFor(q.words, Longest(q.words, data, q.n))
           k == Len(q.codes)
<1>1. k \in Nat /\ k + 2 <= Len(stream) /\ stream[k + 1] = c BY TurnSends
<1>2. c \in Nat BY Words
<1>3. pos = k + 1 /\ Len(stream) \in Nat BY LenProperties DEF Inv, TypeOK
<1> HIDE DEF q, c, k
<1>4. Available /\ Word = c % growAt BY <1>1, <1>3 DEF Available, Word
<1>5. /\ nextCode \in Nat /\ growAt \in Nat /\ Literals < growAt /\ Literals \in Nat
      /\ nextCode <= growAt /\ (nextCode < MaxCodes => nextCode < growAt) /\ MaxCodes \in Nat
  BY Sizes DEF Inv, TypeOK, NextCodeReadable, Grown
<1>6. c < nextCode \/ c < Literals \/ (c = nextCode /\ c < MaxCodes) => c < growAt
  BY <1>2, <1>5
<1>7. c < growAt => c % growAt = c BY <1>2, <1>5, Masked
<1> QED BY <1>4, <1>6, <1>7 DEF q, c

\* The end code ends the decoding.
LEMMA EndStep ==
    ASSUME NEW data, NEW limit, Inv, Next, AtEnd(data) PROVE InStep(data, limit)'
<1>1. Available
  BY DEF AtEnd, Available, Inv, TypeOK
<1>2. Word = End
  <2>1. growAt \in Nat /\ End \in Nat /\ End < growAt BY Sizes DEF Inv, TypeOK
  <2> QED BY <2>1, Masked DEF AtEnd, Word
<1>3. Clear # End BY Sizes
<1>4. ReadEnd
  BY <1>1, <1>2, <1>3 DEF AtEnd, Next, RunOut, ReadClear, AfterClear, ReadString, ExpandStep,
                          ExpandLast, Emit, EmitWith
<1> QED BY <1>4 DEF AtEnd, ReadEnd, Stop, InStep

\* A clear code of the packer is one for the decoder.
LEMMA ClearingStep ==
    ASSUME NEW data \in Seq(Chars), NEW limit, NEW i \in Nat, Inv, Next,
           Follows(data, Packer(data, limit, i)), Clearing(Packer(data, limit, i))
    PROVE  InStep(data, limit)'
<1> DEFINE q == Packer(data, limit, i)
<1>1. Available
  BY DEF Clearing, Available, Inv, TypeOK
<1>2. Word = Clear
  <2>1. growAt \in Nat /\ Clear \in Nat /\ Clear < growAt BY Sizes DEF Inv, TypeOK
  <2> QED BY <2>1, Masked DEF Clearing, Word
<1>3. Clear # End BY Sizes
<1>4. ReadClear
  BY <1>1, <1>2, <1>3 DEF Clearing, Next, RunOut, ReadEnd, AfterClear, ReadString, ExpandStep,
                          ExpandLast, Emit, EmitWith
<1>5. Cleared(q)' /\ q.n < Len(data) /\ (out = SubSeq(data, 1, q.n))'
  BY <1>4 DEF ReadClear, Follows, Clearing, Cleared
<1>6. Follows(data, q)' BY <1>5 DEF Follows
<1> QED BY <1>6 DEF InStep

\* The first code after a clear code is a literal.
LEMMA ClearedStep ==
    ASSUME NEW data \in Seq(Chars), NEW limit, NEW i \in Nat, Inv, Inv', Grown, Next,
           stream = Pack(data, limit),
           Follows(data, Packer(data, limit, i)), Cleared(Packer(data, limit, i))
    PROVE  InStep(data, limit)'
<1> DEFINE q == Packer(data, limit, i)
           w == Longest(q.words, data, q.n)
           c == CodeFor(q.words, w)
<1>1. q.n < Len(data) /\ pos = Len(q.codes) + 1 /\ q.words = <<>> /\ phase = "cleared"
      /\ nextCode = First /\ out = SubSeq(data, 1, q.n)
  BY DEF Follows, Cleared
<1>2. /\ w \in Strings /\ c \in Nat /\ StringOf(q.words, c) = w
      /\ c < Literals \/ c \in First..(First + Len(q.words) - 1)
  BY <1>1, Words
<1> HIDE DEF w
<1>3. c < Literals
  <2>1. Len(q.words) = 0 BY <1>1
  <2> HIDE DEF c, q
  <2>2. First + Len(q.words) - 1 = First - 1 BY <2>1, PackSizes
  <2>3. c \notin First..(First - 1) BY <1>2, PackSizes
  <2> QED BY <1>2, <2>2, <2>3
<1>4. w = <<c>> BY <1>2, <1>3 DEF StringOf
<1>5. Available /\ Word = c
  <2> QED BY <1>1, <1>3, CodeRead DEF w
<1>6. AfterClear
  BY <1>1, <1>5 DEF Next, RunOut, ReadEnd, ReadClear, ReadString, ExpandStep, ExpandLast, Emit,
                    EmitWith
<1>7. /\ phase' = "read" /\ pos' = pos + 1 /\ out' = Append(out, c) /\ old' = c /\ first' = c
      /\ stream' = stream /\ nextCode' = nextCode
  BY <1>3, <1>5, <1>6 DEF AfterClear, dictionary
<1>8. out' = SubSeq(data, 1, q.n) \o w /\ first' = w[1]
  <2>1. out \in Seq(Nat) BY DEF Inv, TypeOK
  <2>2. Append(out, c) = out \o <<c>> BY <1>2, <2>1, AppendIsConcat
  <2>3. w[1] = c BY <1>4
  <2>4. out' = out \o w BY <1>4, <1>7, <2>2
  <2> HIDE DEF c, q
  <2> QED BY <1>1, <1>7, <2>3, <2>4
<1>9. nextCode' = First + Len(q.words) /\ Matches(q.words)'
  <2>1. Len(q.words) = 0 /\ nextCode' = First BY <1>1, <1>7
  <2> HIDE DEF q
  <2>2. nextCode' = First + Len(q.words) /\ First \in Nat BY <2>1, PackSizes
  <2>3. First..(nextCode' - 1) = {} BY <2>1, <2>2
  <2>4. nextCode' <= First + Len(q.words) BY <2>1, <2>2
  <2> QED BY <2>2, <2>3, <2>4 DEF Matches
<1>10. pos' = Len(q.codes) + 2
  <2>1. Len(q.codes) \in Nat BY <1>1, TurnSends
  <2> HIDE DEF q
  <2> QED BY <1>1, <1>7, <2>1
<1>11. Sent(data, q)'
  BY <1>1, <1>7, <1>8, <1>9, <1>10 DEF Sent, w
<1> QED BY <1>1, <1>7, <1>11, Arrive

\* A decoder about to define the code of the packer's last word: which codes it knows,
\* and what they stand for.
LEMMA LatestIs ==
    ASSUME NEW data \in Seq(Chars), NEW q \in Packing(data), Inv, Latest(data, q)
    PROVE  /\ old \in Nat
           /\ old < Literals \/ old \in First..(First + Len(q.words) - 1)
           /\ StringOf(q.words, old) \in Strings
           /\ First + Len(q.words) - 1 <= nextCode /\ First + Len(q.words) - 1 < MaxCodes
           /\ nextCode <= First + Len(q.words) /\ Len(q.words) >= 1
<1> DEFINE m == Len(q.words)
<1>0. q.words \in Seq(Strings) /\ m \in Nat /\ First + m <= MaxCodes BY PackingIs
<1>1. /\ First \in Nat /\ MaxCodes \in Nat /\ Literals \in Nat /\ Clear = Literals
      /\ End = Literals + 1 /\ First = Literals + 2 /\ First < MaxCodes
  BY Sizes
<1>2. /\ old >= 0 /\ old \in Codes \cup {-1} /\ old < nextCode /\ old \notin {Clear, End}
      /\ nextCode \in First..MaxCodes
      /\ nextCode = First + m - 1 \/ (nextCode = MaxCodes /\ MaxCodes = First + m)
  BY DEF Inv, TypeOK, OldOK, Latest
<1> HIDE DEF m
<1>3. old \in Nat /\ (old < Literals \/ old \in First..(First + m - 1))
  BY <1>0, <1>1, <1>2 DEF Codes
<1>4. First + m - 1 <= nextCode /\ First + m - 1 < MaxCodes /\ nextCode <= First + m /\ m >= 1
  BY <1>0, <1>1, <1>2
<1>5. StringOf(q.words, old) \in Strings BY <1>0, <1>3, StringOfIs DEF m
<1> QED BY <1>3, <1>4, <1>5 DEF m

\* A string of the packer is one of the decoder's piles.
LEMMA StringsAre == Strings \subseteq Seq(Nat) /\ \A w \in Strings : w # <<>> /\ Len(w) >= 1
<1>1. Seq(Chars) \subseteq Seq(Nat) BY PackSizes, SeqMonotonic
<1>2. ASSUME NEW w \in Strings PROVE w # <<>> /\ Len(w) >= 1
  BY EmptySeq, LenProperties DEF Strings
<1> QED BY <1>1, <1>2 DEF Strings

\* Nothing piled up adds nothing to a string.
LEMMA EmptyPile == ASSUME NEW w \in Seq(Nat) PROVE w \o Reverse(<<>>) = w
<1>1. Reverse(<<>>) = <<>> BY DEF Reverse
<1> QED BY <1>1, ConcatEmptySeq

\* The code of the packer is in the decoder's dictionary, or is the one the decoder is
\* about to define.
LEMMA ReadingStep ==
    ASSUME NEW data \in Seq(Chars), NEW limit, NEW i \in Nat, Inv, Grown, Next,
           stream = Pack(data, limit),
           Follows(data, Packer(data, limit, i)), Reading(data, Packer(data, limit, i))
    PROVE  InStep(data, limit)'
<1> DEFINE q == Packer(data, limit, i)
           w == Longest(q.words, data, q.n)
           c == CodeFor(q.words, w)
           m == Len(q.words)
<1>1. /\ q.n < Len(data) /\ pos = Len(q.codes) + 1 /\ phase = "read" /\ Latest(data, q)
      /\ out = SubSeq(data, 1, q.n)
  BY DEF Follows, Reading
<1>2. /\ q \in Packing(data) /\ w \in Strings /\ c \in Nat /\ StringOf(q.words, c) = w
      /\ c < Literals \/ c \in First..(First + m - 1)
      /\ w[1] = data[q.n + 1]
  BY <1>1, Words
<1>3. /\ StringOf(q.words, old) \in Strings
      /\ First + m - 1 <= nextCode /\ First + m - 1 < MaxCodes /\ m \in Nat
      /\ nextCode \in Nat /\ nextCode >= First
  <2> HIDE DEF q
  <2>1. nextCode \in First..MaxCodes BY DEF Inv, TypeOK
  <2>2. q \in Packing(data) /\ Latest(data, q) BY <1>1, <1>2
  <2>3. /\ StringOf(q.words, old) \in Strings
        /\ First + Len(q.words) - 1 <= nextCode /\ First + Len(q.words) - 1 < MaxCodes
    BY <2>2, LatestIs
  <2>4. Len(q.words) \in Nat BY <2>2, PackingIs
  <2>5. nextCode \in Nat /\ nextCode >= First BY <2>1, PackSizes
  <2> QED BY <2>3, <2>4, <2>5
<1>4. Available /\ (c < nextCode \/ c < Literals \/ (c = nextCode /\ c < MaxCodes) => Word = c)
  BY <1>1, CodeRead
<1> HIDE DEF w, c, q, m
<1>5. /\ c < nextCode \/ (c = nextCode /\ c < MaxCodes /\ c = First + m - 1)
      /\ c \notin {Clear, End}
  <2>1. Clear = Literals /\ End = Literals + 1 /\ First = Literals + 2 /\ Literals \in Nat
    BY Sizes
  <2> QED BY <1>2, <1>3, <2>1, PackSizes
<1>6. Available /\ Word = c BY <1>4, <1>5
<1>7. ReadString
  BY <1>1, <1>5, <1>6 DEF Next, RunOut, ReadEnd, ReadClear, AfterClear, ExpandStep, ExpandLast,
                          Emit, EmitWith
<1>8. ASSUME NEW from, NEW isSpecial \in BOOLEAN, Expand(c, from, isSpecial),
             isSpecial => w = Append(StringOf(q.words, old), first),
             StringOf(q.words, from) = IF isSpecial THEN StringOf(q.words, old) ELSE w
      PROVE  InStep(data, limit)'
  <2>1. /\ phase' = "expand" /\ pos' = pos + 1 /\ code' = c /\ cur' = from /\ st' = <<>>
        /\ special' = isSpecial
        /\ UNCHANGED <<nextCode, growAt, prefix, suffix, old, first, out>>
    BY <1>8 DEF Expand, dictionary
  <2>2. Latest(data, q)' BY <1>1, <2>1 DEF Latest, Matches
  <2>3. pos' = Len(q.codes) + 2
    <3>1. Len(q.codes) \in Nat BY <1>2, PackingIs
    <3> QED BY <1>1, <2>1, <3>1
  <2>4. StringOf(q.words, from) \o Reverse(<<>>) = StringOf(q.words, from)
    <3>1. StringOf(q.words, from) \in Strings BY <1>2, <1>3, <1>8
    <3> QED BY <3>1, StringsAre, EmptyPile
  <2>5. (StringOf(q.words, cur) \o Reverse(st) =
            IF special THEN StringOf(q.words, old) ELSE w)'
    BY <1>8, <2>1, <2>4
  <2>6. (special => w = Append(StringOf(q.words, old), first))'
    BY <1>8, <2>1
  <2>7. Expanding(data, q)'
    BY <2>1, <2>2, <2>3, <2>5, <2>6 DEF Expanding, w, c
  <2>8. Follows(data, q)' BY <1>1, <2>1, <2>7 DEF Follows
  <2> QED BY <2>8 DEF InStep, q
<1>9. CASE c < nextCode
  <2>1. Expand(c, c, FALSE)
    <3>1. ~(c >= nextCode) /\ c # nextCode BY <1>2, <1>3, <1>9
    <3> QED BY <1>6, <1>7, <3>1 DEF ReadString
  <2> QED BY <1>2, <1>8, <2>1
<1>10. CASE ~(c < nextCode)
  <2>1. c = nextCode /\ c < MaxCodes /\ c = First + m - 1 BY <1>5, <1>10
  <2>2. old >= 0 BY <1>1 DEF Latest
  <2>3. Expand(c, old, TRUE)
    BY <1>6, <1>7, <1>10, <2>1, <2>2 DEF ReadString
  <2>4. w = Append(StringOf(q.words, old), first)
    <3>1. /\ nextCode = First + m - 1 /\ q.words[m] = Append(StringOf(q.words, old), data[q.n + 1])
          /\ first = StringOf(q.words, old)[1]
      BY <1>1, <2>1 DEF Latest, m
    <3>2. m >= 1 /\ ~(c < Literals) /\ c - First + 1 = m
      <4>1. c < First + m /\ ~(c < First - 1) BY <1>2, <1>3, <2>1, PackSizes
      <4> QED BY <1>2, <1>3, <2>1, <4>1, PackSizes
    <3>3. w = q.words[m] BY <1>2, <3>2 DEF StringOf
    <3>4. w[1] = StringOf(q.words, old)[1]
      <4> DEFINE u == StringOf(q.words, old)
                 x == data[q.n + 1]
      <4>1. u \in Seq(Chars) /\ Len(u) >= 1 /\ Len(u) \in Nat
        BY <1>3, StringsAre, LenProperties DEF Strings
      <4>2. x \in Chars
        <5>1. q.n \in Nat /\ q.n < Len(data) /\ Len(data) \in Nat BY <1>1, <1>2, PackingIs
        <5>2. q.n + 1 \in 1..Len(data) BY <5>1
        <5> QED BY <5>2, ElementOfSeq
      <4>3. w = Append(u, x) BY <3>1, <3>3
      <4> HIDE DEF u, x
      <4>4. 1 \in 1..Len(u) BY <4>1
      <4>5. w[1] = u[1] BY <4>1, <4>2, <4>3, <4>4, AppendProperties
      <4> QED BY <4>5 DEF u
    <3>5. first = data[q.n + 1] BY <1>2, <3>1, <3>4
    <3> QED BY <3>1, <3>3, <3>5
  <2> QED BY <1>8, <2>3, <2>4
<1> QED BY <1>9, <1>10

\* Strings join in any grouping.
LEMMA Associate ==
    ASSUME NEW a \in Seq(Nat), NEW b \in Seq(Nat), NEW c \in Seq(Nat)
    PROVE  (a \o b) \o c = a \o (b \o c)
BY ConcatAssociative

\* A character after two strings, and one piled on a string yet to come.
LEMMA ConcatOne ==
    ASSUME NEW a \in Seq(Nat), NEW x \in Nat, NEW b \in Seq(Nat)
    PROVE  /\ (a \o b) \o <<x>> = a \o Append(b, x)
           /\ b \o Reverse(Append(a, x)) = Append(b, x) \o Reverse(a)
           /\ (a \o b) \o <<>> = a \o b
<1>1. <<x>> \in Seq(Nat) /\ Reverse(a) \in Seq(Nat) BY ReverseType
<1>2. Append(b, x) = b \o <<x>> BY AppendIsConcat
<1>3. a \o b \in Seq(Nat) BY ConcatProperties
<1>4. (a \o b) \o <<>> = a \o b BY <1>3, ConcatEmptySeq
<1> DEFINE e == <<x>>
           r == Reverse(a)
<1>5. Reverse(Append(a, x)) = e \o r BY ReverseAppend
<1> HIDE DEF e, r
<1>6. e \in Seq(Nat) /\ r \in Seq(Nat) BY <1>1 DEF e, r
<1>7. (a \o b) \o e = a \o (b \o e) BY <1>6, Associate
<1>8. b \o (e \o r) = (b \o e) \o r BY <1>6, Associate
<1> QED BY <1>2, <1>4, <1>5, <1>7, <1>8 DEF e, r

\* A turn of the loop takes a character from the string that is left and piles it up.
LEMMA ExpandingStep ==
    ASSUME NEW data \in Seq(Chars), NEW limit, NEW i \in Nat, Inv, Next, phase = "expand",
           Follows(data, Packer(data, limit, i)), Expanding(data, Packer(data, limit, i))
    PROVE  InStep(data, limit)'
<1> DEFINE q == Packer(data, limit, i)
           w == Longest(q.words, data, q.n)
           target == IF special THEN StringOf(q.words, old) ELSE w
<1>1. /\ q.n < Len(data) /\ pos = Len(q.codes) + 2 /\ Latest(data, q)
      /\ out = SubSeq(data, 1, q.n) /\ code = CodeFor(q.words, w)
      /\ special => w = Append(StringOf(q.words, old), first)
      /\ StringOf(q.words, cur) \o Reverse(st) = target
  BY DEF Follows, Expanding
<1>2. q \in Packing(data) /\ q.words \in Seq(Strings) /\ Len(q.words) \in Nat
  <2>1. q \in Packing(data) BY PackerIs
  <2> HIDE DEF q
  <2> QED BY <2>1, PackingIs
<1> HIDE DEF q, w, target
<1>3. /\ st \in Seq(Nat) /\ cur \in Codes /\ cur \notin {Clear, End} /\ cur < nextCode
      /\ Len(st) < MaxCodes /\ cur \in Nat /\ nextCode \in Nat
  <2>1. /\ st \in Seq(Nat) /\ cur \in Codes /\ cur \notin {Clear, End} /\ Len(st) + cur < nextCode
        /\ nextCode \in First..MaxCodes
    BY DEF Inv, TypeOK, DepthOK
  <2>2. Len(st) \in Nat BY <2>1, LenProperties
  <2> QED BY <2>1, <2>2, PackSizes DEF Codes
<1>4. (ExpandStep \/ ExpandLast)
  BY DEF Next, RunOut, ReadEnd, ReadClear, AfterClear, ReadString, Emit, EmitWith
<1>5. ASSUME st' \in Seq(Nat), phase' \in {"expand", "emit"},
             UNCHANGED <<pos, nextCode, prefix, suffix, old, first, code, special, out>>,
             (phase = "expand" => StringOf(q.words, cur) \o Reverse(st) = target)',
             (phase = "emit" => Reverse(st) = target)'
      PROVE  InStep(data, limit)'
  <2>1. Latest(data, q)' BY <1>1, <1>5 DEF Latest, Matches
  <2>2. Expanding(data, q)' BY <1>1, <1>5, <2>1 DEF Expanding, w, target
  <2>3. Follows(data, q)' BY <1>1, <1>5, <2>2 DEF Follows
  <2> QED BY <2>3 DEF InStep, q
<1>6. CASE ExpandStep
  <2> DEFINE p == prefix[cur]
             x == suffix[cur]
  <2>1. cur \in First..(nextCode - 1)
    <3>1. cur >= Literals BY <1>6 DEF ExpandStep
    <3>2. Clear = Literals /\ End = Literals + 1 /\ First = Literals + 2 /\ Literals \in Nat
      BY Sizes
    <3> QED BY <1>3, <3>1, <3>2
  <2>2. /\ st' = Append(st, x) /\ cur' = p /\ phase' = "expand"
        /\ UNCHANGED <<pos, nextCode, prefix, suffix, old, first, code, special, out>>
    <3>1. ~(cur >= nextCode \/ Len(st) >= MaxCodes)
      <4>1. Len(st) \in Nat /\ MaxCodes \in Nat BY <1>3, LenProperties, PackSizes
      <4> QED BY <1>3, <4>1
    <3> QED BY <1>6, <3>1, Zenon DEF ExpandStep, dictionary
  <2>3. StringOf(q.words, cur) = Append(StringOf(q.words, p), x)
    BY <1>1, <2>1 DEF Latest, Matches
  <2>4. x \in Nat /\ p \in Nat /\ p < cur /\ p \notin {Clear, End}
    BY <1>3, <2>1 DEF Inv, TypeOK, DictionaryOK, Codes
  <2>5. StringOf(q.words, p) \in Strings
    <3>1. nextCode <= First + Len(q.words) BY <1>1 DEF Latest, Matches
    <3>2. Clear = Literals /\ End = Literals + 1 /\ First = Literals + 2 /\ Literals \in Nat
      BY Sizes
    <3> DEFINE m == Len(q.words)
    <3>3. m \in Nat /\ nextCode <= First + m BY <1>2, <3>1
    <3> HIDE DEF m, p
    <3>4. p < Literals \/ p \in First..(First + m - 1)
      BY <1>3, <2>1, <2>4, <3>2, <3>3
    <3> QED BY <1>2, <2>4, <3>4, StringOfIs DEF m
  <2> HIDE DEF x, p
  <2>6. StringOf(q.words, p) \o Reverse(Append(st, x)) = target
    <3>1. StringOf(q.words, p) \in Seq(Nat) BY <2>5, StringsAre
    <3> DEFINE b == StringOf(q.words, p)
    <3> HIDE DEF b
    <3>2. b \o Reverse(Append(st, x)) = Append(b, x) \o Reverse(st)
      BY <1>3, <2>4, <3>1, ConcatOne DEF b
    <3> QED BY <1>1, <2>3, <3>2 DEF b
  <2>7. target' = target BY <2>2 DEF target, q, w
  <2>8. st' \in Seq(Nat) BY <1>3, <2>2, <2>4, AppendProperties
  <2> QED BY <1>5, <2>2, <2>6, <2>7, <2>8
<1>7. CASE ExpandLast
  <2>1. /\ cur < Literals /\ st' = Append(st, cur) /\ phase' = "emit"
        /\ UNCHANGED <<pos, nextCode, prefix, suffix, old, first, code, special, out>>
    BY <1>7 DEF ExpandLast, dictionary
  <2>2. Reverse(st') = <<cur>> \o Reverse(st) BY <1>3, <2>1, ReverseAppend
  <2>3. StringOf(q.words, cur) = <<cur>> BY <2>1 DEF StringOf
  <2>4. target' = target BY <2>1 DEF target, q, w
  <2>5. st' \in Seq(Nat) BY <1>3, <2>1, AppendProperties
  <2> QED BY <1>1, <1>5, <2>1, <2>2, <2>3, <2>4, <2>5
<1> QED BY <1>4, <1>6, <1>7

\* The string put out is the one the packer sent, and the code defined is the packer's
\* last word.
LEMMA EmitStep ==
    ASSUME NEW data \in Seq(Chars), NEW limit, NEW i \in Nat, Inv, Inv', Next, phase = "emit",
           stream = Pack(data, limit),
           Follows(data, Packer(data, limit, i)), Expanding(data, Packer(data, limit, i))
    PROVE  InStep(data, limit)'
<1> DEFINE q == Packer(data, limit, i)
           w == Longest(q.words, data, q.n)
           u == StringOf(q.words, old)
           m == Len(q.words)
           x == data[q.n + 1]
<1>1. /\ q.n < Len(data) /\ pos = Len(q.codes) + 2 /\ Latest(data, q)
      /\ out = SubSeq(data, 1, q.n) /\ code = CodeFor(q.words, w)
      /\ special => w = Append(u, first)
      /\ Reverse(st) = IF special THEN u ELSE w
  BY DEF Follows, Expanding
<1>2. q \in Packing(data) /\ w \in Strings /\ w[1] = x BY <1>1, Words
<1>3. u \in Strings /\ old \in Nat
  <2>1. q \in Packing(data) /\ Latest(data, q) BY <1>1, <1>2
  <2> HIDE DEF q
  <2>2. StringOf(q.words, old) \in Strings /\ old \in Nat BY <2>1, LatestIs
  <2> QED BY <2>2
<1>4. First + m <= MaxCodes /\ m \in Nat /\ First \in Nat /\ MaxCodes \in Nat
  <2> HIDE DEF q
  <2> QED BY <1>2, PackingIs, PackSizes
<1>5. /\ first = u[1] /\ Matches(q.words)
      /\ \/ nextCode = First + m - 1 /\ q.words[m] = Append(u, x)
         \/ nextCode = MaxCodes /\ MaxCodes = First + m
  BY <1>1 DEF Latest
<1>6. Emit
  BY DEF Next, RunOut, ReadEnd, ReadClear, AfterClear, ReadString, ExpandStep, ExpandLast
<1> HIDE DEF q, w, u, m, x
<1>7. /\ out \in Seq(Nat) /\ first \in Nat /\ u \in Seq(Nat) /\ w \in Seq(Nat)
      /\ st \in Seq(Nat) /\ st # <<>> /\ nextCode \in First..MaxCodes
      /\ prefix \in [Codes -> Codes] /\ suffix \in [Codes -> Nat]
  BY <1>2, <1>3, StringsAre DEF Inv, TypeOK, NonEmpty
<1> DEFINE f == IF special THEN first ELSE st[Len(st)]
<1>8. f = w[1] /\ f = x
  <2>1. CASE special
    <3>1. w = Append(u, first) /\ 1 \in 1..Len(u)
      <4>1. Len(u) >= 1 /\ Len(u) \in Nat BY <1>3, <1>7, StringsAre, LenProperties
      <4> QED BY <1>1, <2>1, <4>1
    <3>2. w[1] = u[1] BY <1>7, <3>1, AppendProperties
    <3> QED BY <1>2, <1>5, <2>1, <3>2
  <2>2. CASE ~special
    <3>1. Reverse(st)[1] = st[Len(st)] BY <1>7, ReverseEnds
    <3> QED BY <1>1, <1>2, <2>2, <3>1
  <2> QED BY <2>1, <2>2
<1>9. out' = out \o w
  <2>1. out' = out \o Reverse(st) \o (IF special THEN <<first>> ELSE <<>>)
    BY <1>6 DEF Emit, EmitWith
  <2>2. CASE special
    <3>1. out' = (out \o u) \o <<first>> BY <1>1, <2>1, <2>2
    <3>2. (out \o u) \o <<first>> = out \o Append(u, first) BY <1>7, ConcatOne
    <3> QED BY <1>1, <2>2, <3>1, <3>2
  <2>3. CASE ~special
    <3>1. out' = (out \o w) \o <<>> BY <1>1, <2>1, <2>3
    <3>2. (out \o w) \o <<>> = out \o w BY <1>7, ConcatOne
    <3> QED BY <3>1, <3>2
  <2> QED BY <2>2, <2>3
<1>10. phase' = "read" /\ pos' = pos /\ stream' = stream /\ old' = code /\ first' = f
  BY <1>6 DEF Emit, EmitWith
<1>11. nextCode' = First + m /\ Matches(q.words)'
  <2>1. CASE nextCode = MaxCodes
    <3>1. UNCHANGED <<nextCode, prefix, suffix>>
      <4>1. ~(nextCode < MaxCodes) BY <1>4, <2>1
      <4> QED BY <1>6, <4>1 DEF Emit, EmitWith, dictionary
    <3>2. nextCode = First + m BY <1>4, <1>5, <2>1
    <3> QED BY <1>5, <3>1, <3>2 DEF Matches
  <2>2. CASE nextCode # MaxCodes
    <3>1. nextCode < MaxCodes /\ nextCode \in Nat BY <1>4, <1>7, <2>2
    <3>2. /\ prefix' = [prefix EXCEPT ![nextCode] = old]
          /\ suffix' = [suffix EXCEPT ![nextCode] = f]
          /\ nextCode' = nextCode + 1
      <4>1. old >= 0 BY <1>3
      <4> QED BY <1>6, <3>1, <4>1 DEF Emit, EmitWith
    <3>3. nextCode = First + m - 1 /\ q.words[m] = Append(u, x) BY <1>5, <2>2
    <3>4. nextCode' = First + m BY <1>4, <3>2, <3>3
    <3>5. ASSUME NEW c \in First..(nextCode' - 1)
          PROVE  StringOf(q.words, c) = Append(StringOf(q.words, prefix'[c]), suffix'[c])
      <4>1. c \in Nat /\ c <= nextCode /\ c \in Codes /\ nextCode \in Codes
        BY <1>4, <3>1, <3>2, PackSizes DEF Codes
      <4>2. CASE c = nextCode
        <5>1. prefix'[c] = old /\ suffix'[c] = f BY <1>7, <3>2, <4>1, <4>2
        <5>2. ~(c < Literals) /\ c - First + 1 = m
          BY <1>4, <3>3, <4>1, <4>2, PackSizes
        <5>3. StringOf(q.words, c) = Append(u, x) BY <3>3, <5>2 DEF StringOf
        <5> QED BY <1>8, <5>1, <5>3 DEF u
      <4>3. CASE c # nextCode
        <5>1. c \in First..(nextCode - 1) BY <1>4, <3>1, <4>1, <4>3
        <5>2. prefix'[c] = prefix[c] /\ suffix'[c] = suffix[c] BY <1>7, <3>2, <4>1, <4>3
        <5> QED BY <1>5, <5>1, <5>2 DEF Matches
      <4> QED BY <4>2, <4>3
    <3>6. nextCode' <= First + m BY <1>4, <3>4
    <3> QED BY <3>4, <3>5, <3>6 DEF Matches, m
  <2> QED BY <2>1, <2>2
<1>12. Sent(data, q)'
  BY <1>1, <1>8, <1>9, <1>10, <1>11 DEF Sent, w, m
<1> QED BY <1>1, <1>10, <1>12, Arrive DEF q

\* Every step keeps the decoder in step with the packer.
LEMMA InStepStep ==
    ASSUME NEW data \in Seq(Chars), NEW limit, Inv, Inv', Grown, [Next]_vars,
           stream = Pack(data, limit), InStep(data, limit)
    PROVE  InStep(data, limit)'
<1>1. CASE UNCHANGED vars
  <2>1. ASSUME NEW i \in Nat, Follows(data, Packer(data, limit, i))
        PROVE  Follows(data, Packer(data, limit, i))'
    BY <1>1, <2>1 DEF vars, dictionary, expansion, Follows, Clearing, Cleared, Reading,
                      Expanding, Latest, Matches
  <2>2. AtEnd(data) \/ (phase = "done" /\ out = data) => InStep(data, limit)'
    BY <1>1 DEF vars, AtEnd, InStep
  <2> QED BY <2>1, <2>2 DEF InStep
<1>2. CASE Next /\ phase = "done"
  BY <1>2 DEF Next, RunOut, ReadEnd, ReadClear, AfterClear, ReadString, ExpandStep, ExpandLast,
              Emit, EmitWith
<1>3. CASE Next /\ AtEnd(data) BY <1>3, EndStep
<1>4. ASSUME Next, NEW i \in Nat, Follows(data, Packer(data, limit, i))
      PROVE  InStep(data, limit)'
  <2> DEFINE q == Packer(data, limit, i)
  <2>1. Clearing(q) \/ Cleared(q) \/ Reading(data, q) \/ Expanding(data, q)
    BY <1>4 DEF Follows
  <2>2. Expanding(data, q) => phase = "expand" \/ phase = "emit" BY DEF Expanding
  <2> QED BY <1>4, <2>1, <2>2, ClearingStep, ClearedStep, ReadingStep, ExpandingStep, EmitStep
<1> QED BY <1>1, <1>2, <1>3, <1>4 DEF InStep

\* The packed stream begins with a clear code.
LEMMA InStepInit ==
    ASSUME NEW data \in Seq(Chars), data # <<>>, NEW limit, Init, stream = Pack(data, limit)
    PROVE  InStep(data, limit)
<1> DEFINE P(j) == Packer(data, limit, j)
<1>1. P(0) = PackStart BY PackerIs
<1>2. P(0).n = 0 /\ P(0).words = <<>> /\ P(0).codes = <<Clear>> BY <1>1 DEF PackStart
<1>3. Len(data) \in Nat /\ Len(data) > 0 BY EmptySeq, LenProperties
<1>4. P(Len(data)).codes \in Seq(Nat) BY <1>3, PackerIs DEF Packing, Packers
<1>5. Begins(P(0).codes, P(Len(data)).codes)
  <2> DEFINE z == 0
             N == Len(data)
  <2>1. z \in Nat /\ N \in Nat /\ z + N = N BY <1>3
  <2> HIDE DEF z, N
  <2>2. Begins(P(z).codes, P(z + N).codes) BY <2>1, PackerBegins
  <2> QED BY <2>1, <2>2 DEF z, N
<1> DEFINE a == P(Len(data)).codes
<1>6. stream = Append(a, End) BY DEF Pack
<1> HIDE DEF P
<1>7. Len(<<Clear>>) = 1 /\ <<Clear>>[1] = Clear OBVIOUS
<1>8. Len(a) >= 1 /\ a[1] = Clear /\ Len(a) \in Nat
  <2>1. 1 \in 1..1 OBVIOUS
  <2> QED BY <1>2, <1>4, <1>5, <1>7, <2>1, LenProperties DEF Begins
<1> HIDE DEF a
<1>9. a \in Seq(Nat) BY <1>4 DEF a
<1>10. stream[1] = Clear /\ Len(stream) >= 1
  <2>1. 1 \in 1..Len(a) BY <1>8
  <2>2. Len(Append(a, End)) = Len(a) + 1 /\ Append(a, End)[1] = a[1]
    BY <1>9, <2>1, PackSizes, AppendProperties
  <2> QED BY <1>6, <1>8, <2>2
<1>11. Clearing(P(0)) BY <1>2, <1>7, <1>10 DEF Init, Clearing
<1>12. out = SubSeq(data, 1, 0)
  <2>1. SubSeq(data, 1, 0) = <<>> BY SubSeqEmpty
  <2> QED BY <2>1 DEF Init
<1>13. Follows(data, P(0)) BY <1>2, <1>3, <1>11, <1>12 DEF Follows
<1> QED BY <1>13 DEF InStep, P

------------------------------------------------------------------------------------
(* What was packed comes out.                                                      *)

\* Every decoder of a packed stream is in step with the packer.
LockStep ==
    /\ Inv /\ Grown
    /\ \A d \in Data, l \in Limits : stream = Pack(d, l) => InStep(d, l)

\* What was packed comes out, whatever the packer's policy of clearing.
Unpacked ==
    \A d \in Data, l \in Limits :
        stream = Pack(d, l) => phase \notin Ended \ {"done"} /\ (phase = "done" => out = d)

\* At the start the decoder is before the packer's first clear code.
LEMMA LockStepInit == ASSUME Init PROVE LockStep
<1>1. Inv /\ Grown BY InitInv, GrownInit
<1>2. ASSUME NEW d \in Data, NEW l \in Limits, stream = Pack(d, l) PROVE InStep(d, l)
  <2>1. d \in Seq(Chars) /\ d # <<>> BY PackAssumption
  <2> QED BY <1>2, <2>1, InStepInit
<1> QED BY <1>1, <1>2 DEF LockStep

\* Every step of the decoder keeps it in step with every packer of its stream.
LEMMA LockStepInductive == ASSUME LockStep, [Next]_vars PROVE LockStep'
<1>1. Inv /\ Inv' /\ Grown /\ Grown' BY InvInductive, GrownStep DEF LockStep
<1>2. stream' = stream
  BY DEF vars, Next, RunOut, ReadEnd, ReadClear, AfterClear, ReadString, Expand, ExpandStep,
         ExpandLast, Emit, EmitWith, Stop
<1>3. ASSUME NEW d \in Data, NEW l \in Limits, stream' = Pack(d, l) PROVE InStep(d, l)'
  <2>1. d \in Seq(Chars) BY PackAssumption
  <2>2. stream = Pack(d, l) /\ InStep(d, l) BY <1>2, <1>3 DEF LockStep
  <2> QED BY <1>1, <2>1, <2>2, InStepStep
<1> QED BY <1>1, <1>3 DEF LockStep

\* A decoder in step has not failed, and has put out the data when it is done.
LEMMA LockStepUnpacks == ASSUME LockStep PROVE Unpacked
<1> SUFFICES ASSUME NEW d \in Data, NEW l \in Limits, InStep(d, l)
             PROVE  phase \notin Ended \ {"done"} /\ (phase = "done" => out = d)
  BY DEF LockStep, Unpacked
<1>1. CASE \E i \in Nat : Follows(d, Packer(d, l, i))
  <2>1. phase \in {"read", "cleared", "expand", "emit"}
    BY <1>1 DEF Follows, Clearing, Cleared, Reading, Expanding
  <2> QED BY <2>1 DEF Ended
<1>2. CASE AtEnd(d) BY <1>2 DEF AtEnd, Ended
<1>3. CASE phase = "done" /\ out = d BY <1>3 DEF Ended
<1> QED BY <1>1, <1>2, <1>3 DEF InStep

\* The decoder never stops with an error in a stream of the packer, and what it has put
\* out at the end code is the data that was packed, for every table size, whatever the
\* data and wherever the packer clears (unpack-easysetup.py, main).
THEOREM UnpackedHolds == Spec => []Unpacked
<1>1. Init => LockStep BY LockStepInit
<1>2. LockStep /\ [Next]_vars => LockStep' BY LockStepInductive
<1>3. LockStep => Unpacked BY LockStepUnpacks
<1> QED BY <1>1, <1>2, <1>3, PTL DEF Spec

\* Packing what came out gives the stream back.
THEOREM RoundTripHolds == Spec => []RoundTrip
<1>1. Unpacked => RoundTrip
  <2> SUFFICES ASSUME Unpacked, NEW d \in Data, NEW l \in Limits, stream = Pack(d, l)
               PROVE  /\ phase \notin Ended \ {"done"}
                      /\ phase = "done" => \E k \in Limits : Pack(out, k) = stream
    BY DEF RoundTrip, Packed
  <2>1. phase \notin Ended \ {"done"} /\ (phase = "done" => out = d) BY DEF Unpacked
  <2>2. phase = "done" => Pack(out, l) = stream BY <2>1
  <2> QED BY <2>1, <2>2
<1> QED BY <1>1, UnpackedHolds, PTL

------------------------------------------------------------------------------------
(* The decoder ends.                                                               *)

\* The decoder stops behind the last code, at the latest.
PosOK == pos <= Len(stream) + 1

\* What a code may take: reading it, a turn for each code below it, the last character,
\* and the output.
CodeSteps == MaxCodes + 3

\* A bound on the steps still to come.
StepsLeft ==
    CodeSteps * (Len(stream) + 1 - pos) + CASE phase \in Ended -> 0
                                            [] phase \in {"read", "cleared"} -> 1
                                            [] phase = "emit" -> 2
                                            [] phase = "expand" -> cur + 3

\* A code read pays for its own expansion.
LEMMA Pays ==
    ASSUME NEW n \in Nat, n >= 1, NEW c \in Codes
    PROVE  /\ CodeSteps \in Nat /\ CodeSteps * n \in Nat /\ CodeSteps * (n - 1) \in Nat
           /\ CodeSteps * (n - 1) + (c + 3) < CodeSteps * n + 1
<1>1. MaxCodes \in Nat /\ c \in Nat /\ c < MaxCodes BY Sizes DEF Codes
<1> DEFINE K == CodeSteps
<1>2. K \in Nat /\ c + 3 < K + 1 BY <1>1 DEF CodeSteps
<1> HIDE DEF K
<1>3. K * n = K * (n - 1) + K BY <1>2
<1>4. K * (n - 1) \in Nat /\ K * n \in Nat BY <1>2
<1> DEFINE a == K * (n - 1)
           b == K * n
<1>5. b = a + K /\ a \in Nat /\ b \in Nat BY <1>3, <1>4
<1> HIDE DEF a, b
<1>6. a + (c + 3) < b + 1 BY <1>1, <1>2, <1>5
<1> QED BY <1>2, <1>5, <1>6 DEF a, b, K

\* At the start nothing is read.
LEMMA PosInit == ASSUME Init PROVE PosOK
<1>1. Len(stream) \in Nat BY StreamsAssumption, LenProperties DEF Init
<1> QED BY <1>1 DEF Init, PosOK

\* Within a code, the steps left are those of the code.
LEMMA Within ==
    ASSUME Inv, PosOK, stream' = stream, pos' = pos, NEW x \in Nat, NEW y \in Nat, y < x,
           StepsLeft = CodeSteps * (Len(stream) + 1 - pos) + x,
           StepsLeft' = CodeSteps * (Len(stream) + 1 - pos) + y
    PROVE  StepsLeft \in Nat /\ StepsLeft' \in Nat /\ StepsLeft' < StepsLeft
<1> DEFINE n == Len(stream) + 1 - pos
           a == CodeSteps * n
<1>1. n \in Nat
  <2>1. Len(stream) \in Nat /\ pos \in Nat BY LenProperties DEF Inv, TypeOK
  <2> QED BY <2>1 DEF PosOK
<1> HIDE DEF n
<1>2. CodeSteps \in Nat BY Sizes DEF CodeSteps
<1>3. a \in Nat
  <2> DEFINE K == CodeSteps
  <2> HIDE DEF K
  <2>1. K \in Nat BY <1>2 DEF K
  <2>2. K * n \in Nat BY <1>1, <2>1
  <2> QED BY <2>2 DEF K
<1>4. StepsLeft = a + x /\ StepsLeft' = a + y BY DEF n
<1> HIDE DEF a
<1> QED BY <1>3, <1>4

\* Reading a code.
LEMMA Across ==
    ASSUME Inv, PosOK, Available, stream' = stream, pos' = pos + 1,
           phase \in {"read", "cleared"},
           phase' \in {"read", "cleared"} \/ (phase' = "expand" /\ cur' \in Codes)
    PROVE  StepsLeft \in Nat /\ StepsLeft' \in Nat /\ StepsLeft' < StepsLeft /\ PosOK'
<1> DEFINE n == Len(stream) + 1 - pos
           c == IF phase' = "expand" THEN cur' ELSE 0
           a == CodeSteps * n
           b == CodeSteps * (n - 1)
<1>1. n \in Nat /\ n >= 1 /\ Len(stream) \in Nat /\ pos \in Nat
  <2>1. Len(stream) \in Nat /\ pos \in Nat BY LenProperties DEF Inv, TypeOK
  <2> QED BY <2>1 DEF Available
<1>2. c \in Codes /\ c \in Nat BY Sizes DEF Codes
<1>3. StepsLeft = a + 1 BY DEF StepsLeft, Ended
<1>4. Len(stream') + 1 - pos' = n - 1 BY <1>1
<1>5. StepsLeft' = b + (IF phase' = "expand" THEN c + 3 ELSE 1)
  <2> HIDE DEF n, c
  <2>1. CASE phase' = "expand"
    <3>1. c = cur' BY <2>1 DEF c
    <3> QED BY <1>4, <2>1, <3>1 DEF StepsLeft, Ended
  <2>2. CASE phase' \in {"read", "cleared"} BY <1>4, <2>2 DEF StepsLeft, Ended
  <2> QED BY <2>1, <2>2
<1>6. PosOK' BY <1>1 DEF PosOK, Available
<1> HIDE DEF n, c
<1>7. a \in Nat /\ b \in Nat /\ b + (c + 3) < a + 1 BY <1>1, <1>2, Pays
<1> HIDE DEF a, b
<1>8. b + 1 < a + 1 BY <1>2, <1>7
<1>9. StepsLeft \in Nat BY <1>3, <1>7
<1>10. StepsLeft' \in Nat /\ StepsLeft' < StepsLeft
  <2>1. CASE phase' = "expand" BY <1>2, <1>3, <1>5, <1>7, <2>1
  <2>2. CASE phase' # "expand" BY <1>3, <1>5, <1>7, <1>8, <2>2
  <2> QED BY <2>1, <2>2
<1> QED BY <1>6, <1>9, <1>10

\* Every step is one of those that were left.
LEMMA Closer ==
    ASSUME Inv, Inv', PosOK, Next
    PROVE  StepsLeft \in Nat /\ StepsLeft' \in Nat /\ StepsLeft' < StepsLeft /\ PosOK'
<1> DEFINE left == CodeSteps * (Len(stream) + 1 - pos)
           Same == stream' = stream /\ pos' = pos
           Goal == StepsLeft \in Nat /\ StepsLeft' \in Nat /\ StepsLeft' < StepsLeft /\ PosOK'
<1>1. /\ phase \in Ended => StepsLeft = left + 0
      /\ phase \in {"read", "cleared"} => StepsLeft = left + 1
      /\ phase = "emit" => StepsLeft = left + 2
      /\ phase = "expand" => StepsLeft = left + (cur + 3)
  BY DEF StepsLeft, Ended
<1>2. Same =>
      /\ phase' \in Ended => StepsLeft' = left + 0
      /\ phase' \in {"read", "cleared"} => StepsLeft' = left + 1
      /\ phase' = "emit" => StepsLeft' = left + 2
      /\ phase' = "expand" => StepsLeft' = left + (cur' + 3)
  BY DEF StepsLeft, Ended
<1>3. cur \in Nat /\ cur' \in Nat BY Sizes DEF Inv, TypeOK, Codes
<1>4. ASSUME Same PROVE PosOK' BY <1>4 DEF PosOK
<1> HIDE DEF left
<1>5. ASSUME phase \in {"read", "cleared"}, NEW how \in Ended, Stop(how) PROVE Goal
  <2>1. Same /\ phase' \in Ended BY <1>5 DEF Stop
  <2> QED BY <1>1, <1>2, <1>4, <1>5, <2>1, Within DEF left
<1>6. CASE RunOut BY <1>5, <1>6 DEF RunOut, Ended
<1>7. CASE ReadEnd BY <1>5, <1>7 DEF ReadEnd, Ended
<1>8. CASE ReadClear BY <1>8, Across DEF ReadClear
<1>9. CASE AfterClear
  <2>1. CASE Stop("badClear") BY <1>5, <1>9, <2>1 DEF AfterClear, Ended
  <2>2. CASE phase' = "read" /\ pos' = pos + 1 /\ stream' = stream
    BY <1>9, <2>2, Across DEF AfterClear
  <2> QED BY <1>9, <2>1, <2>2 DEF AfterClear
<1>10. CASE ReadString
  <2>1. CASE Stop("badCode") BY <1>5, <1>10, <2>1 DEF ReadString, Ended
  <2>2. CASE phase' = "expand" /\ pos' = pos + 1 /\ stream' = stream
    <3>1. cur' \in Codes BY DEF Inv, TypeOK
    <3> QED BY <1>10, <2>2, <3>1, Across DEF ReadString
  <2> QED BY <1>10, <2>1, <2>2 DEF ReadString, Expand
<1>11. CASE ExpandStep
  <2>1. phase = "expand" /\ Same BY <1>11 DEF ExpandStep, Stop
  <2>2. CASE phase' = "expand" /\ cur' < cur
    <3>1. cur' + 3 < cur + 3 /\ cur + 3 \in Nat /\ cur' + 3 \in Nat
      <4>1. \A x, y \in Nat : y < x => y + 3 < x + 3 /\ x + 3 \in Nat /\ y + 3 \in Nat OBVIOUS
      <4>2. cur' < cur BY <2>2
      <4> HIDE DEF Goal
      <4> QED BY <1>3, <4>1, <4>2
    <3> QED BY <1>1, <1>2, <1>4, <2>1, <2>2, <3>1, Within DEF left
  <2>3. phase' = "expand" /\ cur' < cur
    <3>1. phase' # "expandFailed" BY DEF Inv, ExpandNeverFails
    <3>2. phase' = "expand" /\ cur' = prefix[cur]
      BY <1>11, <3>1 DEF ExpandStep, Stop
    <3>3. cur \in First..(nextCode - 1)
      <4>1. cur >= Literals /\ cur \notin {Clear, End} /\ cur < nextCode
        <5>1. Len(st) \in Nat /\ nextCode \in Nat /\ Len(st) + cur < nextCode /\ cur \notin {Clear, End}
          BY <2>1, Sizes, LenProperties DEF Inv, TypeOK, DepthOK
        <5> QED BY <1>3, <1>11, <5>1 DEF ExpandStep
      <4> QED BY <1>3, <4>1, Sizes DEF Inv, TypeOK
    <3> QED BY <3>2, <3>3 DEF Inv, DictionaryOK
  <2> QED BY <2>2, <2>3
<1>12. CASE ExpandLast
  <2>1. phase = "expand" /\ phase' = "emit" /\ Same BY <1>12 DEF ExpandLast
  <2>2. 2 < cur + 3 /\ cur + 3 \in Nat BY <1>3
  <2> QED BY <1>1, <1>2, <1>4, <2>1, <2>2, Within DEF left
<1>13. CASE Emit
  <2>1. phase = "emit" /\ phase' = "read" /\ Same BY <1>13 DEF Emit, EmitWith
  <2> QED BY <1>1, <1>2, <1>4, <2>1, Within DEF left
<1> QED BY <1>6, <1>7, <1>8, <1>9, <1>10, <1>11, <1>12, <1>13 DEF Next

\* The tool ends on every input, damaged or not: each step is one of the finitely many
\* that were left (unpack-easysetup.py, main and expand).
THEOREM Ends == Spec => [][/\ StepsLeft \in Nat
                           /\ StepsLeft' \in Nat
                           /\ StepsLeft' < StepsLeft]_vars
<1> DEFINE J == Inv /\ PosOK
<1>1. Init => J BY InitInv, PosInit
<1>2. J /\ [Next]_vars => J'
  <2>1. J /\ UNCHANGED vars => PosOK' BY DEF vars, PosOK
  <2>2. J /\ [Next]_vars => Inv' BY InvInductive
  <2>3. J /\ Next => PosOK' BY <2>2, Closer
  <2> QED BY <2>1, <2>2, <2>3
<1>3. J /\ J' /\ [Next]_vars => [/\ StepsLeft \in Nat
                                /\ StepsLeft' \in Nat
                                /\ StepsLeft' < StepsLeft]_vars
  BY Closer
<1> QED BY <1>1, <1>2, <1>3, PTL DEF Spec
====================================================================================
