---------------------------------- MODULE LzwPack ----------------------------------
(* The packer LzwUnpack is the inverse of.  It is not in the repository: this is the *)
(* LZW packer of the textbooks, with any policy of clearing the dictionary.         *)
EXTENDS LzwUnpack, Repetition

CONSTANTS
    Data,         \* what is packed
    Limits        \* the next free code at which the packer clears; any above
                  \* MaxCodes stands for a packer that goes on with a full dictionary

Chars == 0..(Literals - 1)

ASSUME PackAssumption ==
    /\ Data \subseteq Seq(Chars) \ {<<>>}
    /\ Limits \subseteq Nat /\ \A l \in Limits : l >= First

\* words are the strings with a code of their own, in the order of their codes; n
\* characters of the data are packed.
Packers == [codes: Seq(Nat), words: Seq(Seq(Chars)), n: Nat]

\* The packer begins with a clear code.
PackStart == [codes |-> <<Clear>>, words |-> <<>>, n |-> 0]

Known(words, w) == Len(w) = 1 \/ \E k \in DOMAIN words : words[k] = w

CodeFor(words, w) ==
    IF Len(w) = 1 THEN w[1] ELSE First - 1 + CHOOSE k \in DOMAIN words : words[k] = w

\* The longest known string with which the data goes on.
Longest(words, data, n) ==
    LET Lengths == {k \in 1..(Len(data) - n) : Known(words, SubSeq(data, n + 1, n + k))}
        longest == CHOOSE k \in Lengths : \A j \in Lengths : j <= k
    IN  SubSeq(data, n + 1, n + longest)

\* One code sent: the string's, which with the next character becomes a word, or after
\* which the dictionary is cleared.
PackOne(data, limit, s) ==
    LET w    == Longest(s.words, data, s.n)
        n    == s.n + Len(w)
        sent == Append(s.codes, CodeFor(s.words, w))
        next == First + Len(s.words)
    IN  IF n < Len(data) /\ next = limit
        THEN [codes |-> Append(sent, Clear), words |-> <<>>, n |-> n]
        ELSE [codes |-> sent, n |-> n,
              words |-> IF n = Len(data) \/ next = MaxCodes THEN s.words
                        ELSE Append(s.words, Append(w, data[n + 1]))]

PackTurn(data, limit) ==
    [s \in Packers |-> IF s.n = Len(data) THEN s ELSE PackOne(data, limit, s)]

\* The packer after i turns; there are no more turns than characters.
Packer(data, limit, i) == Repeat(PackTurn(data, limit), PackStart, i)

Pack(data, limit) == Append(Packer(data, limit, Len(data)).codes, End)

Packed == {Pack(d, l) : d \in Data, l \in Limits}

\* A packed stream is decoded to its end, and what comes out is what was packed:
\* packing it again gives the stream back (main, read_code and expand together).
RoundTrip ==
    stream \in Packed =>
        /\ phase \notin Ended \ {"done"}
        /\ phase = "done" => \E l \in Limits : Pack(out, l) = stream
====================================================================================
