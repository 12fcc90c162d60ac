--------------------------------- MODULE LzwUnpack ---------------------------------
(* The LZW decoder that takes Easy-Setup out of the BIOS ROM                       *)
(* (tools/unpack-easysetup.py).  The bit stream is a sequence of codes, of which   *)
(* the decoder sees as many low bits as its width says: grow_at is always 2^bits.  *)
(* Literals, MaxCodes and FirstWidth stand for 0x100, 4096 and 0x200, Widths for   *)
(* 0x200, 0x400, 0x800 and 0x1000.                                                 *)
EXTENDS Integers, Sequences, SequencesExt

CONSTANTS Literals, MaxCodes, FirstWidth, Widths,
          Streams      \* the code sequences to decode

Clear == Literals
End   == Literals + 1
First == Literals + 2

ASSUME SizesAssumption ==
    /\ Literals \in Nat \ {0} /\ MaxCodes \in Nat
    /\ Widths \subseteq (First + 1)..MaxCodes /\ FirstWidth \in Widths
    /\ \A w \in Widths : w = MaxCodes \/ 2 * w \in Widths

ASSUME StreamsAssumption == Streams \subseteq Seq(Nat)

VARIABLES
    stream, pos,           \* the codes, and the next one to read
    phase,                 \* what the loop does next, or how it ended
    nextCode, growAt, old, first,
    prefix, suffix,        \* the dictionary
    code, cur, st, special,   \* the string being expanded
    out

dictionary == <<nextCode, growAt, prefix, suffix>>
expansion  == <<code, cur, st, special>>
vars       == <<stream, pos, phase, dictionary, old, first, expansion, out>>

Codes == 0..(MaxCodes - 1)

\* Why the tool stops: the end code, or one of its error exits.
Ended == {"done", "unexpectedEnd", "badClear", "badCode", "expandFailed"}

TypeOK ==
    /\ stream \in Seq(Nat) /\ pos \in Nat \ {0}
    /\ phase \in {"read", "cleared", "expand", "emit"} \cup Ended
    /\ nextCode \in First..MaxCodes
    /\ growAt \in Widths
    /\ old \in Codes \cup {-1} /\ first \in Nat
    /\ prefix \in [Codes -> Codes] /\ suffix \in [Codes -> Nat]
    /\ code \in Codes /\ cur \in Codes
    /\ st \in Seq(Nat) /\ special \in BOOLEAN
    /\ out \in Seq(Nat)

Init ==
    /\ stream \in Streams /\ pos = 1 /\ phase = "read"
    /\ nextCode = First /\ growAt = FirstWidth /\ old = -1 /\ first = 0
    /\ prefix = [c \in Codes |-> 0] /\ suffix = [c \in Codes |-> 0]
    /\ code = 0 /\ cur = 0 /\ st = <<>> /\ special = FALSE
    /\ out = <<>>

------------------------------------------------------------------------------------
\* read_code(): the next bits, cut to the current width.
Available == pos <= Len(stream)
Word      == stream[pos] % growAt

Stop(how) == phase' = how /\ UNCHANGED <<stream, pos, dictionary, old, first, expansion, out>>

RunOut == phase \in {"read", "cleared"} /\ ~Available /\ Stop("unexpectedEnd")

ReadEnd == phase = "read" /\ Available /\ Word = End /\ Stop("done")

\* The clear code empties the dictionary by forgetting its size only.
ReadClear ==
    /\ phase = "read" /\ Available /\ Word = Clear
    /\ phase' = "cleared" /\ pos' = pos + 1
    /\ nextCode' = First /\ growAt' = FirstWidth /\ old' = -1
    /\ UNCHANGED <<stream, prefix, suffix, first, expansion, out>>

AfterClear ==
    /\ phase = "cleared" /\ Available
    /\ IF Word < Literals
       THEN /\ phase' = "read" /\ pos' = pos + 1
            /\ out' = Append(out, Word)
            /\ old' = Word /\ first' = Word
            /\ UNCHANGED <<stream, dictionary, expansion>>
       ELSE Stop("badClear")

Expand(c, from, isSpecial) ==
    /\ phase' = "expand" /\ pos' = pos + 1
    /\ code' = c /\ cur' = from /\ st' = <<>> /\ special' = isSpecial
    /\ UNCHANGED <<stream, dictionary, old, first, out>>

\* variant: any code up to the next free one is taken from the dictionary
ReadString_Unchecked ==
    /\ phase = "read" /\ Available /\ Word \notin {Clear, End}
    /\ IF Word <= nextCode /\ Word < MaxCodes
       THEN Expand(Word, Word, FALSE)
       ELSE Stop("badCode")

\* A known code, or the one about to be defined; every other is an error.
ReadString ==
    /\ phase = "read" /\ Available /\ Word \notin {Clear, End}
    /\ \/ Word < nextCode /\ Expand(Word, Word, FALSE)
       \/ Word = nextCode /\ old >= 0 /\ Expand(Word, old, TRUE)
       \/ Word >= nextCode /\ ~(Word = nextCode /\ old >= 0) /\ Stop("badCode")

\* One turn of expand()'s loop; the string is collected last character first.
ExpandStep ==
    /\ phase = "expand" /\ cur >= Literals
    /\ IF cur >= nextCode \/ Len(st) >= MaxCodes
       THEN Stop("expandFailed")
       ELSE /\ st' = Append(st, suffix[cur])
            /\ cur' = prefix[cur]
            /\ UNCHANGED <<stream, pos, phase, dictionary, old, first, code, special, out>>

ExpandLast ==
    /\ phase = "expand" /\ cur < Literals
    /\ st' = Append(st, cur)
    /\ phase' = "emit"
    /\ UNCHANGED <<stream, pos, dictionary, old, first, code, cur, special, out>>

\* charSpecial: the character that completes the code not yet in the dictionary;
\* full: nextCode at which the codes of the present width are used up; last: at
\* which there are no codes left
EmitWith(charSpecial, full, last) ==
    /\ phase = "emit"
    /\ out' = out \o Reverse(st) \o (IF special THEN <<charSpecial>> ELSE <<>>)
    /\ LET curFirst == IF special THEN charSpecial ELSE st[Len(st)]
       IN  /\ IF old >= 0 /\ nextCode < last
              THEN /\ prefix' = [prefix EXCEPT ![nextCode] = old]
                   /\ suffix' = [suffix EXCEPT ![nextCode] = curFirst]
                   /\ nextCode' = nextCode + 1
                   /\ growAt' = IF nextCode + 1 >= full /\ growAt < MaxCodes
                                THEN 2 * growAt ELSE growAt
              ELSE UNCHANGED dictionary
           /\ first' = curFirst
    /\ old' = code
    /\ phase' = "read"
    /\ UNCHANGED <<stream, pos, expansion>>

\* variants: the wrong end of the old string, the width grown one code late, a code
\* defined in a full dictionary
Emit_LastChar == EmitWith(st[1], growAt, MaxCodes)
Emit_LateGrow == EmitWith(first, growAt + 1, MaxCodes)
Emit_Overfull == EmitWith(first, growAt, MaxCodes + 1)

\* Output the string and define the next code.
Emit == EmitWith(first, growAt, MaxCodes)

Next == \/ RunOut \/ ReadEnd \/ ReadClear \/ AfterClear
        \/ ReadString \/ ExpandStep \/ ExpandLast \/ Emit

Spec == Init /\ [][Next]_vars

------------------------------------------------------------------------------------
\* "error: expand failed" cannot happen, even for a damaged stream: neither the
\* stale entries a clear code leaves behind nor a cycle of prefixes is ever followed.
ExpandNeverFails == phase # "expandFailed"

\* The code about to be defined, which the packer may already send, always fits the
\* width the decoder reads next; so does every code already defined.
NextCodeReadable == nextCode < MaxCodes => nextCode < growAt
====================================================================================
