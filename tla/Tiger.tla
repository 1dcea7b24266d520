-------------------------------- MODULE Tiger --------------------------------
(***************************************************************************)
(* tiger_init(), tiger_update() and tiger_end()                            *)
(* (src/src/third_party_lib/crypto_base/tiger.c), through which tiger_hash *)
(* hashes a string given in any pieces.  compress() is a function of the   *)
(* state and a block, here one that forgets nothing: ctx.res is the        *)
(* sequence of the blocks compressed.  The last word of a block is one     *)
(* element.                                                                *)
(***************************************************************************)
EXTENDS Integers, Sequences, SequencesExt

CONSTANTS
    TIGER_SZ_BLOCK,  \* 64, in bytes of which 8 are a word
    Sizes,           \* how much is given at a time
    MaxLength        \* bound: of the message

VARIABLES
    ctx,      \* [buf, res, length, version]; ctx.sz is the length of buf
    message,  \* all that has been given: byte i is the number i
    ended

vars == <<ctx, message, ended>>

compress(block, res) == Append(res, block)

Init ==
    /\ ctx \in [buf : {<<>>}, res : {<<>>}, length : {0}, version : {1, 2}]
    /\ message = <<>> /\ ended = FALSE

Cut(data) == [i \in 1..(Len(data) \div TIGER_SZ_BLOCK) |->
                  SubSeq(data, (i - 1) * TIGER_SZ_BLOCK + 1, i * TIGER_SZ_BLOCK)]

\* Variant: a buffer that is just full waits for more.
UpdatedLate(c, data) ==
    LET sz == Len(c.buf) + Len(data) IN
    IF sz <= TIGER_SZ_BLOCK THEN [c EXCEPT !.length = @ + Len(data), !.buf = @ \o data]
    ELSE [c EXCEPT !.length = @ + Len(data), !.res = FoldLeft(LAMBDA r, b : compress(b, r), @, Cut(c.buf \o data)),
                   !.buf = SubSeq(c.buf \o data, sz - (sz % TIGER_SZ_BLOCK) + 1, sz)]

\* The rest of a block waits in the buffer, until there is enough to fill it: the buffer is
\* compressed then, and so are the whole blocks that follow, from where they are.
Updated(c, data) ==
    LET sz == Len(c.buf) fill == IF sz = 0 THEN 0 ELSE TIGER_SZ_BLOCK - sz
        rest == SubSeq(data, fill + 1, Len(data))
        first == IF sz = 0 THEN c.res ELSE compress(c.buf \o SubSeq(data, 1, fill), c.res)
        over == Len(rest) - (Len(rest) % TIGER_SZ_BLOCK)
    IN IF sz + Len(data) < TIGER_SZ_BLOCK
       THEN [c EXCEPT !.length = @ + Len(data), !.buf = @ \o data]
       ELSE [c EXCEPT !.length = @ + Len(data),
                      !.res = FoldLeft(LAMBDA r, block : compress(block, r), first, Cut(rest)),
                      !.buf = SubSeq(rest, over + 1, Len(rest))]

Update(n) ==
    /\ ~ended /\ Len(message) + n <= MaxLength
    /\ LET data == [i \in 1..n |-> Len(message) + i]
       IN ctx' = Updated(ctx, data) /\ message' = message \o data
    /\ UNCHANGED ended

Zeros(n) == [i \in 1..n |-> 0]
Mark(version) == IF version = 1 THEN "0x01" ELSE "0x80"
Bits(length) == <<"bits", 8 * length>>

\* The mark, zeros to a whole word, a block more if there is no word left, zeros and the length.
End ==
    /\ ~ended /\ ended' = TRUE /\ UNCHANGED message
    /\ LET marked == Append(ctx.buf, Mark(ctx.version))
           temp == marked \o Zeros((8 - (Len(marked) % 8)) % 8)
           full == Len(temp) > TIGER_SZ_BLOCK - 8
           res == IF full THEN compress(temp, ctx.res) ELSE ctx.res
           last == IF full THEN <<>> ELSE temp
       IN ctx' = [ctx EXCEPT !.res = compress(last \o Zeros(TIGER_SZ_BLOCK - 8 - Len(last)) \o <<Bits(ctx.length)>>, res)]

Next == (\E n \in Sizes : Update(n)) \/ End

-----------------------------------------------------------------------------

\* tiger_impl(), "the original implementation": the blocks of a message given whole.
tiger_impl(str, version) ==
    LET whole == Len(str) - (Len(str) % TIGER_SZ_BLOCK)
        rest == Append(SubSeq(str, whole + 1, Len(str)), Mark(version))
        words == rest \o Zeros((8 - (Len(rest) % 8)) % 8)
        tail == IF Len(words) > TIGER_SZ_BLOCK - 8
                THEN words \o Zeros(2 * TIGER_SZ_BLOCK - 8 - Len(words)) ELSE words \o Zeros(TIGER_SZ_BLOCK - 8 - Len(words))
        Blocks(data) == IF Len(data) >= TIGER_SZ_BLOCK
                        THEN <<SubSeq(data, 1, TIGER_SZ_BLOCK), SubSeq(data, TIGER_SZ_BLOCK + 1, Len(data)) \o <<Bits(Len(str))>>>>
                        ELSE <<data \o <<Bits(Len(str))>>>>
    IN Cut(str) \o Blocks(tail)

\* However a message is cut into updates, its digest is that of the whole.
DigestOfWhole == ended => ctx.res = tiger_impl(message, ctx.version)

=============================================================================
