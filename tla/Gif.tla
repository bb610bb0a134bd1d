-------------------------------- MODULE Gif --------------------------------
(***************************************************************************)
(* gif.c: the reader of GIF files.  A file is a sequence of bytes; reading *)
(* n of them leaves the rest.  The decompressor is checked against the     *)
(* compressor that the format prescribes.                                  *)
(***************************************************************************)
EXTENDS Integers, Sequences, SequencesExt

CONSTANT MaxBits           \* the widest code: 12 in the format

-----------------------------------------------------------------------------
(* uncompress.  The dictionary maps a code to its last byte, the code of   *)
(* what comes before it (-1: nothing) and its length.                      *)
Bit(input, k) == (input[(k \div 8) + 1] \div 2^(k % 8)) % 2

Fresh(code_length) ==
    [c \in 0 .. 2^code_length - 1 |-> [byte |-> c, prev |-> -1, len |-> 1]]

RECURSIVE FirstByte(_, _)
FirstByte(dict, ptr) ==
    IF dict[ptr].prev = -1 THEN dict[ptr].byte ELSE FirstByte(dict, dict[ptr].prev)

RECURSIVE CopyOut(_, _)
CopyOut(dict, code) ==
    IF code = -1 THEN <<>> ELSE Append(CopyOut(dict, dict[code].prev), dict[code].byte)

Malformed == <<"malformed">>

(* The new entry: what the previous code stood for and one byte more.  For *)
(* a code that is about to be defined (KwKwK) that byte is the previous    *)
(* code's first.  The width grows when the dictionary is full.             *)
DefineEntry(r, code) ==
    LET e    == [byte |-> FirstByte(r.dict, IF code = r.ind THEN r.prev ELSE code),
                 prev |-> r.prev, len |-> r.dict[r.prev].len + 1]
        full == r.ind + 1 = 2^(r.length + 1) /\ r.length < MaxBits - 1
    IN  [r EXCEPT !.dict = (r.ind :> e) @@ r.dict, !.ind = @ + 1,
                  !.length = IF full THEN @ + 1 ELSE @]

RECURSIVE Codes(_, _, _)
Codes(r, code_length, input) ==
    LET width      == r.length + 1
        code       == FoldLeft(LAMBDA n, i : n + Bit(input, r.pos + i - 1) * 2^(i - 1), 0,
                               [i \in 1 .. width |-> i])
        pos        == r.pos + width
        clear_code == 2^code_length
        d          == IF r.prev > -1 /\ r.length < MaxBits THEN DefineEntry(r, code) ELSE r
    IN  IF r.pos \div 8 = Len(input) THEN r.out
        ELSE IF code = clear_code THEN
            Codes([r EXCEPT !.dict = Fresh(code_length), !.ind = clear_code + 2,
                            !.length = code_length, !.prev = -1, !.pos = pos],
                  code_length, input)
        ELSE IF code = clear_code + 1 THEN
            IF Len(input) - pos \div 8 > 1 THEN Malformed ELSE r.out
        ELSE IF r.prev > -1 /\ r.length < MaxBits /\ code > r.ind THEN Malformed
        ELSE Codes([d EXCEPT !.prev = code, !.pos = pos,
                             !.out = @ \o CopyOut(d.dict, code)], code_length, input)

uncompress(code_length, input) ==
    Codes([dict |-> Fresh(code_length), ind |-> 2^code_length + 2, length |-> code_length,
           prev |-> -1, pos |-> 0, out |-> <<>>], code_length, input)

-----------------------------------------------------------------------------
(* The file.  A read of n bytes that finds fewer ends the program's work;  *)
(* so does, here, a sub-block cut short, with whose length of -1 the code  *)
(* goes on to read what it does not have.                                  *)
TooShort == [ok |-> FALSE]

Rest(s, n) == SubSeq(s, n + 1, Len(s))

RECURSIVE read_sub_blocks(_, _)
read_sub_blocks(s, data) ==
    IF Len(s) < 1 \/ (Len(s) >= 1 /\ Len(s) < 1 + s[1]) THEN TooShort
    ELSE IF s[1] = 0 THEN [ok |-> TRUE, data |-> data, s |-> Tail(s)]
    ELSE read_sub_blocks(Rest(s, 1 + s[1]), data \o SubSeq(s, 2, 1 + s[1]))

(* The image's nine bytes and its code size; then its data. *)
process_image_descriptor(s) ==
    LET b == read_sub_blocks(Rest(s, 10), <<>>)
    IN  IF Len(s) < 10 THEN TooShort
        ELSE IF ~b.ok THEN TooShort
        ELSE [ok |-> TRUE, s |-> b.s, image |-> uncompress(s[10], b.data)]

GRAPHIC_CONTROL == 249
APPLICATION_EXTENSION == 255
COMMENT_EXTENSION == 254
PLAINTEXT_EXTENSION == 1

(* An extension's code and the size of its first block, which is then read *)
(* whole, except that of a comment.                                        *)
ExtensionSize == GRAPHIC_CONTROL :> 4 @@ APPLICATION_EXTENSION :> 11
                 @@ COMMENT_EXTENSION :> 0 @@ PLAINTEXT_EXTENSION :> 12

process_extension(s) ==
    IF Len(s) < 2 THEN TooShort
    ELSE IF s[1] \notin DOMAIN ExtensionSize \/ Len(s) < 2 + ExtensionSize[s[1]] THEN TooShort
    ELSE read_sub_blocks(Rest(s, 2 + ExtensionSize[s[1]]), <<>>)

IMAGE_DESCRIPTOR == 44
EXTENSION_INTRODUCER == 33
TRAILER == 59

RECURSIVE Process(_, _)
Process(s, images) ==
    LET i == process_image_descriptor(Tail(s))
        e == process_extension(Tail(s))
    IN  IF s = <<>> THEN TooShort
        ELSE IF s[1] = IMAGE_DESCRIPTOR THEN
            IF i.ok THEN Process(i.s, Append(images, i.image)) ELSE TooShort
        ELSE IF s[1] = EXTENSION_INTRODUCER THEN
            IF e.ok THEN Process(e.s, images) ELSE TooShort
        ELSE [ok |-> s[1] = TRAILER, images |-> images]

Header == <<71, 73, 70, 56, 55, 97>>     \* GIF87a

process_gif_stream(s) ==
    LET fields == s[11]
        table  == IF fields >= 128 THEN 3 * 2^((fields % 8) + 1) ELSE 0
    IN  IF Len(s) < 13 THEN TooShort
        ELSE IF SubSeq(s, 1, 6) # Header \/ Len(s) < 13 + table THEN TooShort
        ELSE Process(Rest(s, 13 + table), <<>>)

-----------------------------------------------------------------------------
(* Reference: the compressor.  Codes are emitted for the longest known     *)
(* strings; after n codes a code is as wide as the decoder's next entry    *)
(* needs; when the dictionary has no room left it is cleared.              *)
Width(cl, n) ==
    LET last == 2^cl + 2 + (IF n = 0 THEN 0 ELSE n - 1)
    IN  CHOOSE w \in cl + 1 .. MaxBits :
          /\ last < 2^w \/ w = MaxBits
          /\ \A v \in cl + 1 .. w - 1 : last >= 2^v

ToBits(code, w) == [i \in 1 .. w |-> (code \div 2^(i - 1)) % 2]

LongestKnown(words, px) ==
    CHOOSE n \in 1 .. Len(px) :
      /\ SubSeq(px, 1, n) \in DOMAIN words
      /\ n = Len(px) \/ SubSeq(px, 1, n + 1) \notin DOMAIN words

RECURSIVE Emit(_, _, _, _)
Emit(cl, px, words, n) ==
    LET fresh == [x \in {<<c>> : c \in 0 .. 2^cl - 1} |-> x[1]]
        k     == LongestKnown(words, px)
        next  == 2^cl + 2 + n
        more  == IF k = Len(px) THEN words ELSE (SubSeq(px, 1, k + 1) :> next) @@ words
    IN  IF px = <<>> THEN ToBits(2^cl + 1, Width(cl, n))
        ELSE IF next = 2^MaxBits THEN ToBits(2^cl, Width(cl, n)) \o Emit(cl, px, fresh, 0)
        ELSE ToBits(words[SubSeq(px, 1, k)], Width(cl, n)) \o Emit(cl, Rest(px, k), more, n + 1)

Compress(cl, px) ==
    LET bits == ToBits(2^cl, cl + 1)
                \o Emit(cl, px, [x \in {<<c>> : c \in 0 .. 2^cl - 1} |-> x[1]], 0)
        At(i) == IF i <= Len(bits) THEN bits[i] ELSE 0
    IN  [b \in 1 .. (Len(bits) + 7) \div 8 |->
          FoldLeft(LAMBDA n, i : n + At(8 * (b - 1) + i) * 2^(i - 1), 0, <<1, 2, 3, 4, 5, 6, 7, 8>>)]

(* A file that shows the images, with the extensions of "ext" before each, *)
(* and data in sub-blocks of at most m bytes.                              *)
Zeros(n) == [i \in 1 .. n |-> 0]

RECURSIVE SubBlocks(_, _)
SubBlocks(data, m) ==
    IF data = <<>> THEN <<0>>
    ELSE LET n == IF Len(data) < m THEN Len(data) ELSE m
         IN  <<n>> \o SubSeq(data, 1, n) \o SubBlocks(Rest(data, n), m)

ImageBlock(cl, px, ext, m) ==
    FoldLeft(LAMBDA s, x : s \o <<EXTENSION_INTRODUCER, x, ExtensionSize[x]>>
                             \o Zeros(ExtensionSize[x]) \o <<0>>, <<>>, ext)
    \o <<IMAGE_DESCRIPTOR>> \o Zeros(9) \o <<cl>> \o SubBlocks(Compress(cl, px), m)

GifFile(cl, images, ext, m, table) ==
    Header \o Zeros(4) \o <<IF table THEN 128 ELSE 0>> \o Zeros(2)
    \o (IF table THEN Zeros(6) ELSE <<>>)
    \o FoldLeft(LAMBDA s, px : s \o ImageBlock(cl, px, ext, m), <<>>, images) \o <<TRAILER>>

(* gif.c recovers the pixels: reading the file of some images finds every  *)
(* image with exactly its pixels, through growing code widths, cleared     *)
(* dictionaries, codes used before they are defined, and data split over   *)
(* sub-blocks.                                                             *)
ImagesRead(cl, images, ext, m, table) ==
    LET p == process_gif_stream(GifFile(cl, images, ext, m, table))
    IN  p.ok /\ p.images = images
=============================================================================
