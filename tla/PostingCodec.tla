---------------------------- MODULE PostingCodec ----------------------------
(***************************************************************************)
(* Blocks of postings: how a list of postings is cut into blocks, what the *)
(* skip entry of a block says, and how a block is compressed.  A posting   *)
(* is a record [doc, freq, norm]; compressed blocks are sequences of       *)
(* bytes.                                                                  *)
(***************************************************************************)
EXTENDS Integers, Sequences, FiniteSetsExt

CONSTANTS
    BlockSize,          \* TP_BLOCK_SIZE
    WordBits            \* width of a doc id, and of a frequency at most: 32 and 16 in the code

ASSUME CodecAssumption == BlockSize \in Nat \ {0} /\ WordBits \in Nat \ {0}

Bytes(bits) == (bits + 7) \div 8

\* TP_MAX_COMPRESSED_BLOCK_SIZE
MaxCompressed == 2 + 2 * Bytes(BlockSize * WordBits) + BlockSize

\* tp_compute_bit_width
BitWidth(v) == Min({b \in 1 .. WordBits : 2 ^ b > v} \cup {WordBits})

\* bitpack_encode and bitpack_decode.  The stream of bits is one number, the
\* first value in its lowest bits.
Packed(values, bits) ==
    LET stream == MapThenSumSet(LAMBDA i : (values[i] % 2 ^ bits) * 2 ^ (bits * (i - 1)),
                                DOMAIN values)
    IN  [j \in 1 .. Bytes(Len(values) * bits) |-> (stream \div 256 ^ (j - 1)) % 256]
Unpacked(bytes, count, bits) ==
    LET stream == MapThenSumSet(LAMBDA j : bytes[j] * 256 ^ (j - 1), DOMAIN bytes)
    IN  [i \in 1 .. count |-> (stream \div 2 ^ (bits * (i - 1))) % 2 ^ bits]

\* tp_compress_block.  Differences of doc ids wrap around.
Largest(values) == Max({values[i] : i \in DOMAIN values})
Compressed(block) ==
    LET deltas == [i \in DOMAIN block |->
                     (block[i].doc - (IF i = 1 THEN 0 ELSE block[i - 1].doc)) % 2 ^ WordBits]
        freqs  == [i \in DOMAIN block |-> block[i].freq]
        dw == BitWidth(Largest(deltas))
        fw == BitWidth(Largest(freqs))
    IN  <<dw, fw>> \o Packed(deltas, dw) \o Packed(freqs, fw)
          \o [i \in DOMAIN block |-> block[i].norm]

\* tp_decompress_block of the first bytes of a buffer; an empty sequence stands
\* for the error that reports a corrupted segment.
Decompressed(buf, count) ==
    LET dbytes == Bytes(count * buf[1])
        fbytes == Bytes(count * buf[2])
        deltas == Unpacked(SubSeq(buf, 3, 2 + dbytes), count, buf[1])
        freqs  == Unpacked(SubSeq(buf, 3 + dbytes, 2 + dbytes + fbytes), count, buf[2])
    IN  IF count > BlockSize \/ buf[1] \notin 1 .. WordBits \/ buf[2] \notin 1 .. WordBits
        THEN <<>>
        ELSE [i \in 1 .. count |->
                [doc  |-> MapThenSumSet(LAMBDA j : deltas[j], 1 .. i) % 2 ^ WordBits,
                 freq |-> freqs[i],
                 norm |-> buf[2 + dbytes + fbytes + i]]]

\* The skip entry of a block that is written at an offset.
SkipFirstDoc(block, at, compress) ==
    [last |-> block[1].doc, count |-> Len(block),
     tf   |-> Max({block[i].freq : i \in DOMAIN block}),
     norm |-> Min({block[i].norm : i \in DOMAIN block}),
     at   |-> at, delta |-> compress]
Skip(block, at, compress) ==
    [last |-> Max({block[i].doc : i \in DOMAIN block}), count |-> Len(block),
     tf   |-> Max({block[i].freq : i \in DOMAIN block}),
     norm |-> Min({block[i].norm : i \in DOMAIN block}),
     at   |-> at, delta |-> compress]

\* A list of postings cut into blocks, all full but the last.
NumBlocks(n) == (n + BlockSize - 1) \div BlockSize
Chunks(postings) ==
    [b \in 1 .. NumBlocks(Len(postings)) |->
       SubSeq(postings, (b - 1) * BlockSize + 1, Min({b * BlockSize, Len(postings)}))]

=============================================================================
