---------------------------------- MODULE Crc ----------------------------------
(***************************************************************************)
(* The checksum of a frame: CRC::Calculate without a table, for parameters *)
(* that reflect input and output, as CRC_32 does.  Scaled like the frames: *)
(* CharBit bits to a byte, Width bits to a CRC.                            *)
(***************************************************************************)
EXTENDS Naturals, Sequences, SequencesExt, Bitwise

CharBit == 4
Width == 8
BitMask == 2^Width - 1

\* The low numBits bits of value in reverse.
Reflect[value \in 0..BitMask, numBits \in 0..Width] ==
    IF numBits = 0 THEN 0
    ELSE (value % 2) * 2^(numBits - 1) + Reflect[value \div 2, numBits - 1]

\* CRC_32 has 0x04C11DB7 and all ones twice; the polynomial is one of Width bits.
Parameters == [polynomial |-> 7, initialValue |-> BitMask, finalXOR |-> BitMask,
               reflectInput |-> TRUE, reflectOutput |-> TRUE]

Finalize(remainder, finalXOR, reflectOutput) ==
    (IF reflectOutput THEN Reflect[remainder, Width] ELSE remainder) ^^ finalXOR

\* The remainder after numBits more bits of a byte that was added to it.
Polynomial == Reflect[Parameters.polynomial, Width]
Shifted[remainder \in 0..BitMask, numBits \in 0..CharBit] ==
    IF numBits = 0 THEN remainder
    ELSE Shifted[IF remainder % 2 = 1 THEN (remainder \div 2) ^^ Polynomial ELSE remainder \div 2,
                 numBits - 1]

\* The same for every remainder and byte at once.
AfterByte == [remainder \in 0..BitMask, byte \in 0..(2^CharBit - 1) |->
                Shifted[remainder ^^ byte, CharBit]]

CalculateRemainder(data, remainder) ==
    FoldLeft(LAMBDA r, byte : AfterByte[r, byte], remainder, data)

Calculate(data) ==
    Finalize(CalculateRemainder(data, Parameters.initialValue), Parameters.finalXOR,
             Parameters.reflectInput # Parameters.reflectOutput)
=============================================================================
