-------------------------------- MODULE Spdm --------------------------------
(***************************************************************************)
(* Byte vectors as the SPDM parsers read them (spdm/utils.h, utils.h), and *)
(* the layout of what a device sends: a GET_MEASUREMENTS request followed  *)
(* by its MEASUREMENTS response, the latter with measurement blocks, opaque *)
(* fields and a signature over everything before it.                       *)
(*                                                                         *)
(* Sizes that only scale the messages are constants, small in the          *)
(* instances; widths of length fields and the codes are those of the code. *)
(***************************************************************************)
EXTENDS Integers, Sequences, SequencesExt, FiniteSets

CONSTANTS
    NonceSize,          \* kNonceSize, 32
    SignatureLength     \* m_ar_signature_length, 96

\* AttestationReport::create takes kRequestLength bytes off a report of which
\* it only knows that it is longer than a signature.
ASSUME SpdmConstants ==
    /\ NonceSize \in Nat \ {0} /\ SignatureLength \in Nat
    /\ SignatureLength + 1 >= NonceSize + 5

SPDM_VERSION_1_1 == 17
SPDM_REQ_CODE_GET_MEASUREMENTS == 224
SPDM_RES_CODE_MEASUREMENTS == 96
kMeasurementSpecification == 1
kRequestLength == NonceSize + 5
kHeaderLength == 8      \* up to and with MeasurementRecordLength

Byte == 0..255

\* What lies beyond the end of a vector: no byte of it.
Wild == 256

\* Bytes i+1 to i+n of a vector, wherever they lie.
Copy(v, i, n) == [j \in 1..n |-> IF i + j \in DOMAIN v THEN v[i + j] ELSE Wild]

At(v, i) == Copy(v, i, 1)[1]

\* Variation: the comparison is off by one.
CanReadOneMore(v, i, n) == i + n <= Len(v) + 1

can_read_buffer(v, i, n) == i + n <= Len(v)

read_little_endian(v) == FoldRight(LAMBDA byte, value : byte + 256 * value, v, 0)

-----------------------------------------------------------------------------
(* What a device sends, for a nonce, blocks and fields (external).         *)

LittleEndian(value, width) == [j \in 1..width |-> (value \div 256^(j - 1)) % 256]

\* A block holds a DMTF value: type, size and the value; slack is what the
\* measurement has beyond it.
EncodeBlock(b) ==
    LET dmtf == <<b.type>> \o LittleEndian(Len(b.value), 2) \o b.value \o b.slack
    IN  <<b.index, b.spec>> \o LittleEndian(Len(dmtf), 2) \o dmtf

EncodeField(f) == LittleEndian(f.type, 2) \o LittleEndian(Len(f.data), 2) \o f.data

EncodeBlocks(blocks) == FlattenSeq([j \in DOMAIN blocks |-> EncodeBlock(blocks[j])])
EncodeFields(fields) == FlattenSeq([j \in DOMAIN fields |-> EncodeField(fields[j])])

Encode(m) ==
    LET record == EncodeBlocks(m.blocks)
        opaque == EncodeFields(m.fields)
    IN  <<SPDM_VERSION_1_1, SPDM_REQ_CODE_GET_MEASUREMENTS, 1, 255>> \o m.nonce \o <<0>>
        \o <<SPDM_VERSION_1_1, SPDM_RES_CODE_MEASUREMENTS, 0, 0, Len(m.blocks)>>
        \o LittleEndian(Len(record), 3) \o record
        \o m.deviceNonce
        \o LittleEndian(Len(opaque), 2) \o opaque
        \o m.signature

=============================================================================
