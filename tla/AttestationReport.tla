-------------------------- MODULE AttestationReport -------------------------
(***************************************************************************)
(* GpuEvidence::AttestationReport and SwitchEvidence::AttestationReport:   *)
(* what create makes of the bytes of a report (gpu/evidence.cpp,           *)
(* switch/evidence.cpp with spdm/*.cpp and the two opaque data parsers),   *)
(* and with which error or which measurements, nonce and firmware id the   *)
(* claims are made of it.  Of the other getters only the errors are kept:  *)
(* the text of versions and RIM ids, the lists of PDIs and of ports are    *)
(* passed on without another look.                                         *)
(*                                                                         *)
(* The signature is checked first, over all bytes but the last             *)
(* SignatureLength.  Only then is the report parsed, front to back, with   *)
(* every length taken from the report itself.  Whether the certificate     *)
(* chain parses and whether the signature is good is decided by OpenSSL,   *)
(* here by the environment.                                                *)
(***************************************************************************)
EXTENDS Spdm, TLC

CONSTANTS
    Reports,            \* [sent, bytes]: a message, and what arrived of it
    Damage,             \* [sent, bytes] with bytes other than Encode(sent)
    Nonces,             \* that evidence may name
    CertFwids,          \* what the device certificate says of its firmware
    NoFwid,             \* it says nothing that get_fwid can read
    MaxVersionSize,     \* MAX_OPAQUE_DATA_VERSION_SIZE, 8
    MsrElementSize,     \* MSR_COUNT_ELEMENT_SIZE, 4
    PdiSize,            \* PDI_DATA_SIZE, 8
    NumberOfPdi         \* TOTAL_NUMBER_OF_PDI, 8

ASSUME AttestationReportConstants ==
    /\ MaxVersionSize \in Nat
    /\ MsrElementSize \in Nat \ {0} /\ PdiSize \in Nat \ {0} /\ NumberOfPdi \in Nat

MAX_OPAQUE_DATA_VERSION == 1

\* GpuOpaqueDataType and SwitchOpaqueDataType, as far as the code tells them
\* apart.
DRIVER_VERSION == 3
VBIOS_VERSION == 6
MSRSCNT == 12
CHIP_SKU == 15
PROJECT == 17
PROJECT_SKU == 18
FWID == 20
SWITCH_PDI == 22
SWITCH_GPU_PDIS == 26
SWITCH_PORTS == 27
OPAQUE_DATA_VERSION == 34

VARIABLES
    device,             \* "gpu" or "switch"
    input,              \* the report: an element of Reports or Damage
    pc,
    checked,            \* the signature that was verified
    m_request_nonce,
    offset,             \* current_offset in the response
    inner,              \* the vector inside it that is being parsed
    left,               \* measurement blocks still to parse
    m_blocks,           \* m_dmtf_measurement_blocks: index to value
    fields,             \* OpaqueDataParser::m_fields
    m_signature,
    m_opaque_data_version,
    m_fields,           \* the typed opaque fields, by type
    claims,
    result

vars == <<device, input, pc, checked, m_request_nonce, offset, inner, left, m_blocks,
          fields, m_signature, m_opaque_data_version, m_fields, claims, result>>

NoClaims == [made |-> FALSE]

Init ==
    /\ device \in {"gpu", "switch"}
    /\ input \in Reports \cup Damage
    /\ pc = "create"
    /\ checked = <<>> /\ m_request_nonce = <<>> /\ m_signature = <<>>
    /\ offset = 0
    /\ inner = [data |-> <<>>, offset |-> 0]
    /\ left = 0
    /\ m_blocks = <<>> /\ fields = <<>> /\ m_fields = <<>>
    /\ m_opaque_data_version = 0
    /\ claims = NoClaims
    /\ result = "Ok"

report == input.bytes
response == Copy(report, kRequestLength, Len(report) - kRequestLength)

Fail(error) == pc' = "done" /\ result' = error

\* What create makes of a parser's error.
ParseError == IF device = "gpu" THEN "GpuEvidenceInvalid" ELSE "InternalError"
OpaqueError(error) == IF device = "gpu" THEN error ELSE "InternalError"

-----------------------------------------------------------------------------
\* The certificate chain, the architecture and the length of the report.
Create(chain, supported) ==
    /\ pc = "create"
    /\ CASE ~ chain -> Fail("InternalError")
         [] chain /\ ~ supported -> Fail("ArchitectureNotSupported")
         [] chain /\ supported /\ Len(report) <= SignatureLength -> Fail("InternalError")
         [] OTHER -> pc' = "signature" /\ UNCHANGED result
    /\ UNCHANGED <<device, input, checked, m_request_nonce, offset, inner, left, m_blocks,
                   fields, m_signature, m_opaque_data_version, m_fields, claims>>

\* verify_signature_pkcs11 over the report without its last bytes.
VerifySignature(good) ==
    /\ pc = "signature"
    /\ checked' = Copy(report, Len(report) - SignatureLength, SignatureLength)
    /\ IF good THEN pc' = "request" /\ UNCHANGED result ELSE Fail("InvalidSignature")
    /\ UNCHANGED <<device, input, m_request_nonce, offset, inner, left, m_blocks,
                   fields, m_signature, m_opaque_data_version, m_fields, claims>>

\* SpdmMeasurementRequestMessage11::parse of the first kRequestLength bytes.
ParseRequest ==
    /\ pc = "request"
    /\ LET request == Copy(report, 0, kRequestLength)
       IN  IF /\ At(request, 0) = SPDM_VERSION_1_1
              /\ At(request, 1) = SPDM_REQ_CODE_GET_MEASUREMENTS
           THEN /\ m_request_nonce' = Copy(request, 4, NonceSize)
                /\ pc' = "header" /\ UNCHANGED result
           ELSE Fail(ParseError) /\ UNCHANGED m_request_nonce
    /\ UNCHANGED <<device, input, checked, offset, inner, left, m_blocks,
                   fields, m_signature, m_opaque_data_version, m_fields, claims>>

-----------------------------------------------------------------------------
(* SpdmMeasurementResponseMessage11::parse.                                *)

MeasurementRecordLength == read_little_endian(Copy(response, 5, 3))

HeaderIsGood ==
    /\ can_read_buffer(response, 0, kHeaderLength)
    /\ At(response, 0) = SPDM_VERSION_1_1
    /\ At(response, 1) = SPDM_RES_CODE_MEASUREMENTS
    /\ At(response, 4) # 0                          \* NumberOfBlocks
    /\ can_read_buffer(response, kHeaderLength, MeasurementRecordLength)
    /\ MeasurementRecordLength > 0                  \* for there are blocks

ParseHeader ==
    /\ pc = "header"
    /\ IF HeaderIsGood
       THEN /\ left' = At(response, 4)
            /\ inner' = [data |-> Copy(response, kHeaderLength, MeasurementRecordLength),
                         offset |-> 0]
            /\ offset' = kHeaderLength + MeasurementRecordLength
            /\ pc' = "blocks" /\ UNCHANGED result
       ELSE Fail(ParseError) /\ UNCHANGED <<left, inner, offset>>
    /\ UNCHANGED <<device, input, checked, m_request_nonce, m_blocks, fields,
                   m_signature, m_opaque_data_version, m_fields, claims>>

\* The block at the current offset of the record: its size, its measurement,
\* and the DMTF value in it, whose own end is not compared with the size.
MeasurementSize == read_little_endian(Copy(inner.data, inner.offset + 2, 2))
Measurement == Copy(inner.data, inner.offset + 4, MeasurementSize)
DmtfValueSize == read_little_endian(Copy(Measurement, 1, 2))

BlockIsGood ==
    /\ can_read_buffer(inner.data, inner.offset, 4)
    /\ At(inner.data, inner.offset) >= 1
    /\ At(inner.data, inner.offset + 1) = kMeasurementSpecification
    /\ can_read_buffer(inner.data, inner.offset + 4, MeasurementSize)
    /\ can_read_buffer(Measurement, 0, 3)
    /\ can_read_buffer(Measurement, 3, DmtfValueSize)

\* Variation: the first block with an index is kept.
FirstBlockCounts ==
    /\ pc = "blocks" /\ left > 0
    /\ IF BlockIsGood
       THEN /\ m_blocks' = m_blocks @@ (At(inner.data, inner.offset) :> Copy(Measurement, 3, DmtfValueSize))
            /\ inner' = [inner EXCEPT !.offset = @ + 4 + MeasurementSize]
            /\ left' = left - 1
            /\ UNCHANGED <<pc, result>>
       ELSE Fail(ParseError) /\ UNCHANGED <<m_blocks, inner, left>>
    /\ UNCHANGED <<device, input, checked, m_request_nonce, offset, fields,
                   m_signature, m_opaque_data_version, m_fields, claims>>

\* parse_measurement_block: the last block with an index is kept.
ParseBlock ==
    /\ pc = "blocks" /\ left > 0
    /\ IF BlockIsGood
       THEN /\ m_blocks' = (At(inner.data, inner.offset) :> Copy(Measurement, 3, DmtfValueSize)) @@ m_blocks
            /\ inner' = [inner EXCEPT !.offset = @ + 4 + MeasurementSize]
            /\ left' = left - 1
            /\ UNCHANGED <<pc, result>>
       ELSE Fail(ParseError) /\ UNCHANGED <<m_blocks, inner, left>>
    /\ UNCHANGED <<device, input, checked, m_request_nonce, offset, fields,
                   m_signature, m_opaque_data_version, m_fields, claims>>

\* All blocks are parsed: the record must be used up.
BlocksDone ==
    /\ pc = "blocks" /\ left = 0
    /\ IF inner.offset = Len(inner.data) THEN pc' = "opaque" /\ UNCHANGED result
                                         ELSE Fail(ParseError)
    /\ UNCHANGED <<device, input, checked, m_request_nonce, offset, inner, left, m_blocks,
                   fields, m_signature, m_opaque_data_version, m_fields, claims>>

OpaqueLength == read_little_endian(Copy(response, offset + NonceSize, 2))

\* The nonce of the device, the length of the opaque data, and the data.
TakeOpaqueData ==
    /\ pc = "opaque"
    /\ IF /\ can_read_buffer(response, offset, NonceSize + 2)
          /\ can_read_buffer(response, offset + NonceSize + 2, OpaqueLength)
          /\ OpaqueLength > 0
       THEN /\ inner' = [data |-> Copy(response, offset + NonceSize + 2, OpaqueLength),
                         offset |-> 0]
            /\ offset' = offset + NonceSize + 2 + OpaqueLength
            /\ pc' = "fields" /\ UNCHANGED result
       ELSE Fail(ParseError) /\ UNCHANGED <<inner, offset>>
    /\ UNCHANGED <<device, input, checked, m_request_nonce, left, m_blocks, fields,
                   m_signature, m_opaque_data_version, m_fields, claims>>

\* The opaque field at the current offset.
FieldType == read_little_endian(Copy(inner.data, inner.offset, 2))
FieldSize == read_little_endian(Copy(inner.data, inner.offset + 2, 2))

FieldIsGood ==
    /\ can_read_buffer(inner.data, inner.offset, 4)
    /\ can_read_buffer(inner.data, inner.offset + 4, FieldSize)

\* Variation: an empty field is skipped before the offset has moved on.
SkipEmptyField ==
    /\ pc = "fields" /\ inner.offset < Len(inner.data)
    /\ IF FieldIsGood
       THEN IF FieldSize = 0 THEN UNCHANGED <<fields, inner, pc, result>>
            ELSE /\ fields' = Append(fields, [type |-> FieldType,
                                              data |-> Copy(inner.data, inner.offset + 4, FieldSize)])
                 /\ inner' = [inner EXCEPT !.offset = @ + 4 + FieldSize]
                 /\ UNCHANGED <<pc, result>>
       ELSE Fail(ParseError) /\ UNCHANGED <<fields, inner>>
    /\ UNCHANGED <<device, input, checked, m_request_nonce, offset, left, m_blocks,
                   m_signature, m_opaque_data_version, m_fields, claims>>

\* One round of the loop of OpaqueDataParser::parse.
ParseField ==
    /\ pc = "fields" /\ inner.offset < Len(inner.data)
    /\ IF FieldIsGood
       THEN /\ fields' = Append(fields, [type |-> FieldType,
                                         data |-> Copy(inner.data, inner.offset + 4, FieldSize)])
            /\ inner' = [inner EXCEPT !.offset = @ + 4 + FieldSize]
            /\ UNCHANGED <<pc, result>>
       ELSE Fail(ParseError) /\ UNCHANGED <<fields, inner>>
    /\ UNCHANGED <<device, input, checked, m_request_nonce, offset, left, m_blocks,
                   m_signature, m_opaque_data_version, m_fields, claims>>

\* Variation: what follows the signature is ignored.
TrailingBytesIgnored ==
    /\ pc = "fields" /\ inner.offset >= Len(inner.data)
    /\ IF can_read_buffer(response, offset, SignatureLength)
       THEN /\ m_signature' = Copy(response, offset, SignatureLength)
            /\ offset' = offset + SignatureLength
            /\ pc' = (IF device = "gpu" THEN "version" ELSE "typed")
            /\ UNCHANGED result
       ELSE Fail(ParseError) /\ UNCHANGED <<m_signature, offset>>
    /\ UNCHANGED <<device, input, checked, m_request_nonce, inner, left, m_blocks,
                   fields, m_opaque_data_version, m_fields, claims>>

\* The loop ends; the signature, with which the response must end.
TakeSignature ==
    /\ pc = "fields" /\ inner.offset >= Len(inner.data)
    /\ IF /\ inner.offset = Len(inner.data)
          /\ can_read_buffer(response, offset, SignatureLength)
          /\ offset + SignatureLength = Len(response)
       THEN /\ m_signature' = Copy(response, offset, SignatureLength)
            /\ offset' = offset + SignatureLength
            /\ pc' = (IF device = "gpu" THEN "version" ELSE "typed")
            /\ UNCHANGED result
       ELSE Fail(ParseError) /\ UNCHANGED <<m_signature, offset>>
    /\ UNCHANGED <<device, input, checked, m_request_nonce, inner, left, m_blocks,
                   fields, m_opaque_data_version, m_fields, claims>>

-----------------------------------------------------------------------------
(* GpuOpaqueDataParser::create and SwitchOpaqueDataParser::create.         *)

VersionFields == SelectSeq(fields, LAMBDA f : f.type = OPAQUE_DATA_VERSION)

\* The first loop of the GPU parser looks for the version of the format.
FindVersion ==
    /\ pc = "version"
    /\ LET version == IF VersionFields = <<>> THEN 0
                      ELSE read_little_endian(Last(VersionFields).data)
       IN  IF \E j \in DOMAIN VersionFields : Len(VersionFields[j].data) > MaxVersionSize
           THEN Fail("InternalError") /\ UNCHANGED m_opaque_data_version
           ELSE IF version > MAX_OPAQUE_DATA_VERSION
           THEN Fail("GpuFwNotSupported") /\ UNCHANGED m_opaque_data_version
           ELSE m_opaque_data_version' = version /\ pc' = "typed" /\ UNCHANGED result
    /\ UNCHANGED <<device, input, checked, m_request_nonce, offset, inner, left, m_blocks,
                   fields, m_signature, m_fields, claims>>

IsValidType(type) == type \in 1..(IF device = "gpu" THEN 36 ELSE 27)

PdisLength == NumberOfPdi * PdiSize

\* The typed fields that a raw field adds.  The one of a switch that lists
\* PDIs is followed by ports, which become a field of their own.  A vector of
\* counts, PDIs or ports is left in one piece, and bits stay bits.
Typed(f) ==
    IF device = "switch" /\ f.type = SWITCH_GPU_PDIS
    THEN (f.type :> Copy(f.data, 0, PdisLength))
         @@ (SWITCH_PORTS :> Copy(f.data, PdisLength, Len(f.data) - PdisLength))
    ELSE f.type :> f.data

TypedFieldIsGood(f) ==
    /\ f.type = MSRSCNT => Len(f.data) % MsrElementSize = 0
    /\ device = "gpu" /\ f.type = SWITCH_PDI => Len(f.data) % PdiSize = 0
    /\ device = "switch" /\ f.type = SWITCH_GPU_PDIS => can_read_buffer(f.data, 0, PdisLength)

\* One round of the loop over the fields; left counts them from here on.
TypeField ==
    /\ pc = "typed" /\ left < Len(fields)
    /\ LET f == fields[left + 1]
       IN  IF ~ IsValidType(f.type)
           THEN Fail(OpaqueError("BadArgument")) /\ UNCHANGED <<m_fields, left>>
           ELSE IF ~ TypedFieldIsGood(f)
           THEN Fail(OpaqueError("InternalError")) /\ UNCHANGED <<m_fields, left>>
           ELSE /\ m_fields' = Typed(f) @@ m_fields
                /\ left' = left + 1
                /\ UNCHANGED <<pc, result>>
    /\ UNCHANGED <<device, input, checked, m_request_nonce, offset, inner, m_blocks,
                   fields, m_signature, m_opaque_data_version, claims>>

\* The report is accepted.
Created ==
    /\ pc = "typed" /\ left = Len(fields)
    /\ pc' = "created"
    /\ UNCHANGED <<device, input, checked, m_request_nonce, offset, inner, left, m_blocks,
                   fields, m_signature, m_opaque_data_version, m_fields, claims, result>>

-----------------------------------------------------------------------------
(* The claims, from what the getters find.                                 *)

\* get_field, and get_byte_vector of what it finds: the fields asked for as
\* bytes here are parsed as bytes.
Has(type) == type \in DOMAIN m_fields

\* RIMs number measurements from zero.
get_measurements == [j \in {i - 1 : i \in DOMAIN m_blocks} |-> m_blocks[j + 1]]

\* Variation: only the sizes are compared.
NonceSizeMismatch(nonce) == Len(m_request_nonce) # Len(nonce)

NonceMismatch(nonce) == m_request_nonce # nonce

\* get_vbios_version of a GPU takes the two hex digits before the middle of
\* those of the field: substr throws if the field has less than two bytes.
VbiosThrows == Has(VBIOS_VERSION) /\ Len(m_fields[VBIOS_VERSION]) < 2

\* What can go wrong in generate_attestation_report_claims of either report,
\* in this order.  Whether the claims of the certificate chain can be made
\* (chain) is the business of OcspChain.tla; whether get_hwmodel and get_ueid
\* find what they look for in the certificate (identity), that of OpenSSL.
ReportClaimErrors(fwid, chain, identity) ==
    << <<Has(FWID) /\ fwid = NoFwid, "CertFwid">>,
       <<Has(FWID) /\ m_fields[FWID] # fwid, "FwidMismatch">>,
       <<~ chain, "CertChain">>,
       <<~ identity, "CertIdentity">> >>

\* The same for get_driver_rim_id and get_vbios_rim_id of a GPU, after the
\* claims.  The versions have been found before, and the architecture is one
\* that create accepted: get_driver_rim_id succeeds.
RimIdErrors == << <<\E type \in {PROJECT, PROJECT_SKU, CHIP_SKU} : ~ Has(type), "SpdmFieldNotFound">> >>

\* The same for generate_gpu_evidence_claims.
GpuClaimErrors(nonce, fwid, chain, identity) ==
    << <<~ Has(DRIVER_VERSION), "SpdmFieldNotFound">>,
       <<~ Has(VBIOS_VERSION), "SpdmFieldNotFound">>,
       <<VbiosThrows, "exception">>,
       <<NonceMismatch(nonce), "NonceMismatch">> >>
    \o ReportClaimErrors(fwid, chain, identity)
    \o RimIdErrors

\* The same for generate_switch_evidence_claims; its get_vbios_rim_id needs no
\* more than the VBIOS version.
SwitchClaimErrors(nonce, fwid, chain, identity) ==
    << <<NonceMismatch(nonce), "NonceMismatch">>,
       <<~ Has(VBIOS_VERSION), "SpdmFieldNotFound">> >>
    \o ReportClaimErrors(fwid, chain, identity)

\* The evidence that holds the report names a nonce, its certificate a FWID.
GenerateClaims(nonce, fwid, chain, identity) ==
    /\ pc = "created"
    /\ LET errors == IF device = "gpu" THEN GpuClaimErrors(nonce, fwid, chain, identity)
                                       ELSE SwitchClaimErrors(nonce, fwid, chain, identity)
           first == SelectInSeq(errors, LAMBDA e : e[1])
       IN  IF first # 0 THEN Fail(errors[first][2]) /\ UNCHANGED claims
           ELSE /\ claims' = [made |-> TRUE, nonce |-> nonce, fwid |-> fwid,
                              measurements |-> get_measurements]
                /\ pc' = "done" /\ UNCHANGED result
    /\ UNCHANGED <<device, input, checked, m_request_nonce, offset, inner, left, m_blocks,
                   fields, m_signature, m_opaque_data_version, m_fields>>

-----------------------------------------------------------------------------
Step ==
    \/ \E chain, supported \in BOOLEAN : Create(chain, supported)
    \/ \E good \in BOOLEAN : VerifySignature(good)
    \/ ParseRequest \/ ParseHeader
    \/ ParseBlock \/ BlocksDone
    \/ TakeOpaqueData \/ ParseField \/ TakeSignature
    \/ FindVersion \/ TypeField \/ Created
    \/ \E nonce \in Nonces, fwid \in CertFwids \cup {NoFwid}, chain, identity \in BOOLEAN :
          GenerateClaims(nonce, fwid, chain, identity)

Spec == Init /\ [][Step]_vars /\ WF_vars(Step)

-----------------------------------------------------------------------------
HasWild(v) == \E j \in DOMAIN v : v[j] = Wild

\* No parser reads past the end of the vector it was given, whatever lengths
\* the report claims, and in particular the request can be split off a report
\* of which only its being longer than a signature was checked.
ReadsStayInside ==
    /\ pc \notin {"create", "signature", "request", "done"} => offset <= Len(response)
    /\ inner.offset <= Len(inner.data) /\ ~ HasWild(inner.data)
    /\ ~ HasWild(m_request_nonce) /\ ~ HasWild(checked) /\ ~ HasWild(m_signature)
    /\ \A i \in DOMAIN m_blocks : ~ HasWild(m_blocks[i])
    /\ \A i \in DOMAIN fields : ~ HasWild(fields[i].data)

\* The parser, which finds the signature by adding up lengths from the front,
\* finds the same bytes that create took from the end and verified: nothing
\* that is parsed as data is left out of what was signed.
SignatureIsTheOneChecked == pc = "created" => m_signature = checked

\* What the device meant: the last block of an index, and every field.
LastBlock(blocks, index) ==
    blocks[CHOOSE j \in DOMAIN blocks :
             /\ blocks[j].index = index
             /\ \A k \in DOMAIN blocks : blocks[k].index = index => k <= j]

MeantBlocks(m) ==
    [index \in {m.blocks[j].index : j \in DOMAIN m.blocks} |-> LastBlock(m.blocks, index).value]

\* A report that arrives as the device encoded it is read as the device meant
\* it, with the measurements numbered from zero in the claims; one that was
\* cut off or goes on after its end is never accepted.
ReportsAreUnderstood ==
    /\ pc = "created" /\ input \in Reports =>
          /\ m_request_nonce = input.sent.nonce
          /\ m_blocks = MeantBlocks(input.sent)
          /\ fields = input.sent.fields
    /\ pc = "created" => Len(report) = Len(Encode(input.sent))
    /\ claims.made /\ input \in Reports =>
          \A index \in DOMAIN MeantBlocks(input.sent) :
             claims.measurements[index - 1] = MeantBlocks(input.sent)[index]

\* Claims are only made for evidence whose nonce is among the signed bytes of
\* the report, in the request, and whose certificate names the firmware that
\* the report names, the last time that it does, if it names any.
ClaimsAreBacked ==
    claims.made =>
        /\ claims.nonce = SubSeq(report, 5, 4 + NonceSize)
        /\ LET fwids == SelectSeq(fields, LAMBDA f : f.type = FWID)
           IN  fwids # <<>> => claims.fwid = Last(fwids).data

\* Parsing ends, whatever the report says of its lengths and numbers.
ParsingEnds == <>(pc = "done")

=============================================================================
