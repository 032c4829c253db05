------------------------ MODULE MCAttestationReport -------------------------
(***************************************************************************)
(* Reports of nonces of one byte and signatures of five: every combination *)
(* of a few measurement records and opaque data, and three of them with    *)
(* every truncation, one byte too many, and every byte changed.            *)
(***************************************************************************)
EXTENDS AttestationReport

Block(index, value, slack) ==
    [index |-> index, spec |-> 1, type |-> 0, value |-> value, slack |-> slack]

Field(type, data) == [type |-> type, data |-> data]

MCBlocks ==
    { <<Block(1, <<7>>, <<>>)>>,
      <<Block(1, <<7>>, <<8>>), Block(3, <<>>, <<>>)>>,
      <<Block(2, <<7>>, <<>>), Block(2, <<6>>, <<>>)>>,
      <<Block(0, <<7>>, <<>>)>>,
      <<>> }

\* Types of fields that parse like any other.
DISABLED_PORTS == 23
CHIP_INFO == 35

Driver == Field(DRIVER_VERSION, <<53, 54, 0>>)
Vbios == Field(VBIOS_VERSION, <<1, 150>>)
RimNames == <<Field(PROJECT, <<71>>), Field(PROJECT_SKU, <<48, 0>>), Field(CHIP_SKU, <<56>>)>>
Complete == <<Driver, Vbios>> \o RimNames

MCFields ==
    { Complete \o more : more \in
        { <<>>,
          <<Field(FWID, <<5>>)>>,
          <<Field(OPAQUE_DATA_VERSION, <<1>>)>>,
          <<Field(OPAQUE_DATA_VERSION, <<0>>), Field(OPAQUE_DATA_VERSION, <<1, 0>>)>>,
          <<Field(OPAQUE_DATA_VERSION, <<2>>)>>,
          <<Field(OPAQUE_DATA_VERSION, <<0, 0, 0>>)>>,
          <<Field(MSRSCNT, <<1, 0, 2, 0>>), Field(CHIP_INFO, <<>>)>>,
          <<Field(MSRSCNT, <<1, 0, 2>>)>>,
          <<Field(SWITCH_PDI, <<1, 2, 3, 4>>), Field(SWITCH_GPU_PDIS, <<2, 1, 9>>)>>,
          <<Field(SWITCH_GPU_PDIS, <<1>>)>>,
          <<Field(DISABLED_PORTS, <<129>>), Field(VBIOS_VERSION, <<1>>)>>,
          <<Field(40, <<1>>)>> } }
    \cup { <<>>, <<Vbios>>, <<Driver>>, <<Driver, Vbios>> }

Message(nonce, blocks, opaque) ==
    [nonce |-> nonce, blocks |-> blocks, deviceNonce |-> <<3>>, fields |-> opaque,
     signature |-> <<90, 91, 92, 93, 94>>]

MCNonces == {<<1>>, <<2>>}
MCCertFwids == {<<5>>, <<6>>}

MCReports ==
    { [sent |-> m, bytes |-> Encode(m)] :
        m \in { Message(<<1>>, blocks, opaque) : blocks \in MCBlocks, opaque \in MCFields } }

Damaged ==
    { Message(<<1>>, <<Block(1, <<7>>, <<8>>), Block(3, <<>>, <<>>)>>,
              <<Vbios, Field(FWID, <<5>>), Field(CHIP_INFO, <<>>)>>),
      Message(<<2>>, <<Block(2, <<1, 1, 4>>, <<>>), Block(1, <<>>, <<>>)>>, <<Driver, Vbios>>),
      Message(<<1>>, <<Block(1, <<7>>, <<>>)>>, <<Field(SWITCH_GPU_PDIS, <<2, 1, 9>>), Vbios>>) }

DamageOf(v) ==
    { SubSeq(v, 1, n) : n \in 0..(Len(v) - 1) }
    \cup { Append(v, byte) : byte \in {0, 94} }
    \cup { [v EXCEPT ![j] = byte] : j \in DOMAIN v, byte \in {0, 1, 2, 5, 255} }

MCDamage ==
    UNION { { [sent |-> m, bytes |-> v] : v \in DamageOf(Encode(m)) \ {Encode(m)} } : m \in Damaged }

=============================================================================
