---------------------------------- MODULE Der ----------------------------------
(***************************************************************************)
(* The DER codec of src/infrastructure/rfc3161_client.py over sequences of *)
(* bytes.  An encoder returns bytes; a decoder returns a record with ok,   *)
(* where ok = FALSE stands for a raised DerError.  Integers and lengths    *)
(* stay below 2^31, where the code has Python integers.                    *)
(***************************************************************************)
EXTENDS Integers, Sequences, SequencesExt

MaxInt == 2147483647      \* bound: the largest integer, and the longest content
Byte == 0..255
Message == {data \in Seq(Byte) : Len(data) <= MaxInt}

Raised == [ok |-> FALSE]
Returned(x) == [ok |-> TRUE, val |-> x]

\* What a chain of checks yields: the value when all hold, a DerError otherwise.
When(cond, x) == IF cond THEN Returned(x) ELSE Raised

\* r, and F of its value: a DerError ends the chain.
Then(r, F(_)) == IF r.ok THEN F(r.val) ELSE r

-------------------------------------------------------------------------------
(* Encoding.  The client encodes numbers that are not negative and the     *)
(* identifiers below, for which no encoder raises.                         *)

BigEndian[n \in 0..MaxInt] ==
  IF n = 0 THEN <<>> ELSE Append(BigEndian[n \div 256], n % 256)

DerLength(n) ==
  IF n < 128 THEN <<n>> ELSE <<128 + Len(BigEndian[n])>> \o BigEndian[n]

Tlv(tag, content) == <<tag>> \o DerLength(Len(content)) \o content

DerBoolean(b) == Tlv(1, <<IF b THEN 255 ELSE 0>>)

\* Mutant of DerInteger.
DerIntegerUnsigned(n) == Tlv(2, BigEndian[n])

\* A leading zero keeps the sign bit clear.
Signed(raw) == IF raw = <<>> \/ raw[1] >= 128 THEN <<0>> \o raw ELSE raw
DerInteger(n) == Tlv(2, Signed(BigEndian[n]))

DerOctetString(data) == Tlv(4, data)
DerNull == Tlv(5, <<>>)

HighGroups[n \in 0..MaxInt] ==
  IF n = 0 THEN <<>> ELSE Append(HighGroups[n \div 128], 128 + (n % 128))

\* An object identifier is the sequence of its arcs.
DerOid(arcs) ==
  Tlv(6, <<40 * arcs[1] + arcs[2]>>
           \o FlattenSeq([i \in 1..(Len(arcs) - 2) |->
                Append(HighGroups[arcs[i + 2] \div 128], arcs[i + 2] % 128)]))

DerGeneralizedTime(text) == Tlv(24, text)
DerSequence(children) == Tlv(48, FlattenSeq(children))
DerSet(children) == Tlv(49, FlattenSeq(children))
DerExplicit(n, inner) == Tlv(160 + n, inner)

-------------------------------------------------------------------------------
(* Decoding.                                                               *)

FromBytes(bytes) ==
  LET value[n \in 0..Len(bytes)] == IF n = 0 THEN 0 ELSE 256 * value[n - 1] + bytes[n]
  IN  value[Len(bytes)]

\* Tag and length octets: where the content starts and how long it is.
Header(data) ==
  IF Len(data) < 2 THEN Raised
  ELSE LET long == data[2] >= 128
           n == IF long THEN data[2] - 128 ELSE 0
       IN  IF data[1] % 32 = 31 \/ (long /\ n = 0) \/ 2 + n > Len(data) THEN Raised
           ELSE Returned([start |-> 2 + n,
                          length |-> IF long THEN FromBytes(SubSeq(data, 3, 2 + n))
                                             ELSE data[2]])

\* Mutant of Content.
ContentLenient(data, h) ==
  LET end == h.start + h.length IN
  Returned(SubSeq(data, h.start + 1, IF end > Len(data) THEN Len(data) ELSE end))

Content(data, h) ==
  When(h.start + h.length <= Len(data), SubSeq(data, h.start + 1, h.start + h.length))

IsConstructed(tag) == (tag \div 32) % 2 = 1

\* The first TLV of data as a node, and the bytes after it; all reads the children.
FirstTlv(data, all) ==
  Then(Header(data), LAMBDA h :
    Then(Content(data, h), LAMBDA content :
      Then(IF IsConstructed(data[1]) THEN all[content] ELSE Returned(<<>>),
        LAMBDA children :
          Returned([node |-> [class |-> data[1] \div 64, number |-> data[1] % 32,
                              constructed |-> IsConstructed(data[1]),
                              content |-> content, children |-> children],
                    next |-> SubSeq(data, h.start + h.length + 1, Len(data))]))))

ParseAll[data \in Message] ==
  IF data = <<>> THEN Returned(<<>>)
  ELSE Then(FirstTlv(data, ParseAll), LAMBDA first :
         Then(ParseAll[first.next], LAMBDA others : Returned(<<first.node>> \o others)))

ParseTlv(data) == FirstTlv(data, ParseAll)

\* Exactly one TLV; trailing bytes are an error.
der_decode(data) == Then(ParseTlv(data), LAMBDA p : When(p.next = <<>>, p.node))

IsUniversal(node, number) == node.class = 0 /\ node.number = number
IsContext(node, number) == node.class = 2 /\ node.number = number /\ node.constructed

der_decode_integer(node) ==
  LET raw == node.content IN
  IF ~IsUniversal(node, 2) \/ node.constructed \/ raw = <<>> THEN Raised
  ELSE Returned(FromBytes(raw) - IF raw[1] >= 128 THEN 256 ^ Len(raw) ELSE 0)

der_decode_octet_string(node) == When(IsUniversal(node, 4) /\ ~node.constructed, node.content)

\* The text of a GeneralizedTime: bytes that are not ASCII are refused.
IsAscii(bytes) == \A i \in DOMAIN bytes : bytes[i] < 128
der_decode_generalized_time(node) ==
  When(IsUniversal(node, 24) /\ IsAscii(node.content), node.content)

\* The arcs, one per group of bytes that ends with a byte below 128.
der_decode_oid(node) ==
  LET c == node.content
      read[n \in 1..Len(c)] ==
        IF n = 1 THEN [part |-> 0, arcs |-> <<c[1] \div 40, c[1] % 40>>]
        ELSE IF c[n] >= 128 THEN [read[n - 1] EXCEPT !.part = 128 * @ + (c[n] - 128)]
        ELSE [part |-> 0, arcs |-> Append(read[n - 1].arcs, 128 * read[n - 1].part + c[n])]
  IN  IF ~IsUniversal(node, 6) \/ c = <<>> THEN Raised
      ELSE When(read[Len(c)].part = 0 /\ Last(c) < 128, read[Len(c)].arcs)
===============================================================================
