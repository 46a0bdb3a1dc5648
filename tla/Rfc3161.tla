-------------------------------- MODULE Rfc3161 --------------------------------
(***************************************************************************)
(* Rfc3161TsaClient of src/infrastructure/rfc3161_client.py: request,      *)
(* checks of the answer, offline verify, over the bytes that go over the   *)
(* wire.  The TSA and the network are external: the TSA answers a request  *)
(* with any of the fields the protocol leaves optional, and the client may *)
(* be handed an answer to another request, an answer cut short or followed *)
(* by further bytes, or none.  Concurrent calls share nothing but that.    *)
(***************************************************************************)
EXTENDS Der, FiniteSets

CONSTANTS
  Digest,               \* digests the client is asked to stamp, of any length
  DigestSize,
  Nonce,                \* random numbers drawn
  Shape,                \* fields of an answer that the TSA chooses
  Damage,               \* bytes cut off (> 0) or added (< 0) on the way
  MaxRequests           \* bound: calls of timestamp

MaxField == 16777216    \* bound: the longest digest, text and time

ASSUME RfcAssumption ==
  /\ \A d \in Digest : d \in Seq(Byte) /\ Len(d) <= MaxField
  /\ Nonce \subseteq 1..MaxInt
  /\ Shape \subseteq [status : 0..5, text : 0..MaxField, token : BOOLEAN, accuracy : BOOLEAN,
                      nonce : BOOLEAN, tsa : BOOLEAN, time : Seq(Byte)]
  /\ \A s \in Shape : Len(s.time) <= MaxField
  /\ Damage \subseteq Int /\ 0 \in Damage

VARIABLES
  request,      \* the call of timestamp that waits for an answer
  issued,       \* answers the TSA has given, to this or to earlier calls
  used,         \* nonces drawn: 64 random bits do not repeat
  result        \* how the last call ended, and what it was handed

rfcVars == <<request, issued, used, result>>

NoRequest == [digest |-> <<>>, nonce |-> 0]
NoAnswer == [call |-> 0]

\* How a call ended, and the answer and its damage that it was handed.
Ended(outcome, a, n) == [outcome |-> outcome, given |-> a, damage |-> n]
NoResult == Ended("none", NoAnswer, 0)

Call == Cardinality(used)     \* the number of the last call

-------------------------------------------------------------------------------
SHA256 == <<2, 16, 840, 1, 101, 3, 4, 2, 1>>
OID_SIGNED_DATA == <<1, 2, 840, 113549, 1, 7, 2>>
OID_TST_INFO == <<1, 2, 840, 113549, 1, 9, 16, 1, 4>>

AlgorithmIdentifier(oid) == DerSequence(<<DerOid(oid), DerNull>>)
MessageImprint(oid, digest) ==
  DerSequence(<<AlgorithmIdentifier(oid), DerOctetString(digest)>>)

build_timestamp_req(oid, digest, nonce) ==
  DerSequence(<<DerInteger(1), MessageImprint(oid, digest), DerInteger(nonce),
                DerBoolean(FALSE)>>)

-------------------------------------------------------------------------------
(* parse_timestamp_resp.                                                   *)

\* Node n holds a valid encoding of at least k children.
Has(n, k) == IsUniversal(n, 16) /\ Len(n.children) >= k
HasExactly(n, k) == Has(n, k) /\ Len(n.children) = k

NoNonce == -1

\* The first universal INTEGER after genTime is the nonce.
NonceOf(extras) ==
  LET ints == {i \in DOMAIN extras : IsUniversal(extras[i], 2)} IN
  IF ints = {} THEN Returned(NoNonce) ELSE der_decode_integer(extras[Min(ints)])

parse_tst_info(node) ==
  Then(When(Has(node, 5), node.children), LAMBDA ch :
    Then(When(/\ IsUniversal(ch[2], 6)
              /\ HasExactly(ch[3], 2) /\ IsUniversal(ch[3].children[1], 16),
              ch[3].children[2]), LAMBDA hashed :
      Then(der_decode_octet_string(hashed), LAMBDA digest :
        Then(der_decode_generalized_time(ch[5]), LAMBDA time :
          Then(NonceOf(SubSeq(ch, 6, Len(ch))), LAMBDA nonce :
            Returned([hashed_message |-> digest, nonce |-> nonce, gen_time |-> time]))))))

\* The status; the text goes into a message only.
parse_pki_status_info(node) ==
  Then(When(Has(node, 1), node.children), LAMBDA ch : der_decode_integer(ch[1]))

\* node is a SEQUENCE of the object identifier oid and a [0] wrapper: its content.
Wrapped(node, oid) ==
  When(/\ HasExactly(node, 2)
       /\ der_decode_oid(node.children[1]) = Returned(oid)
       /\ IsContext(node.children[2], 0) /\ node.children[2].children # <<>>,
       node.children[2].children[1])

\* ContentInfo, SignedData, EncapsulatedContentInfo, eContent, TSTInfo.
ParseToken(node) ==
  Then(Wrapped(node, OID_SIGNED_DATA), LAMBDA signed :
    Then(When(Has(signed, 3), signed.children), LAMBDA ch :
      Then(Wrapped(ch[3], OID_TST_INFO), LAMBDA encap :
        Then(der_decode_octet_string(encap), LAMBDA octets :
          Then(der_decode(octets), LAMBDA tst : parse_tst_info(tst))))))

NoToken == [hashed_message |-> <<>>, nonce |-> NoNonce, gen_time |-> <<-1>>]

parse_timestamp_resp(data) ==
  Then(der_decode(data), LAMBDA root :
    Then(When(Has(root, 1), root.children), LAMBDA ch :
      Then(parse_pki_status_info(ch[1]), LAMBDA status :
        Then(IF Len(ch) = 1 THEN Returned(NoToken) ELSE ParseToken(ch[2]), LAMBDA info :
          Returned([status |-> status, tst_info |-> info])))))

\* GeneralizedTime is abstracted to its fields <<month, day, hour, minute, second>>;
\* other lengths are texts the pattern does not match (DerError), and a field above 127
\* is a text that is not ASCII, which the parser has refused already.  datetime raises
\* ValueError for a field out of range, a second of 60 included.
generalized_time_to_iso(t) ==
  IF Len(t) # 5 THEN "DerError"
  ELSE IF /\ t[1] \in 1..12 /\ t[2] \in 1..31 /\ t[3] \in 0..23
          /\ t[4] \in 0..59 /\ t[5] \in 0..59
    THEN "ok" ELSE "ValueError"

-------------------------------------------------------------------------------
(* The client.                                                             *)

\* Mutant of NonceMatches.
NonceIgnored(info, nonce) == TRUE

NonceMatches(info, nonce) == info.nonce = nonce

\* What timestamp and verify both ask of an answer.
Granted(p) == p.status \in {0, 1} /\ p.tst_info # NoToken

\* timestamp after its await: every check that fails raises TsaError.
Accept(digest, nonce, raw) ==
  LET iso == Then(parse_timestamp_resp(raw), LAMBDA p :
               When(/\ Granted(p)
                    /\ p.tst_info.hashed_message = digest
                    /\ NonceMatches(p.tst_info, nonce),
                    generalized_time_to_iso(p.tst_info.gen_time)))
  IN  CASE iso = Returned("ok") -> "token"
        [] iso = Returned("ValueError") -> "ValueError"
        [] OTHER -> "TsaError"

verify(digest, raw) ==
  Then(parse_timestamp_resp(raw), LAMBDA p :
    When(Granted(p) /\ p.tst_info.hashed_message = digest, TRUE)).ok

-------------------------------------------------------------------------------
(* The TSA and the network (external).                                     *)

If(cond, bytes) == IF cond THEN <<bytes>> ELSE <<>>

TstInfo(a) ==
  DerSequence(<<DerInteger(1), DerOid(<<1, 3, 6, 1>>), MessageImprint(SHA256, a.digest),
                DerInteger(7), DerGeneralizedTime(a.shape.time)>>
    \o If(a.shape.accuracy, DerSequence(<<DerInteger(1)>>))
    \o If(a.shape.nonce, Tlv(2, a.nonce))
    \o If(a.shape.tsa, DerExplicit(0, DerOctetString(<<1>>))))

TimeStampToken(a) ==
  DerSequence(<<DerOid(OID_SIGNED_DATA),
    DerExplicit(0, DerSequence(<<DerInteger(3), DerSet(<<AlgorithmIdentifier(SHA256)>>),
      DerSequence(<<DerOid(OID_TST_INFO), DerExplicit(0, DerOctetString(TstInfo(a)))>>),
      DerSet(<<>>)>>))>>)

\* The bytes of answer a: status, a text of the chosen length, and the token.
Encoded(a) ==
  DerSequence(<<DerSequence(<<DerInteger(a.shape.status),
                  DerSequence(<<Tlv(12, [i \in 1..a.shape.text |-> 65])>>)>>)>>
    \o If(a.shape.token, TimeStampToken(a)))

Damaged(bytes, n) ==
  IF n >= 0 THEN SubSeq(bytes, 1, Len(bytes) - n) ELSE bytes \o [i \in 1..(-n) |-> 0]

-------------------------------------------------------------------------------
RfcInit ==
  /\ request = NoRequest
  /\ issued = {}
  /\ used = {}
  /\ result = NoResult

\* build_request: a digest of the wrong size is refused before anything is sent.
RefuseDigest(d) ==
  /\ request = NoRequest /\ Len(d) # DigestSize
  /\ result' = Ended("ValueError", NoAnswer, 0)
  /\ UNCHANGED <<request, issued, used>>

Ask(d, n) ==
  /\ request = NoRequest /\ Len(d) = DigestSize
  /\ n \notin used /\ Call < MaxRequests
  /\ request' = [digest |-> d, nonce |-> n]
  /\ used' = used \cup {n}
  /\ result' = NoResult
  /\ UNCHANGED issued

\* The TSA reads the request from its bytes, and echoes the nonce as it reads it.
Answer(shape) ==
  /\ request # NoRequest
  /\ \A a \in issued : a.call # Call
  /\ LET ch == der_decode(build_timestamp_req(SHA256, request.digest, request.nonce)).val.children
     IN  issued' = issued \cup {[call |-> Call, digest |-> ch[2].children[2].content,
                                 nonce |-> ch[3].content, shape |-> shape]}
  /\ UNCHANGED <<request, used, result>>

\* _post returns the bytes of some answer with HTTP status 200.
Receive(a, n) ==
  /\ request # NoRequest
  /\ result' = Ended(Accept(request.digest, request.nonce, Damaged(Encoded(a), n)), a, n)
  /\ request' = NoRequest
  /\ UNCHANGED <<issued, used>>

\* A timeout, a transport error or another HTTP status.
PostFails ==
  /\ request # NoRequest
  /\ result' = Ended("TsaError", NoAnswer, 0)
  /\ request' = NoRequest
  /\ UNCHANGED <<issued, used>>

RfcNext ==
  \/ \E d \in Digest : RefuseDigest(d)
  \/ \E d \in Digest, n \in Nonce : Ask(d, n)
  \/ \E shape \in Shape : Answer(shape)
  \/ \E a \in issued, n \in Damage : Receive(a, n)
  \/ PostFails

RfcSpec == RfcInit /\ [][RfcNext]_rfcVars

-------------------------------------------------------------------------------
Received == result.given # NoAnswer

Own == result.given.call = Call

Grants(shape) == shape.status \in {0, 1} /\ shape.token

(* timestamp returns a token only when the TSA granted it to this very     *)
(* call: not from an answer to another call, also one for the same digest, *)
(* nor from damaged bytes, nor without the nonce.                          *)
TokenAnswersCall ==
  result.outcome = "token" =>
    Own /\ result.damage = 0 /\ Grants(result.given.shape) /\ result.given.shape.nonce

(* Request and codec: an intact granted answer to the call yields a token, *)
(* whatever optional fields it has and whatever the lengths and the top    *)
(* bits of the numbers in the request and in the answer are.               *)
GrantIsAccepted ==
  Received /\ Own /\ result.damage = 0 /\ Grants(result.given.shape)
    /\ result.given.shape.nonce /\ generalized_time_to_iso(result.given.shape.time) = "ok"
    => result.outcome = "token"

(* verify, on the bytes the client was handed: true for the digest that    *)
(* was stamped and for no other, and false for damaged or refused answers  *)
(* and for a token whose time is not ASCII, which the parser refuses.      *)
VerifyBindsDigest ==
  Received => \A d \in Digest :
    verify(d, Damaged(Encoded(result.given), result.damage))
      <=> /\ d = result.given.digest /\ result.damage = 0
          /\ Grants(result.given.shape) /\ IsAscii(result.given.shape.time)

(* "Raised when the TSA reports a failure or its response is invalid"      *)
(* (TsaError): an answer the client does not take is reported that way.    *)
FailureIsTsaError == Received => result.outcome \in {"token", "TsaError"}
===============================================================================
