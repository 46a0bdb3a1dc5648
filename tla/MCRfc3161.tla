------------------------------ MODULE MCRfc3161 ------------------------------
(* Rfc3161 on small instances.                                             *)
EXTENDS Rfc3161

\* Two digests that differ in one bit, and one that is too short.
MCDigest == {<<128, 1, 0>>, <<128, 1, 1>>, <<128>>}

\* Bytes lost at the end, and one byte too many.
MCDamage == {0, 1, 2, 30, -1}

S(status, text, token, accuracy, nonce, tsa, time) ==
  [status |-> status, text |-> text, token |-> token, accuracy |-> accuracy,
   nonce |-> nonce, tsa |-> tsa, time |-> time]

Noon == <<9, 23, 12, 0, 0>>

\* Text lengths that put the outer length at one, two and three bytes, every optional
\* field, refusals with and without a token, and times that are no time: two fields, and a
\* text that is not ASCII.
MCShape ==
  {S(0, 0, TRUE, FALSE, TRUE, FALSE, Noon),
   S(1, 40, TRUE, TRUE, TRUE, TRUE, Noon),
   S(0, 200, TRUE, TRUE, TRUE, FALSE, Noon),
   S(0, 0, TRUE, TRUE, FALSE, TRUE, Noon),
   S(0, 0, FALSE, FALSE, TRUE, FALSE, Noon),
   S(2, 127, FALSE, FALSE, TRUE, FALSE, Noon),
   S(3, 128, TRUE, FALSE, TRUE, FALSE, Noon),
   S(0, 0, TRUE, FALSE, TRUE, TRUE, <<9, 23>>),
   S(0, 0, TRUE, FALSE, TRUE, FALSE, <<9, 200, 12, 0, 0>>)}

\* A leap second.
MCLeapShape == {S(0, 0, TRUE, FALSE, TRUE, FALSE, <<6, 30, 23, 59, 60>>)}
===============================================================================
