-------------------------------- MODULE SmsPdu --------------------------------
(***************************************************************************)
(* How luci-app-qmodem-next sends a message: qmodem/sms-pdu.js cuts it into *)
(* parts and packs them, qmodem/sms.js hands them to the modem.            *)
(***************************************************************************)
EXTENDS Naturals, Sequences

CONSTANTS
  PduTexts,    \* short 7-bit texts, as sequences of character codes
  PduLengths   \* lengths of messages

ASSUME PduAssumption == PduTexts \subseteq Seq(0..127) /\ PduLengths \subseteq Nat

VARIABLES
  pduText,     \* a text to pack
  pduLength,   \* a message to send, by its length
  pduEnc,      \* its encoding, "7bit" or "16bit"
  pduGiven,    \* the parts given to the modem
  pduSays      \* what the view says: "none", "sent", "failed"

pduVars == <<pduText, pduLength, pduEnc, pduGiven, pduSays>>
Ceil(a, b) == (a + b - 1) \div b

\* The characters of a message alone in its PDU, and of one part of several.
Whole == [e \in {"7bit", "16bit"} |-> IF e = "7bit" THEN 160 ELSE 70]
Part == [e \in {"7bit", "16bit"} |-> IF e = "7bit" THEN 153 ELSE 66]

\* As if a message were cut into parts as long as a whole one.
SlicesWhole(n, e) ==
  IF n <= Whole[e] THEN <<[from |-> 0, to |-> n]>>
  ELSE [i \in 1..Ceil(n, Whole[e]) |->
          [from |-> (i - 1) * Whole[e], to |-> IF i * Whole[e] <= n THEN i * Whole[e] ELSE n]]

\* The parts of a message: text.slice(i * length, i * length + length), which ends with the text.
Slices(n, e) ==
  IF n <= Whole[e] THEN <<[from |-> 0, to |-> n]>>
  ELSE [i \in 1..Ceil(n, Part[e]) |->
          [from |-> (i - 1) * Part[e], to |-> IF i * Part[e] <= n THEN i * Part[e] ELSE n]]

\* The octets of a part, its header of six included if there are several.
Octets(n, e) == IF e = "7bit" THEN Ceil(7 * n, 8) ELSE 2 * n
UserData(n, e, parts) == Octets(n, e) + IF parts > 1 THEN 6 ELSE 0
\* The length octet: of a 7-bit part the octets of its text, without the header.
UserDataLength(n, e, parts) == IF e = "7bit" THEN Octets(n, e) ELSE UserData(n, e, parts)
\* The two hexadecimal digits of the count and the number of a part.
Digits(k) == k % 256

-----------------------------------------------------------------------------
(* Packing of 7-bit text.  Position i counts from 0: septet i gives i % 8   *)
(* bits away to the octet before it, and makes no octet when it gave seven. *)

Packed(text) ==
  LET at(i) == IF i < Len(text) THEN text[i + 1] ELSE 0
      octet(i) == at(i) \div 2^(i % 8) + (at(i + 1) % 2^((i % 8) + 1)) * 2^(7 - (i % 8))
  IN  [k \in 1..(Len(text) - Len(text) \div 8) |-> octet((k - 1) + (k - 1) \div 7)]

\* Unpacking writes a character per bit of the code, 0 after its end.  Of 8 septets
\* the first is in the low bits of octet 0, the last in the high bits of octet 6.
Unpacked(code) ==
  LET at(k) == IF k \in 0..(Len(code) - 1) THEN code[k + 1] ELSE 0
      septet(j) == LET k == 7 * (j \div 8) + (j % 8) IN
        (IF j % 8 = 7 THEN 0 ELSE (at(k) % 2^(7 - (j % 8))) * 2^(j % 8))
          + (IF j % 8 = 0 THEN 0 ELSE at(k - 1) \div 2^(8 - (j % 8)))
  IN  [j \in 1..(8 * Len(code)) |-> septet(j - 1)]

-----------------------------------------------------------------------------
PduInit ==
  /\ pduEnc \in {"7bit", "16bit"}
  /\ pduText \in PduTexts /\ pduLength \in PduLengths
  /\ pduText = <<>> \/ pduLength = 0
  /\ pduGiven = <<>>
  /\ pduSays = "none"

\* sendSms generates every part and gives the modem the first.
SendSms(ok) ==
  /\ pduLength > 0 /\ pduSays = "none"
  /\ pduGiven' = <<Slices(pduLength, pduEnc)[1]>>
  /\ pduSays' = IF ok THEN "sent" ELSE "failed"
  /\ UNCHANGED <<pduText, pduLength, pduEnc>>

PduNext == \E ok \in BOOLEAN : SendSms(ok)
PduSpec == PduInit /\ [][PduNext]_pduVars

-----------------------------------------------------------------------------
(* Properties.                                                             *)

\* The parts follow one another from the start of the message to its end, none is
\* empty unless the message is, and each fits the 140 octets of a PDU with its header.
PartsFit ==
  LET P == Slices(pduLength, pduEnc) IN
  /\ P[1].from = 0 /\ P[Len(P)].to = pduLength
  /\ \A i \in 1..(Len(P) - 1) : P[i].to = P[i + 1].from
  /\ \A i \in 1..Len(P) : /\ P[i].from < P[i].to \/ pduLength = 0
                        /\ UserData(P[i].to - P[i].from, pduEnc, Len(P)) <= 140
  /\ Len(P) = Digits(Len(P)) \/ pduLength > 255 * Part[pduEnc]

\* Unpacking what was packed gives the text, followed by nothing but zeros.
UnpackedIsText ==
  LET U == Unpacked(Packed(pduText)) IN
  /\ SubSeq(U, 1, Len(pduText)) = pduText
  /\ \A i \in (Len(pduText) + 1)..Len(U) : U[i] = 0
  /\ Len(Packed(pduText)) = Octets(Len(pduText), "7bit")

\* A text of any length is cut into pieces that make it up and that a PDU can carry.
EncodedWhole == PartsFit /\ UnpackedIsText
===============================================================================
