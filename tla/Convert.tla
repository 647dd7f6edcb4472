------------------------------ MODULE Convert ------------------------------
(***************************************************************************)
(* The way of a reply to the client: fred_executor.rs turns Redis's frame  *)
(* into a value, domain/convert.rs charges the value against the response  *)
(* budget before a byte of it is written, and writes it.                   *)
(*                                                                         *)
(* A frame is a tree: a kind, the bytes of its string by what JSON makes   *)
(* of them, and its items.  A value is a frame of the five RESP2 kinds.    *)
(***************************************************************************)
EXTENDS Integers, Sequences, FiniteSets, SequencesExt

CONSTANT MAX_DEPTH

ASSUME MaxDepthAssumption == MAX_DEPTH \in Nat \ {0}

NODE_COST == 8
TooLarge == -1   \* what is left of a budget that was exceeded

\* plain bytes are written as they are (an integer's are its characters),
\* quotes and backslashes as two, control bytes as \u00XX, and a byte that is
\* no UTF-8 as the three of the replacement character.
NoBytes == [plain |-> 0, quote |-> 0, control |-> 0, invalid |-> 0]
Leaf(kind, bytes) == [kind |-> kind, text |-> "", bytes |-> bytes, items |-> <<>>]
Simple(text) == [Leaf("simple", [NoBytes EXCEPT !.plain = 2]) EXCEPT !.text = text]
Array(items) == [Leaf("array", NoBytes) EXCEPT !.items = items]

\* The first error in document order is the error of the frame; "ok" if none.
RECURSIVE FrameError(_, _)
FrameError(frame, depth) ==
    IF depth = 0 THEN "ResponseTooLarge"
    ELSE IF frame.kind = "error" THEN "Redis"
    ELSE IF frame.kind = "resp3" \/ (frame.kind = "simple" /\ frame.bytes.invalid > 0) THEN "Transport"
    ELSE FoldLeft(LAMBDA e, f : IF e # "ok" THEN e ELSE FrameError(f, depth - 1),
                  "ok", frame.items)

Base64Len(n) == ((n + 2) \div 3) * 4

Valid(b) == b.plain + b.quote + b.control

\* What a string is charged.  Lossy conversion makes an invalid byte three.
StringCharge(value, base64) ==
    IF base64 /\ value.text # "OK" THEN Base64Len(Valid(value.bytes) + value.bytes.invalid)
    ELSE Valid(value.bytes) + 3 * value.bytes.invalid

Spend(budget, amount) == IF budget < amount THEN TooLarge ELSE budget - amount

\* What charge_within_depth leaves of the budget.
RECURSIVE ChargeWithinDepth(_, _, _, _)
ChargeWithinDepth(value, base64, budget, depth) ==
    LET node == IF depth = 0 THEN TooLarge ELSE Spend(budget, NODE_COST)
    IN  IF node = TooLarge THEN TooLarge
        ELSE IF value.kind \in {"simple", "bulk"} THEN Spend(node, StringCharge(value, base64))
        ELSE FoldLeft(LAMBDA b, v : IF b = TooLarge THEN b
                                    ELSE ChargeWithinDepth(v, base64, b, depth - 1),
                      node, value.items)

ChargeResponseBudget(value, base64, budget) ==
    ChargeWithinDepth(value, base64, budget, MAX_DEPTH)

\* Mutant: every slot has the whole budget.
ChargeSlotsEach(slots, base64, budget) ==
    IF \E i \in DOMAIN slots : /\ slots[i].kind = "result"
                               /\ ChargeResponseBudget(slots[i].value, base64, budget) = TooLarge
    THEN TooLarge ELSE budget

\* The slots of a response share its budget; an error is free.
ChargeSlots(slots, base64, budget) ==
    FoldLeft(LAMBDA b, s : IF b = TooLarge \/ s.kind # "result" THEN b
                           ELSE ChargeResponseBudget(s.value, base64, b),
             budget, slots)

\* The bytes of a string as ResponseJson hands it to the serializer: base64
\* has four characters for every three bytes begun, and never encodes OK.
Encoded(value, base64) ==
    LET b == value.bytes IN
    IF base64 /\ value.text # "OK"
    THEN 4 * Cardinality({i \in 0 .. Valid(b) + b.invalid - 1 : i % 3 = 0})
    ELSE Valid(b) + 3 * b.invalid

\* What serialize_str adds: the quotes, and the escapes in what is not base64.
Escapes(value, base64) ==
    2 + IF base64 /\ value.text # "OK" THEN 0
        ELSE value.bytes.quote + 5 * value.bytes.control

\* The bytes ResponseJson writes for a value.
RECURSIVE Written(_, _)
Written(value, base64) ==
    CASE value.kind = "array" ->
            FoldLeft(LAMBDA n, v : n + Written(v, base64), 2, value.items)
            + IF value.items = <<>> THEN 0 ELSE Len(value.items) - 1
      [] value.kind = "nil" -> 4
      [] value.kind = "int" -> value.bytes.plain
      [] OTHER -> Encoded(value, base64) + Escapes(value, base64)

\* A slot: {"result":...}, and the comma before the next one.
SlotWritten(slot, base64) == Written(slot.value, base64) + 12
=============================================================================
