-------------------------------- MODULE Wire --------------------------------
(***************************************************************************)
(* DataPath with the conversions it leaves open: the bodies it reads are   *)
(* parsed by module Parse, the replies it writes are converted and charged *)
(* by module Convert.  Both recurse over trees.                            *)
(***************************************************************************)
EXTENDS DataPath, Parse, Convert

\* Redis's reply to one command, or none in time.
OutcomeError(outcome) ==
    IF outcome.kind = "timeout" THEN "Timeout" ELSE FrameError(outcome, MAX_DEPTH)

-----------------------------------------------------------------------------
RECURSIVE ReplyNodes(_), ReplyDepth(_), ReplyStrings(_, _)
ReplyNodes(v) == 1 + FoldLeft(LAMBDA n, w : n + ReplyNodes(w), 0, v.items)
ReplyDepth(v) == 1 + Max({0} \cup {ReplyDepth(v.items[i]) : i \in DOMAIN v.items})
ReplyStrings(v, base64) ==
    (IF v.kind \in {"simple", "bulk"} THEN Encoded(v, base64) ELSE 0)
    + FoldLeft(LAMBDA n, w : n + ReplyStrings(w, base64), 0, v.items)

(***************************************************************************)
(* A response is charged exactly its encoded strings and a fee per value,  *)
(* all of it within the limit and none of it too deep to be written        *)
(* (charge_response_budget).  What it writes is bounded by that charge but *)
(* not equal to it: the escapes of JSON are not charged, so a string takes *)
(* up to six times its charge (once, if it is base64), and a value with    *)
(* its slot up to four times its fee.  convert.rs:87 says the charge is    *)
(* "what will actually be written".                                        *)
(***************************************************************************)
ReplyWithinBudget ==
    stage = "answered" /\ output.status = "ok" =>
        LET results == SelectSeq(output.slots, LAMBDA s : s.kind = "result")
            Total(of(_)) == FoldLeft(LAMBDA n, s : n + of(s), 0, results)
            fees == NODE_COST * Total(LAMBDA s : ReplyNodes(s.value))
            strings == Total(LAMBDA s : ReplyStrings(s.value, given.base64))
            body == Total(LAMBDA s : SlotWritten(s, given.base64))
        IN  /\ output.left >= 0
            /\ given.limit - output.left = fees + strings
            /\ body <= 4 * fees + (IF given.base64 THEN 1 ELSE 6) * strings
            /\ \A i \in DOMAIN results : ReplyDepth(results[i].value) <= MAX_DEPTH

RECURSIVE Nodes(_), Depth(_)
Nodes(v) == 1 + FoldLeft(LAMBDA n, w : n + Nodes(w) + IF v.kind = "object" THEN 1 ELSE 0,
                         0, v.items)
Depth(v) == IF v.kind \notin {"array", "object"} THEN 0
            ELSE 1 + Max({0} \cup {Depth(v.items[i]) : i \in DOMAIN v.items})

IsCommand(v) == v.kind = "array" /\ v.items # <<>> /\ v.items[1].kind = "string"

\* The parser accepts exactly the bodies that are JSON, have the endpoint's
\* shape and are within both limits, however the budget runs out on the way;
\* what it accepts was paid for node by node, and a refusal names a limit
\* only when that limit is exceeded.
ParseIsExact ==
    stage = "read" =>
        LET v == given.body.value
            shaped == IF given.endpoint = "command" THEN IsCommand(v)
                      ELSE v.kind = "array" /\ \A i \in DOMAIN v.items : IsCommand(v.items[i])
            long == given.endpoint = "pipeline" /\ Len(v.items) > given.max
        IN  /\ (output.verdict = "ok") =
                 (/\ Proper(v) /\ ~given.body.trailing /\ Depth(v) <= JsonDepth
                  /\ shaped /\ ~long /\ Nodes(v) <= given.budget)
            /\ output.left \in 0 .. given.budget
            /\ output.verdict = "ok" => given.budget - output.left = Nodes(v)
            /\ output.verdict = "RequestTooComplex" => Nodes(v) > given.budget
            /\ output.verdict = "PipelineTooLarge" => long
=============================================================================
