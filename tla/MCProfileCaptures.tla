--------------------------- MODULE MCProfileCaptures ---------------------------
(* The Julia pods, the controller of the Go prototype and a Redis client       *)
(* beside one another; part says which of them a behaviour is about, the       *)
(* others stay as they are.                                                    *)
EXTENDS JuliaTracePod, GoProfileCapture, RespClient

CONSTANTS p1, p2, a, ccall, anonymous

VARIABLE part

TracePods == {p1, p2}
TraceMode == [p \in TracePods |-> IF p = p1 THEN "populate" ELSE "redis"]
TraceMethods == {a, ccall, anonymous}
TraceNeeds == [lusearch |-> <<a, ccall>>, h2 |-> <<a, anonymous>>]

StreamBytes == {"+", "-", "$", "t", "\r", "\n", "x"} \union ToSet(Digits)
\* Bytes that occur in the replies themselves, and one that does not; and a
\* value whose length has two digits, and which ends like a short reply.
StreamPayloads ==
  UNION {[1..n -> {"\r", "\n", "$", "x"}] : n \in 0..2}
    \union {<<"x", "\r", "\n", "$", "1", "\r", "\n", "x", "\r", "\n">>}

vars == <<part, traceVars, captureVars, respVars>>

Init ==
  /\ part \in {"julia", "go", "reply"}
  /\ TraceInit /\ CaptureInit /\ RespInit
  /\ part # "reply" => setup = CHOOSE s \in Setups : s.value = Missed

JuliaStep == part = "julia" /\ TraceNext /\ UNCHANGED <<part, captureVars, respVars>>
GoStep == part = "go" /\ CaptureNext /\ UNCHANGED <<part, traceVars, respVars>>
ReplyStep == part = "reply" /\ RespNext /\ UNCHANGED <<part, traceVars, captureVars>>
Next == JuliaStep \/ GoStep \/ ReplyStep

Spec == Init /\ [][Next]_vars
=============================================================================
