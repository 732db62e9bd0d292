--------------------------- MODULE MCSignInBudgets ---------------------------
(* A small instance of SignInBudgets: the five buckets, an address and a      *)
(* number, each written in several ways, two peers of the gateway and a       *)
(* request that did not pass it, and a map with room for two keys, so that a  *)
(* handler meets spent budgets, a full map and a sweep, at its first budget   *)
(* or its second.                                                             *)
EXTENDS SignInBudgets, TLC

CONSTANTS mail, phone, p, q

MCBuckets == {"OtpDispatchPerIdentifier", "OtpDispatchPerClient", "OtpVerifyPerIdentifier",
              "MfaVerifyPerClient", "PasswordPerIdentifier"}
MCKeys == {[name |-> phone, gap |-> gap] : gap \in {Solid, "grouped", "padded"}}
          \cup {[name |-> mail, gap |-> gap] : gap \in {Solid, "grouped"}}
          \cup {[name |-> x, gap |-> Solid] : x \in {p, Unattributed}}
MCLimit == [k \in MCBuckets |-> IF k = "MfaVerifyPerClient" THEN 2 ELSE 1]
MCWindow == [k \in MCBuckets |-> CASE k = "OtpDispatchPerClient" -> 3
                                   [] k = "MfaVerifyPerClient" -> 2
                                   [] OTHER -> 1]

Typed(route, name, channel, pad, gap, hops) ==
    [route |-> route, name |-> name, channel |-> channel, pad |-> pad, gap |-> gap, hops |-> hops]

MCRequests ==
    {Typed("otp", phone, "phone", FALSE, Solid, <<>>),
     Typed("verify", phone, "phone", TRUE, Solid, <<p>>),
     Typed("verify", phone, "phone", FALSE, Solid, <<p>>),
     Typed("verify", phone, "phone", FALSE, "grouped", <<p>>),
     Typed("mfa", phone, "phone", FALSE, Solid, <<q, p>>),
     Typed("password", mail, "email", FALSE, Solid, <<p>>),
     Typed("password", mail, "email", FALSE, "grouped", <<p>>)}

HandlerSymmetry == Permutations(Handlers)
=============================================================================
