--------------------------- MODULE MCChatHistory ---------------------------
(* TLC instances of ChatHistory. *)
EXTENDS ChatHistory, TLC

CONSTANTS r1, r2, r3, r4, r5, r6, r7

AllKinds == r1 :> "generate" @@ r2 :> "stream" @@ r3 :> "summary"
            @@ r4 :> "agent" @@ r5 :> "dispatch" @@ r6 :> "batch" @@ r7 :> "plan"

Overlaps == {{r1, r2, r3}, {r1, r4}, {r5, r6}, {r4, r7}}
=============================================================================
