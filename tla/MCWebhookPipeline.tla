-------------------------- MODULE MCWebhookPipeline --------------------------
(* One customer clicks in a payload that is posted twice.  In the other payload *)
(* a button that names a deleted row and a second customer's click precede two  *)
(* opt-outs: a keyword, and a button with the id 0, which stands for its        *)
(* sender, whose phone is on two waitlists.                                     *)
EXTENDS WebhookPipeline

CONSTANTS slot, c1, c2, c3, gone, zero

MCMessages == {"click1", "click2", "keyword", "shared", "stale", "forged"}
MCButton == [m \in MCMessages |->
                CASE m = "click2" -> <<"claim", "slot", slot, "cust", c2>>
                  [] m = "stale" -> <<"claim", slot, gone>>
                  [] m \in {"click1", "forged"} -> <<"claim", slot, c1>>
                  [] m = "keyword" -> <<>>
                  [] m = "shared" -> <<"optout", zero>>]
MCNumbers == {slot, c1, c2, c3, gone, zero}
MCSender == [m \in MCMessages |-> IF m \in {"click2", "shared"} THEN "phone2" ELSE "phone1"]
MCCustomers == {c1, c2, c3}
MCPhoneOf == [c \in MCCustomers |-> IF c = c1 THEN "phone1" ELSE "phone2"]
MCOnce == [m \in MCMessages |-> IF m = "click1" THEN 1 ELSE 0]
MCPayloads == {"p1", "p2", "unsigned"}
MCMaxPosts == [p \in MCPayloads |-> IF p = "p1" THEN 2 ELSE 1]
MCContent == [p \in MCPayloads |->
                 CASE p = "p1" -> <<"click1">>
                   [] p = "p2" -> <<"stale", "click2", "keyword", "shared">>
                   [] p = "unsigned" -> <<"forged">>]
=============================================================================
