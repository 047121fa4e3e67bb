--------------------------- MODULE MCPreviewParity ---------------------------
(* A slot on Sunday at 14:00 +03:00, and two customers: one waits for Sunday   *)
(* afternoons, one for Sunday mornings.                                        *)
EXTENDS Waitlist

Wish(n, times) ==
    [manual |-> FALSE, business |-> "shiran", days |-> {0}, times |-> times, services |-> {},
     phone |-> [plus |-> FALSE, lead |-> "0", number |-> n]]
MCForm == [afternoon |-> Wish("5-A", {"AFTERNOON"}), morning |-> Wish("5-B", {"MORNING"})]
MCForms == DOMAIN MCForm
MCGoodbye == [button |-> None]
MCOptOuts == DOMAIN MCGoodbye
MCAsk == [slot |-> [business |-> "shiran", at |-> [utc |-> 6 * 24 + 11, offset |-> 3], service |-> None]]
MCAsks == DOMAIN MCAsk
=============================================================================
