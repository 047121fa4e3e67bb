------------------------------- MODULE Phones -------------------------------
(***************************************************************************)
(* The spellings of a phone number: how a form's number is stored          *)
(* (schemas/customer.py), how a stored number is dialled, and how an       *)
(* incoming one is looked up (utils/phone.py).  A spelling is what is left *)
(* when spaces and dashes are gone: a plus or not, the digits that lead,   *)
(* and the subscriber's number.                                            *)
(***************************************************************************)
EXTENDS Naturals

CONSTANTS
    Mobiles,        \* subscriber numbers 5XXXXXXXX, nine digits
    Landlines       \* the others, eight digits

Numerals == Mobiles \union Landlines
Leads == {"972", "0", ""}
Spelling == [plus : BOOLEAN, lead : Leads, number : Numerals]

E164(n) == [plus |-> TRUE, lead |-> "972", number |-> n]

LeadLength == [l \in Leads |-> IF l = "972" THEN 3 ELSE IF l = "0" THEN 1 ELSE 0]
Digits(s) == LeadLength[s.lead] + (IF s.number \in Mobiles THEN 9 ELSE 8)

\* normalize_israeli_phone raises unless the number is a mobile's.
Normalizable(s) == s.number \in Mobiles /\ Digits(s) \in {9, 10, 12}
Normalize(s) == E164(s.number)

\* clean_e164_whatsapp: a number without any lead is too short.
Cleanable(s) == s.lead # "" /\ LeadLength["972"] + Digits(s) - LeadLength[s.lead] \in 10..15
Clean(s) == [plus |-> FALSE, lead |-> "972", number |-> s.number]

\* Slip: the variant with a plus is forgotten.
VariantsDialled(s) == {s} \union (IF Cleanable(s) THEN {Clean(s)} ELSE {})

\* get_phone_search_variants
Variants(s) ==
    {s} \union
    IF Cleanable(s)
    THEN {Clean(s), E164(s.number)}
         \union {[plus |-> FALSE, lead |-> "0", number |-> n] : n \in {s.number} \intersect Mobiles}
    ELSE {[s EXCEPT !.plus = FALSE], [s EXCEPT !.plus = TRUE]}
=============================================================================
