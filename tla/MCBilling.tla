------------------------------ MODULE MCBilling ------------------------------
(* Instances of Billing for TLC: two registrations by different buyers for   *)
(* the same slug, two add-ons, an invite and another product's checkout, of  *)
(* which a behaviour opens MaxSessions.                                      *)
EXTENDS Billing, TLC

CONSTANTS t1, alice, bob, reg1, reg2, addon1, addon2, invite1, foreign1

MCKind == [s \in Sessions |->
              CASE s \in {addon1, addon2} -> "addon" [] s = invite1 -> "invite"
                [] s = foreign1 -> "foreign" [] OTHER -> "registration"]
MCFor == [s \in Sessions |-> t1]
MCBuyer == [s \in Sessions |-> IF s = reg2 THEN bob ELSE alice]

\* One subscription of either kind is cancelled or renewed.
MCOccurring ==
    {<<"completed", s>> : s \in Sessions}
        \cup {<<"deleted", s>> : s \in {reg1, addon1}}
        \cup {<<"invoice", reg1>>}
=============================================================================
