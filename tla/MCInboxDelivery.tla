-------------------------- MODULE MCInboxDelivery --------------------------
(***************************************************************************)
(* Instances of InboxDelivery for TLC.                                     *)
(***************************************************************************)
EXTENDS InboxDelivery, TLC

CONSTANTS i, b    \* model values for the inbox and the broadcast stream

\* Two inbox entries and one broadcast, all of them messages.
TwoAndOne == (i :> 2) @@ (b :> 1)
\* Two inbox entries.
TwoInbox == (i :> 2) @@ (b :> 0)

\* The second inbox entry does not decode.
SecondForeign == {<<i, 2>>}

=============================================================================
