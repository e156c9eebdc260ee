-------------------------- MODULE MCNewsletterSend --------------------------
(* Model values for checking NewsletterSend with TLC.                       *)
EXTENDS NewsletterSend, TLC

CONSTANTS i1, i2, w1, w2

MCOne == {i1}
MCTwo == {w1, w2}
MCSubscribers == {1, 2}
MCCaps == <<1>>
=============================================================================
