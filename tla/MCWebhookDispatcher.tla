------------------------ MODULE MCWebhookDispatcher ------------------------
(***************************************************************************)
(* Small instances of WebhookDispatcher for TLC.                           *)
(***************************************************************************)
EXTENDS WebhookDispatcher

CONSTANTS e1, e2, h1, h3

\* The first webhook receives both events, the second only one of them.
SomeWants == {<<e1, h1>>, <<e2, h1>>, <<e2, h3>>}

\* The secret of the second webhook cannot be decrypted.
SomeUnsendable == Events \X {h3}
=============================================================================
