------------------------ MODULE MC_WebhookController ------------------------
(* Model values and small sets for checking WebhookController with TLC.  *)
EXTENDS WebhookController, TLC

CONSTANTS c1, c2, garbage, unreadable, absent

\* Two bundles that verify (a rotation) and one that does not.
MCCAs == {c1, c2, garbage}
MCValidCAs == {c1, c2}

\* No subsets, one subset with no ready address, a ready subset after an
\* empty one.
MCEndpoints == {<<>>, <<0>>, <<0, 1>>}

\* Bound on the requests waiting in the work queue: retries while the
\* informer lags can add one request per reconcile.
MaxPending == 4

StateConstraint == queue + delayed <= MaxPending
=============================================================================
