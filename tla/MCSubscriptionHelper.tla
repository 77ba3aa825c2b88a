----------------------- MODULE MCSubscriptionHelper -----------------------
(* Instances of SubscriptionHelper for TLC: who uses which topics. *)
EXTENDS SubscriptionHelper

CONSTANTS h1, h2   \* helpers

OneHelper == {h1}
TwoHelpers == {h1, h2}
OneTopic == {"Configuration"}
TwoTopics == {"Configuration", "Media"}

\* One helper that needs the current data.
PlainUse == {<<h1, "Configuration", "Get">>}

\* A helper that moves between two topics, and one that shares the second.
SharedUse ==
  {<<h1, "Configuration", "Get">>, <<h1, "Media", "Get">>, <<h2, "Media", "UnknownMethod">>}
===========================================================================
