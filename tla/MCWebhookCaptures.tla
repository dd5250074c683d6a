------------------------- MODULE MCWebhookCaptures --------------------------
EXTENDS WebhookCaptures, TLC

Symmetry ==
    Permutations(Serial) \cup Permutations(Endpoint \ Serial)
        \cup Permutations(Sender) \cup Permutations(Clearer)
=============================================================================
