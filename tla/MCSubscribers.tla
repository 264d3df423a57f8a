--------------------------- MODULE MCSubscribers ----------------------------
EXTENDS Subscribers
=============================================================================
