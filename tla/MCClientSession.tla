---------------------------- MODULE MCClientSession ----------------------------
EXTENDS ClientSession, TLC

\* Tabs are interchangeable, and so are the slots of requests.
Alike == Permutations(Tabs) \cup Permutations(Requests)
=============================================================================
