--------------------------- MODULE MCSignalJournal ---------------------------
EXTENDS SignalJournal, TLC

\* Tradovate as it runs live, Tradovate with virtual P&L, signals without orders.
AllModes == {[adapter |-> TRUE, virtual |-> FALSE],
             [adapter |-> TRUE, virtual |-> TRUE],
             [adapter |-> FALSE, virtual |-> TRUE]}
=============================================================================
