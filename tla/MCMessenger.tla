---------------------------- MODULE MCMessenger ----------------------------
EXTENDS Messenger, TLC
Policy(lossy, server, standby) == [lossy |-> lossy, server |-> server, standby |-> standby]
StatefulServer == Policy(FALSE, TRUE, TRUE)
StatelessServer == Policy(TRUE, TRUE, FALSE)
LosslessPeer == Policy(FALSE, FALSE, TRUE)
LossyClient == Policy(TRUE, FALSE, FALSE)
AllPolicies == {StatefulServer, StatelessServer, LosslessPeer, LossyClient}
SomeOps == {"send to", "send on", "mark down", "mark down on", "shutdown", "wait"}
EndOps == {"shutdown", "wait"}
=============================================================================
