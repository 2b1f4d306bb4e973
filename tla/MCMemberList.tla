---------------------------- MODULE MCMemberList ----------------------------
EXTENDS MemberList
MCHost == [p \in Nodes |-> p]
MCPort == [p \in Peers |-> 8080]
=============================================================================
