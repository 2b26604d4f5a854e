-------------------------- MODULE MCMessagingDevice --------------------------
\* Instances of MessagingDevice for TLC.
EXTENDS MessagingDevice, TLC

CONSTANTS t1, t2, alice, bob

\* Tabs are interchangeable.
TabSymmetry == Permutations(Tab)

==============================================================================
