---------------------------- MODULE MCMessaging ----------------------------
(* Instances of Messaging for TLC. *)
EXTENDS Messaging, TLC

CONSTANTS api, api2, t1

\* Every coroutine in the one process of the deployed backend.
OneProcess == [t \in Tasks |-> api]

\* Two processes that share the database; t1 runs in the first.
TwoProcesses == [t \in Tasks |-> IF t = t1 THEN api ELSE api2]

\* Ids and coroutines of one process are interchangeable.
MessageSymmetry == Permutations(MessageIds)
Symmetry == MessageSymmetry \cup Permutations(Tasks)

=============================================================================
